----------------------------- MODULE Deployment -----------------------------
(***************************************************************************)
(* docker-compose.yml: compose runs the migrations and starts the service  *)
(* when they have succeeded; Docker stops it, and starts it again when it  *)
(* has ended without being told to, in which case nothing is migrated or   *)
(* waited for.  Operators run cmd/migrate by hand.                         *)
(***************************************************************************)
EXTENDS Process, Migrate

CONSTANTS
    Compose,       \* the job of the service "migrate" of the compose file
    Commands       \* what operators run by hand

ASSUME ComposeAssumption == Compose \in Jobs /\ Commands \subseteq Command

VARIABLE stopping  \* docker stop has been given and the service not started since

vars == <<processVars, migrateVars, stopping>>

Operators == Jobs \ {Compose}

Init ==
    /\ ProcessInit
    /\ MigrateInit
    /\ stopping = FALSE

ComposeUp ==
    /\ ~Alive
    /\ StartJob(Compose, [name |-> "up", version |-> 0])
    /\ UNCHANGED <<processVars, stopping>>

\* condition: service_completed_successfully.
ComposeApp ==
    /\ exit[Compose] = "0"
    /\ main = "off" \/ stopping
    /\ Start
    /\ stopping' = FALSE
    /\ UNCHANGED migrateVars

\* restart: unless-stopped.
Restart ==
    /\ main = "exited"
    /\ ~stopping
    /\ Start
    /\ UNCHANGED <<migrateVars, stopping>>

\* Each operator runs one command.
Operate(j) ==
    /\ job[j] = "idle"
    /\ \E c \in Commands : StartJob(j, c)
    /\ UNCHANGED <<processVars, stopping>>

Stop ==
    /\ Signal
    /\ stopping' = TRUE
    /\ UNCHANGED migrateVars

Interrupt ==
    /\ Signal
    /\ UNCHANGED <<migrateVars, stopping>>

Next ==
    \/ ComposeUp
    \/ ComposeApp
    \/ Restart
    \/ Stop
    \/ Interrupt
    \/ ProcessStep /\ UNCHANGED <<migrateVars, stopping>>
    \/ \E j \in Jobs : /\ JobStep(j) \/ KillJob(j)
                       /\ UNCHANGED <<processVars, stopping>>
    \/ \E j \in Operators : Operate(j)

Spec == Init /\ [][Next]_vars /\ ProcessFairness

-----------------------------------------------------------------------------
DeploymentTypeOK == ProcessTypeOK /\ MigrateTypeOK /\ stopping \in BOOLEAN

\* While no operator has touched the migrations, compose starts the service on
\* the schema it needs: a migration that has failed or was killed never counts
\* as completed successfully.
AppStartsOnSchema ==
    [][ComposeApp /\ (\A j \in Operators : job[j] = "idle")
         => schema = "present" /\ ~recorded.dirty]_vars

\* docker stop ends the process whenever it comes, by the limits of the process
\* alone: no signal is lost between start and shutdown, and no request holds
\* the shutdown up for good.
StopEnds == stopping ~> ~Alive
=============================================================================
