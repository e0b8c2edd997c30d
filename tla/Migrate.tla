------------------------------ MODULE Migrate -------------------------------
(***************************************************************************)
(* cmd/migrate: one run of the program is a job.  golang-migrate brackets  *)
(* a migration file: it records the version it goes to as dirty, executes  *)
(* the file, and records the version as clean, in three transactions under *)
(* an advisory lock.  A job may fail or be killed between any two of them. *)
(*                                                                         *)
(* There is one migration, 001_init_schema, so the schema is there or not. *)
(***************************************************************************)
EXTENDS Integers

CONSTANTS
    Jobs,          \* runs of cmd/migrate
    NoJob          \* nobody holds the lock

ASSUME NoJobAssumption == NoJob \notin Jobs

VARIABLES
    schema,        \* "absent" or "present": tables, indexes and trigger
    recorded,      \* the row of schema_migrations
    lock,          \* the job that holds the advisory lock
    job,           \* job[j]: the step j takes next
    command,       \* command[j]: its command line
    exit           \* exit[j]: its exit code

migrateVars == <<schema, recorded, lock, job, command, exit>>

\* database.NilVersion: no migration has been applied.
NilVersion == -1

Version == {NilVersion, 1}

\* -version is read by force alone, where 0 is refused as missing.
Command == [name : {"up", "down", "version", "unknown"}, version : {0}]
             \cup [name : {"force"}, version : Version \cup {0}]

JobSteps == {"New", "Lock", "Version", "SetDirty", "Run", "SetClean"}

Running(j) == job[j] \in JobSteps

\* The version a command line goes to.
TargetVersion(c) ==
    CASE c.name = "up" -> 1 [] c.name = "down" -> NilVersion [] OTHER -> c.version

SchemaOf(version) == IF version = 1 THEN "present" ELSE "absent"

-----------------------------------------------------------------------------
MigrateInit ==
    /\ schema = "absent"
    /\ recorded = [version |-> NilVersion, dirty |-> FALSE, forced |-> FALSE]
    /\ lock = NoJob
    /\ job = [j \in Jobs |-> "idle"]
    /\ command = [j \in Jobs |-> [name |-> "up", version |-> 0]]
    /\ exit = [j \in Jobs |-> "none"]

StartJob(j, c) ==
    /\ ~Running(j)
    /\ job' = [job EXCEPT ![j] = "New"]
    /\ command' = [command EXCEPT ![j] = c]
    /\ exit' = [exit EXCEPT ![j] = "none"]
    /\ UNCHANGED <<schema, recorded, lock>>

JobGoto(j, step) ==
    /\ job' = [job EXCEPT ![j] = step]
    /\ UNCHANGED <<command, exit>>

\* The job ends; its session takes the advisory lock with it.
JobEnds(j, code) ==
    /\ job' = [job EXCEPT ![j] = "ended"]
    /\ exit' = [exit EXCEPT ![j] = code]
    /\ lock' = IF lock = j THEN NoJob ELSE lock
    /\ UNCHANGED command

\* Mutant: the error is logged, and main returns.
JobFails_exitsZero(j) == JobEnds(j, "0") /\ UNCHANGED <<schema, recorded>>

\* log.Error and os.Exit(1).
JobFails(j) == JobEnds(j, "1") /\ UNCHANGED <<schema, recorded>>

\* migrate.New connects; the command is looked at afterwards.
Job_New(j) ==
    /\ job[j] = "New"
    /\ \/ JobFails(j)
       \/ /\ \/ command[j].name \in {"up", "down"}
             \/ command[j].name = "force" /\ command[j].version # 0
          /\ JobGoto(j, "Lock")
          /\ UNCHANGED <<schema, recorded, lock>>
       \/ /\ command[j].name = "version"
          /\ JobEnds(j, "0")
          /\ UNCHANGED <<schema, recorded>>

\* The lock is free, or the job gives up after 15 s.
Job_Lock(j) ==
    /\ job[j] = "Lock"
    /\ \/ JobFails(j)
       \/ /\ lock = NoJob
          /\ lock' = j
          /\ JobGoto(j, IF command[j].name = "force" THEN "SetClean" ELSE "Version")
          /\ UNCHANGED <<schema, recorded>>

\* A dirty version is an error; ErrNoChange is none.
Job_Version(j) ==
    /\ job[j] = "Version"
    /\ \/ JobFails(j)
       \/ /\ ~recorded.dirty
          /\ recorded.version = TargetVersion(command[j])
          /\ JobEnds(j, "0")
          /\ UNCHANGED <<schema, recorded>>
       \/ /\ ~recorded.dirty
          /\ recorded.version # TargetVersion(command[j])
          /\ JobGoto(j, "SetDirty")
          /\ UNCHANGED <<schema, recorded, lock>>

Job_SetDirty(j) ==
    /\ job[j] = "SetDirty"
    /\ \/ JobFails(j)
       \/ /\ recorded' = [version |-> TargetVersion(command[j]), dirty |-> TRUE,
                          forced |-> FALSE]
          /\ (JobGoto(j, "Run") /\ UNCHANGED lock) \/ JobEnds(j, "1")
          /\ UNCHANGED schema

\* Mutant: down.sql leaves the tables behind.
RunFile_keepsTables(name) ==
    \/ name = "up" /\ schema = "absent" /\ schema' = "present"
    \/ name = "down" /\ UNCHANGED schema

\* One implicit transaction.  CREATE TRIGGER is the one statement of the up
\* file that fails when what it creates is there; the down file drops with IF
\* EXISTS.
RunFile(name) ==
    \/ name = "up" /\ schema = "absent" /\ schema' = "present"
    \/ name = "down" /\ schema' = "absent"

Job_Run(j) ==
    /\ job[j] = "Run"
    /\ \/ JobFails(j)
       \/ /\ RunFile(command[j].name)
          /\ (JobGoto(j, "SetClean") /\ UNCHANGED lock) \/ JobEnds(j, "1")
          /\ UNCHANGED recorded

\* The end of a migration, and all that force does.
Job_SetClean(j) ==
    /\ job[j] = "SetClean"
    /\ \/ JobFails(j)
       \/ /\ recorded' = [version |-> TargetVersion(command[j]), dirty |-> FALSE,
                          forced |-> command[j].name = "force"]
          /\ JobEnds(j, "0") \/ JobEnds(j, "1")
          /\ UNCHANGED schema

JobStep(j) ==
    \/ Job_New(j)
    \/ Job_Lock(j)
    \/ Job_Version(j)
    \/ Job_SetDirty(j)
    \/ Job_Run(j)
    \/ Job_SetClean(j)

\* The container of the job is stopped or dies.
KillJob(j) ==
    /\ Running(j)
    /\ JobEnds(j, "killed")
    /\ UNCHANGED <<schema, recorded>>

-----------------------------------------------------------------------------
MigrateTypeOK ==
    /\ schema \in {"absent", "present"}
    /\ recorded \in [version : Version, dirty : BOOLEAN, forced : BOOLEAN]
    /\ lock \in {NoJob} \cup Jobs
    /\ job \in [Jobs -> {"idle", "ended"} \cup JobSteps]
    /\ command \in [Jobs -> Command]
    /\ exit \in [Jobs -> {"none", "0", "1", "killed"}]

\* A version that a migration has recorded as clean tells the truth about the
\* schema, though a job may die between its three transactions while others
\* wait to go on: only force can record what is not so, and no later migration
\* turns that into a clean version of its own.
CleanVersionIsTrue ==
    ~recorded.dirty /\ ~recorded.forced => schema = SchemaOf(recorded.version)
=============================================================================
