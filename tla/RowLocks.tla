------------------------------ MODULE RowLocks ------------------------------
(***************************************************************************)
(* The writes of the repository row by row, on the connections of the pool *)
(* and under the row locks of PostgreSQL (READ COMMITTED).                 *)
(*                                                                         *)
(* CreateTeam upserts its members in the order of the request, the sweep   *)
(* updates pull requests in the random order of a Go map, and an UPDATE    *)
(* locks the rows its WHERE clause finds in the order of the scan.  A row  *)
(* stays locked until its transaction ends, so two of them may wait for    *)
(* each other; PostgreSQL then aborts one of the cycle.  The pool, the     *)
(* order of the rows and the end of a request are the repository's, the    *)
(* locks are the server's.                                                 *)
(***************************************************************************)
EXTENDS Writes

CONSTANTS
    MaxConns,      \* connections of the pool
    Faults         \* the faults that may strike: a subset of LockFaults

VARIABLES
    write,         \* write[x]: the arguments of x
    matched,       \* matched[x]: the rows x has found when it began
    phase,         \* phase[x]: how far x has come
    free,          \* connections of the pool that nobody holds
    todo,          \* todo[x]: the rows of matched[x] not locked yet
    want,          \* want[x]: the locked row x waits for, or Null
    holder,        \* holder[row]: the transaction that has row locked, or Null
    version        \* version[row]: the uncommitted version of a locked row

\* Nobody waits for x any more, but the server does not know that yet.  It has
\* been sent a COMMIT ("indoubt") or has not ("abandoned").
GivenUp == {"abandoned", "indoubt"}

Outcome ==
    [x \in Txns |-> CASE phase[x] = "queued" -> "asked"
                      [] phase[x] \in {"active"} \cup GivenUp -> "begun"
                      [] OTHER -> phase[x]]

Atomic == INSTANCE AtomicWrites WITH outcome <- Outcome

LockFaults == {"Deadline", "Crash"}

ASSUME RowLocksAssumption == MaxConns \in Nat \ {0} /\ Faults \subseteq LockFaults

lockVars == <<todo, want, holder, version>>

vars == <<tables, write, matched, phase, free, lockVars>>

Rows == UserIds \cup PRIds

\* The last committed version of a row.
Row(row) == IF row \in UserIds THEN users[row] ELSE pull_requests[row]

Phases == {"idle", "queued", "active", "committed", "failed"} \cup GivenUp

\* x has a session on the server, and the request waits for it while "active".
Running(x) == phase[x] \in {"active"} \cup GivenUp

\* A transaction of several statements, which takes effect by its COMMIT only.
Explicit(w) == w.op \in {"CreateTeam", "BulkUpdatePRReviewers"}

-----------------------------------------------------------------------------
\* The version w leaves of a row, from the version it finds when it has the
\* lock: the WHERE clause of an UPDATE is asked again, ON CONFLICT has its say.
NewVersion(w, row, old) ==
    CASE w.op = "CreateTeam" ->
           [team_name |-> w.team, is_active |-> w.members[row]]
      [] w.op = "DeactivateUsersByTeam" /\ old.team_name = w.team ->
           [old EXCEPT !.is_active = FALSE]
      [] w.op = "SetUserActive" -> [old EXCEPT !.is_active = w.is_active]
      [] w.op = "CreatePR" /\ old = Null ->
           [author_id |-> w.author, status |-> "OPEN",
            assigned_reviewers |-> w.list, merged_at |-> 0]
      [] w.op = "UpdatePRStatusWithMergedAt" ->
           [old EXCEPT !.status = "MERGED", !.merged_at = @ + 1]
      [] w.op = "UpdatePRReviewers" -> [old EXCEPT !.assigned_reviewers = w.list]
      [] w.op = "BulkUpdatePRReviewers" ->
           [old EXCEPT !.assigned_reviewers = w.updates[row]]
      [] OTHER -> old

\* The row that comes first in the request among those left, or any row.
NextRows(x) ==
    IF write[x].op # "CreateTeam" THEN todo[x]
    ELSE {u \in todo[x] :
            \E i \in 1 .. Len(write[x].order) :
               /\ write[x].order[i] = u
               /\ \A j \in 1 .. i - 1 : write[x].order[j] \notin todo[x]}

-----------------------------------------------------------------------------
Init ==
    /\ users = SeedUsers
    /\ pull_requests = SeedPRs
    /\ write = [x \in Txns |-> Null]
    /\ matched = [x \in Txns |-> {}]
    /\ phase = [x \in Txns |-> "idle"]
    /\ free = MaxConns
    /\ todo = [x \in Txns |-> {}]
    /\ want = [x \in Txns |-> Null]
    /\ holder = [row \in Rows |-> Null]
    /\ version = [row \in Rows |-> Null]

\* A request calls the method and asks the pool for a connection.
Issue(x) ==
    /\ phase[x] = "idle"
    /\ \E w \in WriteCalls : write' = [write EXCEPT ![x] = w]
    /\ phase' = [phase EXCEPT ![x] = "queued"]
    /\ UNCHANGED <<tables, matched, free, lockVars>>

\* Mutant: the pool has no limit.
Begin_overdraws(x) ==
    /\ phase[x] = "queued"
    /\ free' = free - 1
    /\ phase' = [phase EXCEPT ![x] = "active"]
    /\ matched' = [matched EXCEPT ![x] = Targets(write[x])]
    /\ todo' = [todo EXCEPT ![x] = Targets(write[x])]
    /\ UNCHANGED <<tables, write, want, holder, version>>

\* The pool hands out a connection and the first statement takes its snapshot.
Begin(x) ==
    /\ phase[x] = "queued"
    /\ free > 0
    /\ free' = free - 1
    /\ phase' = [phase EXCEPT ![x] = "active"]
    /\ matched' = [matched EXCEPT ![x] = Targets(write[x])]
    /\ todo' = [todo EXCEPT ![x] = Targets(write[x])]
    /\ UNCHANGED <<tables, write, want, holder, version>>

\* The server goes on with x.  Of an abandoned transaction it finishes the
\* statement it is executing, which is the whole of an autocommitted one.
Executing(x) ==
    \/ phase[x] = "active"
    \/ /\ phase[x] = "abandoned"
       /\ ~Explicit(write[x]) \/ want[x] # Null

\* Mutant: r.db.Exec for tx.Exec, every row is committed by itself.
LockRow_autocommits(x, row) ==
    /\ Executing(x)
    /\ row \in NextRows(x)
    /\ want[x] \in {Null, row}
    /\ holder[row] = Null
    /\ users' = [u \in UserIds |->
           IF u = row THEN NewVersion(write[x], u, users[u]) ELSE users[u]]
    /\ pull_requests' = [p \in PRIds |->
           IF p = row THEN NewVersion(write[x], p, pull_requests[p])
                      ELSE pull_requests[p]]
    /\ todo' = [todo EXCEPT ![x] = @ \ {row}]
    /\ want' = [want EXCEPT ![x] = Null]
    /\ UNCHANGED <<write, matched, phase, free, holder, version>>

LockRow(x, row) ==
    /\ Executing(x)
    /\ row \in NextRows(x)
    /\ want[x] \in {Null, row}
    /\ holder[row] = Null
    /\ holder' = [holder EXCEPT ![row] = x]
    /\ version' = [version EXCEPT ![row] = NewVersion(write[x], row, Row(row))]
    /\ todo' = [todo EXCEPT ![x] = @ \ {row}]
    /\ want' = [want EXCEPT ![x] = Null]
    /\ UNCHANGED <<tables, write, matched, phase, free>>

WaitForRow(x, row) ==
    /\ Executing(x)
    /\ row \in NextRows(x)
    /\ want[x] = Null
    /\ holder[row] # Null
    /\ want' = [want EXCEPT ![x] = row]
    /\ UNCHANGED <<tables, write, matched, phase, free, todo, holder, version>>

-----------------------------------------------------------------------------
(* The end of a transaction.                                               *)

\* Mutant: the deferred Rollback is missing, an error keeps the connection.
EndSession_leaks(x, how) ==
    /\ phase' = [phase EXCEPT ![x] = how]
    /\ free' = IF phase[x] = "active" /\ how = "committed" THEN free + 1 ELSE free
    /\ want' = [want EXCEPT ![x] = Null]
    /\ todo' = [todo EXCEPT ![x] = {}]
    /\ holder' = [row \in Rows |-> IF holder[row] = x THEN Null ELSE holder[row]]
    /\ version' = [row \in Rows |-> IF holder[row] = x THEN Null ELSE version[row]]
    /\ UNCHANGED <<write, matched>>

\* The locks go, and the connection returns to the pool if it has not yet.
EndSession(x, how) ==
    /\ phase' = [phase EXCEPT ![x] = how]
    /\ free' = IF phase[x] = "active" THEN free + 1 ELSE free
    /\ want' = [want EXCEPT ![x] = Null]
    /\ todo' = [todo EXCEPT ![x] = {}]
    /\ holder' = [row \in Rows |-> IF holder[row] = x THEN Null ELSE holder[row]]
    /\ version' = [row \in Rows |-> IF holder[row] = x THEN Null ELSE version[row]]
    /\ UNCHANGED <<write, matched>>

\* An explicit transaction that has been given up commits only if its COMMIT
\* was on the way by then.
Commit(x) ==
    /\ \/ phase[x] \in {"active", "indoubt"}
       \/ phase[x] = "abandoned" /\ ~Explicit(write[x])
    /\ todo[x] = {}
    /\ users' = [u \in UserIds |-> IF holder[u] = x THEN version[u] ELSE users[u]]
    /\ pull_requests' = [p \in PRIds |->
                           IF holder[p] = x THEN version[p] ELSE pull_requests[p]]
    /\ EndSession(x, "committed")

Rollback(x) == EndSession(x, "failed") /\ UNCHANGED tables

\* The transaction whose lock x waits for.
Blocker(x) == IF want[x] = Null THEN Null ELSE holder[want[x]]

\* x is in a set of transactions each of which waits for another of them, and
\* for each of which another one waits.
Deadlocked(x) ==
    \E xs \in SUBSET Txns : x \in xs /\ {Blocker(y) : y \in xs} = xs

\* Mutant: a lock timeout in the place of the deadlock detector.
Victim_ofWaiting(x) == Running(x) /\ want[x] # Null /\ Rollback(x)

\* Mutant: the victim is tried again, in the same order or another.
Victim_retries(x) ==
    Running(x) /\ Deadlocked(x) /\ EndSession(x, "queued") /\ UNCHANGED tables

\* PostgreSQL picks a transaction of the cycle.
Victim(x) == Running(x) /\ Deadlocked(x) /\ Rollback(x)

\* What may become of x when its request stops waiting for the server.
LeftAs(x) == {p \in GivenUp : p = "indoubt" => Explicit(write[x]) /\ todo[x] = {}}

\* The 10 s of the request are over: it is answered with an error.  pgx gives
\* the connection up and asks the server, in the background, to cancel.
Expire(x) ==
    /\ "Deadline" \in Faults
    /\ \/ /\ phase[x] = "queued"
          /\ phase' = [phase EXCEPT ![x] = "failed"]
          /\ free' = free
       \/ /\ phase[x] = "active"
          /\ \E how \in LeftAs(x) : phase' = [phase EXCEPT ![x] = how]
          /\ free' = free + 1
    /\ UNCHANGED <<tables, write, matched, lockVars>>

\* The server learns that the client is gone, or a COMMIT never arrives.
Cancel(x) == phase[x] \in GivenUp /\ Rollback(x)

\* The process dies.  Its successor has a pool of its own; the sessions of the
\* old one are on the server until it notices.
Crash ==
    /\ "Crash" \in Faults
    /\ \E how \in [{x \in Txns : phase[x] = "active"} -> GivenUp] :
          /\ \A x \in DOMAIN how : how[x] \in LeftAs(x)
          /\ phase' = [x \in Txns |-> CASE phase[x] = "queued" -> "failed"
                                        [] phase[x] = "active" -> how[x]
                                        [] OTHER -> phase[x]]
    /\ free' = MaxConns
    /\ UNCHANGED <<tables, write, matched, lockVars>>

-----------------------------------------------------------------------------
\* What the server and the request do on their own accord.
Advance(x) == \/ Begin(x)
              \/ \E row \in Rows : LockRow(x, row) \/ WaitForRow(x, row)
              \/ Commit(x)

Ended(x) == phase[x] \in {"committed", "failed"}

AllEnded == (\A x \in Txns : Ended(x)) /\ UNCHANGED vars

Next == \/ \E x \in Txns : \/ Issue(x)
                           \/ Advance(x)
                           \/ Victim(x)
                           \/ Expire(x)
                           \/ Cancel(x)
        \/ Crash
        \/ AllEnded

Spec == Init /\ [][Next]_vars

\* Statements are executed, a free connection is handed out, and the deadlock
\* detector, which runs a second after a wait began, breaks every cycle.
FairSpec == /\ Spec
            /\ \A x \in Txns : WF_vars(Advance(x))
            /\ WF_vars(\E x \in Txns : Victim(x))

-----------------------------------------------------------------------------
\* Tables, locks and versions have their types.
RowLocksTypeOK ==
    /\ TablesTypeOK
    /\ write \in [Txns -> {Null} \cup WriteCalls]
    /\ matched \in [Txns -> SUBSET Rows]
    /\ phase \in [Txns -> Phases]
    /\ free \in Nat
    /\ todo \in [Txns -> SUBSET Rows]
    /\ want \in [Txns -> {Null} \cup Rows]
    /\ holder \in [Rows -> {Null} \cup Txns]
    /\ version \in [Rows -> {Null} \cup User \cup PullRequest]

\* Every connection is free or held by one request, however the calls end.
PoolBalanced == free + Cardinality({x \in Txns : phase[x] = "active"}) = MaxConns

\* Writes that lock row by row are, to everybody else, writes at one instant:
\* the assumption under which the service is modelled.
ImplementsAtomicWrites == Atomic!AtomicSpec

\* Without deadlines and crashes a write fails only as the victim of a deadlock,
\* and only a write of several rows can be one: /users/setIsActive, create,
\* merge and reassign never fail because of /team/add or a mass deactivation.
OnlyBulkWritesFail ==
    \A x \in Txns : phase[x] = "failed" =>
       /\ write[x].op \in {"CreateTeam", "DeactivateUsersByTeam",
                           "BulkUpdatePRReviewers"}
       /\ \E row, other \in matched[x] : row # other

\* Every write ends, without the help of a deadline: those that wait for a
\* connection get one, those that wait for each other are torn apart.
WritesEnd == \A x \in Txns : phase[x] = "queued" ~> Ended(x)
=============================================================================
