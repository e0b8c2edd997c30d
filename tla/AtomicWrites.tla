---------------------------- MODULE AtomicWrites ----------------------------
(***************************************************************************)
(* What ReviewService assumes of the database: a method of the repository  *)
(* that writes takes effect as a whole, at one instant between its call    *)
(* and its return, or not at all.                                          *)
(*                                                                         *)
(* The one thing that is read earlier is the set of rows an UPDATE with a  *)
(* WHERE clause has found: a row that comes to match afterwards is missed, *)
(* one that has ceased to match is left alone.  RowLocks shows how         *)
(* PostgreSQL keeps this promise row by row.                               *)
(***************************************************************************)
EXTENDS Writes

VARIABLES
    write,         \* write[x]: the arguments of x
    outcome,       \* outcome[x]: how far x has come
    matched        \* matched[x]: the rows x has found when it began

-----------------------------------------------------------------------------
\* The whole write at once.  An UPDATE that has found no row changes nothing,
\* an INSERT of a pull request that exists by now does nothing.
Effect(w, rows) ==
    \/ /\ w.op = "CreateTeam"
       /\ CreateTeamTx(w.team, w.members)
    \/ /\ w.op = "CreatePR"
       /\ \/ InsertPR(w.pr, w.author, w.list)
          \/ PRExists(w.pr) /\ UNCHANGED tables
    \/ /\ w.op = "DeactivateUsersByTeam" /\ rows # {}
       /\ DeactivateUsersByTeam(w.team, rows)
    \/ /\ w.op = "SetUserActive" /\ rows # {}
       /\ SetUserActive(w.user, w.is_active)
    \/ /\ w.op = "UpdatePRStatusWithMergedAt" /\ rows # {}
       /\ UpdatePRStatusWithMergedAt(w.pr)
    \/ /\ w.op = "UpdatePRReviewers" /\ rows # {}
       /\ UpdatePRReviewers(w.pr, w.list)
    \/ /\ w.op = "BulkUpdatePRReviewers" /\ rows # {}
       /\ BulkUpdatePRReviewers([p \in PRIds |->
                                   IF p \in rows THEN w.updates[p] ELSE Null])
    \/ /\ w.op \notin {"CreateTeam", "CreatePR"} /\ rows = {}
       /\ UNCHANGED tables

-----------------------------------------------------------------------------
AtomicInit ==
    /\ users = SeedUsers
    /\ pull_requests = SeedPRs
    /\ write = [x \in Txns |-> Null]
    /\ outcome = [x \in Txns |-> "idle"]
    /\ matched = [x \in Txns |-> {}]

Ask(x) ==
    /\ outcome[x] = "idle"
    /\ \E w \in WriteCalls : write' = [write EXCEPT ![x] = w]
    /\ outcome' = [outcome EXCEPT ![x] = "asked"]
    /\ UNCHANGED <<tables, matched>>

Find(x) ==
    /\ outcome[x] = "asked"
    /\ matched' = [matched EXCEPT ![x] = Targets(write[x])]
    /\ outcome' = [outcome EXCEPT ![x] = "begun"]
    /\ UNCHANGED <<tables, write>>

TakeEffect(x) ==
    /\ outcome[x] = "begun"
    /\ Effect(write[x], matched[x])
    /\ outcome' = [outcome EXCEPT ![x] = "committed"]
    /\ UNCHANGED <<write, matched>>

\* Some of those under way end without a trace.
Vanish(xs) ==
    /\ \A x \in xs : outcome[x] \in {"asked", "begun"}
    /\ outcome' = [x \in Txns |-> IF x \in xs THEN "failed" ELSE outcome[x]]
    /\ UNCHANGED <<tables, write, matched>>

AtomicNext ==
    \/ \E x \in Txns : Ask(x) \/ Find(x) \/ TakeEffect(x)
    \/ \E xs \in SUBSET Txns : Vanish(xs)

AtomicSpec == AtomicInit /\ [][AtomicNext]_<<tables, write, outcome, matched>>
=============================================================================
