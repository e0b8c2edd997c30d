--------------------------- MODULE ReviewService ----------------------------
(***************************************************************************)
(* The review service: requests of all kinds interleaved over one          *)
(* database, statements that fail or whose reply is lost, and a process    *)
(* that may die and come back.  The properties say which of the rules of   *)
(* docs/README_TASK.md survive that; those that hold only when conflicting *)
(* requests do not overlap are in AssignmentRules.                         *)
(***************************************************************************)
EXTENDS PullRequestService, TeamService, Deactivation

CONSTANTS
    SeedUsers,     \* the tables a behaviour starts from: what earlier
    SeedPRs        \* requests have left behind

-----------------------------------------------------------------------------
(* What every row of pull_requests satisfies, at rest and in flight.       *)

\* The users a reference can point to: rows of users are never deleted.
Registered == {u \in UserIds : UserExists(u)}

WellFormed(list, author) ==
    /\ Distinct(list)
    /\ author \notin Members(list)
    /\ Len(list) <= ReviewerCap

\* A list that may be stored for a pull request of the author.
ListOK(list, author) ==
    /\ WellFormed(list, author)
    /\ Members(list) \subseteq Registered

RowOK(row) ==
    /\ row.author_id \in Registered
    /\ ListOK(row.assigned_reviewers, row.author_id)

SeedRowOK(row) ==
    /\ WellFormed(row.assigned_reviewers, row.author_id)
    /\ \A u \in Members(row.assigned_reviewers) \cup {row.author_id} :
          SeedUsers[u] # Null

ASSUME SeedAssumption ==
    /\ SeedUsers \in [UserIds -> {Null} \cup User]
    /\ SeedPRs \in [PRIds -> {Null} \cup PullRequest]
    /\ \A p \in PRIds : SeedPRs[p] # Null => SeedRowOK(SeedPRs[p])

-----------------------------------------------------------------------------
Init ==
    /\ users = SeedUsers
    /\ pull_requests = SeedPRs
    /\ maxReviewers \in Limits
    /\ pc = [r \in Requests |-> "idle"]
    /\ call = [r \in Requests |-> Null]
    /\ resp = [r \in Requests |-> "none"]
    /\ pr = [r \in Requests |-> Null]
    /\ team = [r \in Requests |-> Null]
    /\ reviewers = [r \in Requests |-> <<>>]
    /\ sweep = [r \in Requests |-> NoSweep]

\* The goroutine of r takes a step.
Step(r) == \/ CreatePR(r)
           \/ MergePR(r)
           \/ ReassignReviewer(r)
           \/ CreateTeam(r)
           \/ SetActive(r)
           \/ DeactivateTeamUsers(r)

\* Every request has been answered: the only state to stop in.
Quiescent == /\ \A r \in Requests : pc[r] = "done"
             /\ UNCHANGED vars

Next == \/ \E r \in Requests : Submit(r) \/ Step(r)
        \/ Restart
        \/ Quiescent

Spec == Init /\ [][Next]_vars

\* The scheduler runs every goroutine, and a statement returns or fails when
\* the deadline of its request is over; a client need not send anything.
FairSpec == Spec /\ \A r \in Requests : WF_vars(Step(r))

-----------------------------------------------------------------------------
(* Properties that hold whatever the interleaving.                         *)

\* The tables, the locals and the program counters have their types, and a
\* request is only ever at a point of the operation it was sent for.
TypeOK ==
    /\ RequestsTypeOK
    /\ \A r \in Requests :
          /\ pc[r] \in CreatePRPoints => call[r] \in CreatePRCall
          /\ pc[r] \in MergePRPoints => call[r] \in MergePRCall
          /\ pc[r] \in ReassignPoints => call[r] \in ReassignCall
          /\ pc[r] \in SetActivePoints => call[r] \in SetActiveCall
          /\ pc[r] \in CreateTeamPoints => call[r] \in CreateTeamCall
          /\ pc[r] \in DeactivatePoints => call[r] \in DeactivateCall

\* No pull request lists a reviewer twice, its own author, a user that is not
\* in the table, or more reviewers than MAX_REVIEWERS has ever allowed; and its
\* author is in users, as fk_author demands.  The lists are computed from rows
\* read earlier and written without a condition, so this must hold of every
\* list in flight as well.
ReviewersWellFormed ==
    \A p \in PRIds : PRExists(p) => RowOK(GetPRByID(p))

\* A copy of the row of p that was read some statements ago: reviewers and
\* status may have changed since, the author may not.
CopyOK(row, p) ==
    /\ PRExists(p)
    /\ row.author_id = pull_requests[p].author_id
    /\ ListOK(row.assigned_reviewers, row.author_id)

\* The new list of the pull request a sweep is at: no longer than the part of
\* the old one it has dealt with, and without a reviewer it has not reached.
ListInProgress(r) ==
    LET old == pr[r].assigned_reviewers
        new == reviewers[r]
        next == sweep[r].next
    IN  /\ next \in 1 .. Len(old) + 1
        /\ Len(new) < next
        /\ ListOK(new, pr[r].author_id)
        /\ \A i \in next .. Len(old) : old[i] \notin Members(new)

SweepOK(r) ==
    /\ \A p \in PRIds :
          /\ sweep[r].open[p] # Null => CopyOK(sweep[r].open[p], p)
          /\ sweep[r].updates[p] # Null =>
                /\ PRExists(p)
                /\ ListOK(sweep[r].updates[p], pull_requests[p].author_id)
    /\ \A t \in TeamNames :
          sweep[r].cache[t] # Null => sweep[r].cache[t] \subseteq Registered

LocalOK(r) ==
    /\ pc[r] \in {"CreatePR.GetActiveUsersByTeam", "CreatePR.CreatePR"} =>
          call[r].user \in Registered
    /\ pc[r] = "CreatePR.CreatePR" => ListOK(reviewers[r], call[r].user)
    /\ pc[r] = "MergePR.UpdatePRStatusWithMergedAt" => PRExists(call[r].pr)
    /\ pc[r] \in ReassignPoints \ {"Reassign.GetPRByID"} =>
          /\ pr[r] # Null
          /\ CopyOK(pr[r], call[r].pr)
          /\ call[r].user \in Members(pr[r].assigned_reviewers)
    /\ pc[r] = "Reassign.UpdatePRReviewers" =>
          ListOK(reviewers[r], pr[r].author_id)
    /\ SweepOK(r)
    /\ pc[r] \in {"Deactivate.NextReviewer", "Deactivate.GetActiveUsersByTeam"} =>
          /\ pr[r] # Null
          /\ sweep[r].target \in PRIds
          /\ CopyOK(pr[r], sweep[r].target)
          /\ ListInProgress(r)
    /\ pc[r] = "Deactivate.GetActiveUsersByTeam" =>
          sweep[r].next <= Len(pr[r].assigned_reviewers)

\* What a request carries from one statement to the next is fit to be written,
\* whatever the other requests have done to the rows it was computed from.
LocalsOK == \A r \in Requests : LocalOK(r)

\* The history that AnswersHold compares answers with: Answered(op, a) are the
\* requests of kind op answered with a.
Answered(op, answer) ==
    {r \in Requests : resp[r] = answer /\ call[r].op = op}

\* What the service has told a client stays true: a pull request it called
\* created exists with that author, one it called existing exists, one it
\* called merged is MERGED for good.
AnswersHold ==
    /\ \A r \in Answered("CreatePR", "OK") :
          /\ PRExists(call[r].pr)
          /\ pull_requests[call[r].pr].author_id = call[r].user
    /\ \A r \in Answered("CreatePR", "ErrPRExists") : PRExists(call[r].pr)
    /\ \A r \in Answered("MergePR", "OK")
                  \cup Answered("ReassignReviewer", "ErrPRMerged") :
          /\ PRExists(call[r].pr)
          /\ pull_requests[call[r].pr].status = "MERGED"

\* Two clients that race to create the same pull request are never both told
\* that they did: the second one's INSERT meets the conflict.
CreatedOnce ==
    \A r, s \in Answered("CreatePR", "OK") : call[r].pr = call[s].pr => r = s

\* A row never disappears or changes author, and MERGED is final, also when a
\* reassignment or a sweep that read the row as OPEN writes after the merge.
MergedIsFinal ==
    [][\A p \in PRIds : PRExists(p) =>
          /\ PRExists(p)'
          /\ pull_requests'[p].author_id = pull_requests[p].author_id
          /\ pull_requests[p].status = "MERGED" =>
                pull_requests'[p].status = "MERGED"]_vars

\* Every request that reaches the service is answered.
EveryRequestAnswered ==
    \A r \in Requests : pc[r] \in Points ~> pc[r] = "done"
=============================================================================
