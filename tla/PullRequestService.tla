------------------------- MODULE PullRequestService -------------------------
(***************************************************************************)
(* CreatePR, MergePR and ReassignReviewer of internal/service.             *)
(*                                                                         *)
(* One action per repository call.  Its disjuncts are the outcomes of that *)
(* call: the statement fails, or the method returns, or it goes on.  None  *)
(* of the three methods opens a transaction or states a condition in its   *)
(* UPDATE, so what a call has read may be out of date at the next one.     *)
(***************************************************************************)
EXTENDS Requests

-----------------------------------------------------------------------------
(* Choices of the random source.                                           *)

SelectionSize(candidates) ==
    IF candidates = {} \/ Cardinality(candidates) < maxReviewers
    THEN Cardinality(candidates) ELSE maxReviewers

\* Mutant: the picks are drawn independently, without the map of those selected.
selectRandomReviewers_withRepeats(candidates) ==
    [1 .. SelectionSize(candidates) -> candidates]

\* A shuffle may leave any order, of which a prefix is taken.
selectRandomReviewers(candidates) ==
    {list \in [1 .. SelectionSize(candidates) -> candidates] : Distinct(list)}

\* Mutant: the first reviewer is replaced, whoever that is.
Replace_first(list, old, new) == [list EXCEPT ![1] = new]

\* list with the first occurrence of old replaced.
Replace(list, old, new) ==
    LET at == CHOOSE i \in 1 .. Len(list) :
                /\ list[i] = old
                /\ \A j \in 1 .. i - 1 : list[j] # old
    IN  [list EXCEPT ![at] = new]

-----------------------------------------------------------------------------
CreatePR_PRExists(r) ==
    /\ pc[r] = "CreatePR.PRExists"
    /\ \/ Fails(r)
       \/ /\ PRExists(call[r].pr)
          /\ Finish(r, "ErrPRExists")
       \/ /\ ~PRExists(call[r].pr)
          /\ Goto(r, "CreatePR.GetUserByID")
          /\ UNCHANGED locals
    /\ UNCHANGED tables

CreatePR_GetUserByID(r) ==
    /\ pc[r] = "CreatePR.GetUserByID"
    /\ \/ Fails(r)
       \/ /\ ~UserExists(call[r].user)
          /\ Finish(r, "ErrUserNotFound")
       \/ /\ UserExists(call[r].user)
          /\ team' = [team EXCEPT ![r] = GetUserByID(call[r].user).team_name]
          /\ Goto(r, "CreatePR.GetActiveUsersByTeam")
          /\ UNCHANGED <<pr, reviewers, sweep>>
    /\ UNCHANGED tables

\* The reviewers are chosen here and written by the next step.  Nothing keeps
\* MAX_REVIEWERS from being negative: make() then panics on its capacity.
CreatePR_GetActiveUsersByTeam(r) ==
    /\ pc[r] = "CreatePR.GetActiveUsersByTeam"
    /\ LET candidates == GetActiveUsersByTeam(team[r], call[r].user) IN
       \/ Fails(r)
       \/ /\ candidates # {} /\ maxReviewers < 0
          /\ Panics(r)
       \/ /\ candidates = {} \/ maxReviewers >= 0
          /\ \E list \in selectRandomReviewers(candidates) :
                reviewers' = [reviewers EXCEPT ![r] = list]
          /\ Goto(r, "CreatePR.CreatePR")
          /\ UNCHANGED <<pr, team, sweep>>
    /\ UNCHANGED tables

\* Mutant: ON CONFLICT DO UPDATE, the row of the earlier creator is overwritten.
CreatePR_CreatePR_upsert(r) ==
    /\ pc[r] = "CreatePR.CreatePR"
    /\ pull_requests' =
         [pull_requests EXCEPT ![call[r].pr] =
            [author_id |-> call[r].user, status |-> "OPEN",
             assigned_reviewers |-> reviewers[r], merged_at |-> 0]]
    /\ Goto(r, "CreatePR.GetPRByID")
    /\ UNCHANGED <<users, locals>>

\* Mutant: the number of inserted rows is not looked at.
CreatePR_CreatePR_ignoresConflict(r) ==
    /\ pc[r] = "CreatePR.CreatePR"
    /\ \/ InsertPR(call[r].pr, call[r].user, reviewers[r])
       \/ PRExists(call[r].pr) /\ UNCHANGED tables
    /\ Goto(r, "CreatePR.GetPRByID")
    /\ UNCHANGED locals

CreatePR_CreatePR(r) ==
    /\ pc[r] = "CreatePR.CreatePR"
    /\ \/ Fails(r) /\ UNCHANGED tables
       \/ /\ PRExists(call[r].pr)
          /\ Finish(r, "ErrPRExists")
          /\ UNCHANGED tables
       \/ /\ InsertPR(call[r].pr, call[r].user, reviewers[r])
          /\ \/ Fails(r)
             \/ Goto(r, "CreatePR.GetPRByID") /\ UNCHANGED locals

CreatePR_GetPRByID(r) ==
    /\ pc[r] = "CreatePR.GetPRByID"
    /\ \/ Fails(r)
       \/ Finish(r, IF PRExists(call[r].pr) THEN "OK" ELSE "ErrPRNotFound")
    /\ UNCHANGED tables

-----------------------------------------------------------------------------
\* Mutant: without the early return a merged pull request is merged again.
MergePR_GetPRByID_mergesAgain(r) ==
    /\ pc[r] = "MergePR.GetPRByID"
    /\ PRExists(call[r].pr)
    /\ pr' = [pr EXCEPT ![r] = pull_requests[call[r].pr]]
    /\ Goto(r, "MergePR.UpdatePRStatusWithMergedAt")
    /\ UNCHANGED <<team, reviewers, sweep, tables>>

\* A status other than OPEN and MERGED is refused; no statement writes one.
MergePR_GetPRByID(r) ==
    /\ pc[r] = "MergePR.GetPRByID"
    /\ LET row == GetPRByID(call[r].pr) IN
       \/ Fails(r)
       \/ /\ row = Null
          /\ Finish(r, "ErrPRNotFound")
       \/ /\ row # Null
          /\ row.status = "MERGED"
          /\ Finish(r, "OK")
       \/ /\ row # Null
          /\ row.status = "OPEN"
          /\ pr' = [pr EXCEPT ![r] = row]
          /\ Goto(r, "MergePR.UpdatePRStatusWithMergedAt")
          /\ UNCHANGED <<team, reviewers, sweep>>
    /\ UNCHANGED tables

\* Mutant: the error of the UPDATE is logged only.
MergePR_UpdatePRStatusWithMergedAt_ignoresError(r) ==
    /\ pc[r] = "MergePR.UpdatePRStatusWithMergedAt"
    /\ \/ "DBError" \in Faults /\ UNCHANGED tables
       \/ UpdatePRStatusWithMergedAt(call[r].pr)
    /\ Finish(r, "OK")

MergePR_UpdatePRStatusWithMergedAt(r) ==
    /\ pc[r] = "MergePR.UpdatePRStatusWithMergedAt"
    /\ \/ Fails(r) /\ UNCHANGED tables
       \/ /\ UpdatePRStatusWithMergedAt(call[r].pr)
          /\ \/ Fails(r)
             \/ Finish(r, "OK")

-----------------------------------------------------------------------------
\* Mutant: the status of the pull request is not looked at.
Reassign_GetPRByID_mergedToo(r) ==
    /\ pc[r] = "Reassign.GetPRByID"
    /\ PRExists(call[r].pr)
    /\ call[r].user \in Members(pull_requests[call[r].pr].assigned_reviewers)
    /\ pr' = [pr EXCEPT ![r] = pull_requests[call[r].pr]]
    /\ Goto(r, "Reassign.GetUserByID")
    /\ UNCHANGED <<team, reviewers, sweep, tables>>

Reassign_GetPRByID(r) ==
    /\ pc[r] = "Reassign.GetPRByID"
    /\ LET row == GetPRByID(call[r].pr) IN
       \/ Fails(r)
       \/ /\ row = Null
          /\ Finish(r, "ErrPRNotFound")
       \/ /\ row # Null
          /\ row.status = "MERGED"
          /\ Finish(r, "ErrPRMerged")
       \/ /\ row # Null
          /\ row.status # "MERGED"
          /\ call[r].user \notin Members(row.assigned_reviewers)
          /\ Finish(r, "ErrReviewerNotAssigned")
       \/ /\ row # Null
          /\ row.status # "MERGED"
          /\ call[r].user \in Members(row.assigned_reviewers)
          /\ pr' = [pr EXCEPT ![r] = row]
          /\ Goto(r, "Reassign.GetUserByID")
          /\ UNCHANGED <<team, reviewers, sweep>>
    /\ UNCHANGED tables

Reassign_GetUserByID(r) ==
    /\ pc[r] = "Reassign.GetUserByID"
    /\ \/ Fails(r)
       \/ IF UserExists(call[r].user)
          THEN /\ team' = [team EXCEPT ![r] = GetUserByID(call[r].user).team_name]
               /\ Goto(r, "Reassign.GetActiveUsersByTeam")
               /\ UNCHANGED <<pr, reviewers, sweep>>
          ELSE Finish(r, "ErrUserNotFound")
    /\ UNCHANGED tables

\* Mutant: the other reviewers of the pull request are not excluded.
ReassignCandidates_othersToo(r) ==
    GetActiveUsersByTeam(team[r], call[r].user) \ {pr[r].author_id}

\* Active members of the old reviewer's team who have no part in the pull
\* request that r has read.
ReassignCandidates(r) ==
    GetActiveUsersByTeam(team[r], call[r].user)
      \ ({pr[r].author_id} \cup Members(pr[r].assigned_reviewers))

\* Mutant: an empty choice is written into the list.
Reassign_GetActiveUsersByTeam_nobody(r) ==
    /\ pc[r] = "Reassign.GetActiveUsersByTeam"
    /\ ReassignCandidates(r) = {}
    /\ reviewers' = [reviewers EXCEPT ![r] =
           Replace(pr[r].assigned_reviewers, call[r].user, Null)]
    /\ Goto(r, "Reassign.UpdatePRReviewers")
    /\ UNCHANGED <<pr, team, sweep, tables>>

Reassign_GetActiveUsersByTeam(r) ==
    /\ pc[r] = "Reassign.GetActiveUsersByTeam"
    /\ \/ Fails(r)
       \/ /\ ReassignCandidates(r) = {}
          /\ Finish(r, "ErrNoCandidate")
       \/ /\ \E new \in ReassignCandidates(r) :
                reviewers' = [reviewers EXCEPT ![r] =
                    Replace(pr[r].assigned_reviewers, call[r].user, new)]
          /\ Goto(r, "Reassign.UpdatePRReviewers")
          /\ UNCHANGED <<pr, team, sweep>>
    /\ UNCHANGED tables

\* The whole list is written, whatever the row holds by now.
Reassign_UpdatePRReviewers(r) ==
    /\ pc[r] = "Reassign.UpdatePRReviewers"
    /\ \/ Fails(r) /\ UNCHANGED tables
       \/ /\ UpdatePRReviewers(call[r].pr, reviewers[r])
          /\ \/ Fails(r)
             \/ Finish(r, "OK")

-----------------------------------------------------------------------------
CreatePR(r) == \/ CreatePR_PRExists(r)
               \/ CreatePR_GetUserByID(r)
               \/ CreatePR_GetActiveUsersByTeam(r)
               \/ CreatePR_CreatePR(r)
               \/ CreatePR_GetPRByID(r)

MergePR(r) == \/ MergePR_GetPRByID(r)
              \/ MergePR_UpdatePRStatusWithMergedAt(r)

ReassignReviewer(r) == \/ Reassign_GetPRByID(r)
                       \/ Reassign_GetUserByID(r)
                       \/ Reassign_GetActiveUsersByTeam(r)
                       \/ Reassign_UpdatePRReviewers(r)
=============================================================================
