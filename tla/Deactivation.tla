---------------------------- MODULE Deactivation ----------------------------
(***************************************************************************)
(* DeactivateTeamUsers of internal/service.                                *)
(*                                                                         *)
(* The users are deactivated by a statement that commits at once.  The     *)
(* open pull requests they review are then read, a replacement for each of *)
(* the deactivated reviewers is looked for, reading the database again for *)
(* each, and the new lists are written in one transaction at the end.      *)
(* The loop over the pull requests, and the one over the reviewers of each,*)
(* are the points NextPR and NextReviewer; rows come in the order of       *)
(* created_at, which the model leaves open.                                *)
(***************************************************************************)
EXTENDS Requests

Deactivate_TeamExists(r) ==
    /\ pc[r] = "Deactivate.TeamExists"
    /\ \/ Fails(r)
       \/ /\ ~TeamExists(call[r].team)
          /\ Finish(r, "ErrTeamNotFound")
       \/ /\ TeamExists(call[r].team)
          /\ Goto(r, "Deactivate.DeactivateUsersByTeam")
          /\ UNCHANGED locals
    /\ UNCHANGED tables

\* An UPDATE that matches no row leaves the method with nothing to do.
Deactivate_DeactivateUsersByTeam(r) ==
    /\ pc[r] = "Deactivate.DeactivateUsersByTeam"
    /\ LET ids == UsersToDeactivate(call[r].team, call[r].user_ids) IN
       \/ Fails(r) /\ UNCHANGED tables
       \/ /\ ids = {}
          /\ Finish(r, "OK")
          /\ UNCHANGED tables
       \/ /\ ids # {}
          /\ DeactivateUsersByTeam(call[r].team, call[r].user_ids)
          /\ \/ Fails(r)
             \/ /\ sweep' = [sweep EXCEPT ![r].deactivated = ids]
                /\ Goto(r, "Deactivate.GetOpenPRsByReviewers")
                /\ UNCHANGED <<pr, team, reviewers>>

Deactivate_GetOpenPRsByReviewers(r) ==
    /\ pc[r] = "Deactivate.GetOpenPRsByReviewers"
    /\ LET found == GetOpenPRsByReviewers(sweep[r].deactivated) IN
       \/ Fails(r)
       \/ /\ found = {}
          /\ Finish(r, "OK")
       \/ /\ found # {}
          /\ sweep' = [sweep EXCEPT ![r].open =
                [p \in PRIds |-> IF p \in found THEN pull_requests[p] ELSE Null]]
          /\ Goto(r, "Deactivate.NextPR")
          /\ UNCHANGED <<pr, team, reviewers>>
    /\ UNCHANGED tables

-----------------------------------------------------------------------------
(* The loop over the pull requests.                                        *)

Remaining(r) == {p \in PRIds : sweep[r].open[p] # Null}

\* Mutant: the loop does not move on from a pull request it has dealt with.
Deactivate_NextPR_again(r) ==
    /\ pc[r] = "Deactivate.NextPR"
    /\ \E p \in Remaining(r) :
          /\ pr' = [pr EXCEPT ![r] = sweep[r].open[p]]
          /\ sweep' = [sweep EXCEPT ![r].target = p, ![r].next = 1]
    /\ reviewers' = [reviewers EXCEPT ![r] = <<>>]
    /\ Goto(r, "Deactivate.NextReviewer")
    /\ UNCHANGED <<team, tables>>

Deactivate_NextPR(r) ==
    /\ pc[r] = "Deactivate.NextPR"
    /\ \E p \in Remaining(r) :
          /\ pr' = [pr EXCEPT ![r] = sweep[r].open[p]]
          /\ sweep' = [sweep EXCEPT ![r].open[p] = Null, ![r].target = p,
                                    ![r].next = 1]
    /\ reviewers' = [reviewers EXCEPT ![r] = <<>>]
    /\ Goto(r, "Deactivate.NextReviewer")
    /\ UNCHANGED <<team, tables>>

Deactivate_LoopEnds(r) ==
    /\ pc[r] = "Deactivate.NextPR"
    /\ Remaining(r) = {}
    /\ IF \A p \in PRIds : sweep[r].updates[p] = Null
       THEN Finish(r, "OK")
       ELSE Goto(r, "Deactivate.BulkUpdatePRReviewers") /\ UNCHANGED locals
    /\ UNCHANGED tables

-----------------------------------------------------------------------------
(* The loop over the reviewers of one pull request.                        *)

AtReviewer(r) == /\ pc[r] = "Deactivate.NextReviewer"
                 /\ sweep[r].next <= Len(pr[r].assigned_reviewers)

CurrentReviewer(r) == pr[r].assigned_reviewers[sweep[r].next]

\* The loop goes on with the next reviewer, its list and cache as given.
Continue(r, list, cache) ==
    /\ reviewers' = [reviewers EXCEPT ![r] = list]
    /\ sweep' = [sweep EXCEPT ![r].next = @ + 1, ![r].cache = cache]
    /\ Goto(r, "Deactivate.NextReviewer")
    /\ UNCHANGED <<pr, team>>

\* A statement fails inside the loop: the reviewer is skipped, and with that
\* left out of the new list; the request goes on.
Skips(r) == "DBError" \in Faults /\ Continue(r, reviewers[r], sweep[r].cache)

\* Whom the loop may still pick among the candidates: excludedIDs holds the
\* author, the old list and the replacements chosen so far.
Eligible(r, candidates) ==
    candidates \ ({pr[r].author_id} \cup Members(pr[r].assigned_reviewers)
                    \cup Members(reviewers[r]))

\* Mutant: without a candidate the deactivated reviewer stays.
ReplaceCurrent_orKeep(r, candidates, cache) ==
    \/ \E new \in Eligible(r, candidates) :
          Continue(r, Append(reviewers[r], new), cache)
    \/ /\ Eligible(r, candidates) = {}
       /\ Continue(r, Append(reviewers[r], CurrentReviewer(r)), cache)

\* Without a candidate the reviewer is left out of the new list.
ReplaceCurrent(r, candidates, cache) ==
    \/ \E new \in Eligible(r, candidates) :
          Continue(r, Append(reviewers[r], new), cache)
    \/ /\ Eligible(r, candidates) = {}
       /\ Continue(r, reviewers[r], cache)

Deactivate_KeepReviewer(r) ==
    /\ AtReviewer(r)
    /\ CurrentReviewer(r) \notin sweep[r].deactivated
    /\ Continue(r, Append(reviewers[r], CurrentReviewer(r)), sweep[r].cache)
    /\ UNCHANGED tables

\* GetUserByID of a deactivated reviewer; candidates may be cached already.
Deactivate_GetUserByID(r) ==
    /\ AtReviewer(r)
    /\ CurrentReviewer(r) \in sweep[r].deactivated
    /\ LET t == GetUserByID(CurrentReviewer(r)).team_name IN
       \/ Skips(r)
       \/ IF ~UserExists(CurrentReviewer(r))
          THEN Continue(r, reviewers[r], sweep[r].cache)
          ELSE \/ /\ sweep[r].cache[t] # Null
                  /\ ReplaceCurrent(r, sweep[r].cache[t], sweep[r].cache)
               \/ /\ sweep[r].cache[t] = Null
                  /\ team' = [team EXCEPT ![r] = t]
                  /\ Goto(r, "Deactivate.GetActiveUsersByTeam")
                  /\ UNCHANGED <<pr, reviewers, sweep>>
    /\ UNCHANGED tables

\* Mutant: what is left after the exclusions of one pull request is cached.
Deactivate_GetActiveUsersByTeam_cachesEligible(r) ==
    /\ pc[r] = "Deactivate.GetActiveUsersByTeam"
    /\ LET candidates == GetActiveUsersByTeam(team[r], Null) IN
       ReplaceCurrent(r, candidates,
            [sweep[r].cache EXCEPT ![team[r]] = Eligible(r, candidates)])
    /\ UNCHANGED tables

Deactivate_GetActiveUsersByTeam(r) ==
    /\ pc[r] = "Deactivate.GetActiveUsersByTeam"
    /\ LET candidates == GetActiveUsersByTeam(team[r], Null) IN
       \/ Skips(r)
       \/ ReplaceCurrent(r, candidates,
                         [sweep[r].cache EXCEPT ![team[r]] = candidates])
    /\ UNCHANGED tables

\* Mutant: the limit is not applied.
Truncate_never(list) == list

\* newReviewers[:s.maxReviewers], which panics on a negative limit.
Truncate(list) == IF Len(list) > maxReviewers THEN SubSeq(list, 1, maxReviewers)
                                              ELSE list

Deactivate_ReviewersDone(r) ==
    /\ pc[r] = "Deactivate.NextReviewer"
    /\ sweep[r].next > Len(pr[r].assigned_reviewers)
    /\ LET new == Truncate(reviewers[r]) IN
       \/ maxReviewers < 0 /\ Panics(r)
       \/ /\ maxReviewers >= 0
          /\ sweep' = IF new = pr[r].assigned_reviewers THEN sweep
                      ELSE [sweep EXCEPT ![r].updates[sweep[r].target] = new]
          /\ Goto(r, "Deactivate.NextPR")
          /\ UNCHANGED <<pr, team, reviewers>>
    /\ UNCHANGED tables

-----------------------------------------------------------------------------
Deactivate_BulkUpdatePRReviewers(r) ==
    /\ pc[r] = "Deactivate.BulkUpdatePRReviewers"
    /\ \/ Fails(r) /\ UNCHANGED tables
       \/ /\ BulkUpdatePRReviewers(sweep[r].updates)
          /\ \/ Fails(r)
             \/ Finish(r, "OK")

DeactivateTeamUsers(r) == \/ Deactivate_TeamExists(r)
                          \/ Deactivate_DeactivateUsersByTeam(r)
                          \/ Deactivate_GetOpenPRsByReviewers(r)
                          \/ Deactivate_NextPR(r)
                          \/ Deactivate_LoopEnds(r)
                          \/ Deactivate_KeepReviewer(r)
                          \/ Deactivate_GetUserByID(r)
                          \/ Deactivate_GetActiveUsersByTeam(r)
                          \/ Deactivate_ReviewersDone(r)
                          \/ Deactivate_BulkUpdatePRReviewers(r)
=============================================================================
