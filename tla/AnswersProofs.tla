---------------------------- MODULE AnswersProofs ----------------------------
(***************************************************************************)
(* Proofs that what the service has told its clients stays true.           *)
(*                                                                         *)
(* AnswersHold and CreatedOnce are about requests that have been answered. *)
(* Neither is inductive: a creator owns its row from the INSERT on, one    *)
(* statement before it answers.  AnswersInv therefore speaks of creators,  *)
(* whether they have answered or are about to read their row back, and     *)
(* says which requests may have an answer at all.  The rows an answer is   *)
(* about keep it true because no step deletes a row, changes its author or *)
(* takes MERGED back (StepKeepsRows).                                      *)
(***************************************************************************)
EXTENDS ReviewServiceProofs

\* r has inserted the row of its pull request and has not been told otherwise.
Created(r) ==
    \/ pc[r] = "CreatePR.GetPRByID"
    \/ resp[r] = "OK" /\ call[r].op = "CreatePR"

\* r has been told that its pull request is merged.
ToldMerged(r) ==
    \/ resp[r] = "OK" /\ call[r].op = "MergePR"
    \/ resp[r] = "ErrPRMerged" /\ call[r].op = "ReassignReviewer"

OwnsRow(r) ==
    /\ PRExists(call[r].pr)
    /\ pull_requests[call[r].pr].author_id = call[r].user

ClaimOK(r) ==
    /\ resp[r] # "none" => pc[r] = "done" /\ call[r] \in Call
    /\ Created(r) => OwnsRow(r)
    /\ resp[r] = "ErrPRExists" /\ call[r].op = "CreatePR" => PRExists(call[r].pr)
    /\ ToldMerged(r) => /\ PRExists(call[r].pr)
                        /\ pull_requests[call[r].pr].status = "MERGED"

OneCreator ==
    \A r, s \in Requests :
       Created(r) /\ Created(s) /\ call[r].pr = call[s].pr => r = s

AnswersInv == (\A r \in Requests : ClaimOK(r)) /\ OneCreator

-----------------------------------------------------------------------------
(* What a step of one request does to the claims.                          *)

\* The fields of a call tell which kind of call it is.
LEMMA KindOfCall ==
    ASSUME NEW c \in Call
    PROVE  /\ c.op = "CreatePR" => c \in CreatePRCall
           /\ c.op = "MergePR" => c \in MergePRCall
           /\ c.op = "ReassignReviewer" => c \in ReassignCall
  BY DEF Call, CreatePRCall, MergePRCall, ReassignCall, SetActiveCall,
         CreateTeamCall, DeactivateCall

\* A request that is being served is not answered, and its call is known.
LEMMA ServedCall ==
    ASSUME IInv, NEW r \in Requests, pc[r] \in Points
    PROVE  /\ call[r] \in Call
           /\ pc[r] # "done"
           /\ pc[r] \in CreatePRPoints => call[r] \in CreatePRCall
           /\ pc[r] \in MergePRPoints => call[r] \in MergePRCall
           /\ pc[r] \in ReassignPoints => call[r] \in ReassignCall
<1> USE DEF IInv, TypeOK
<1>1. pc[r] # "done"
  BY DEF Points, CreatePRPoints, MergePRPoints, ReassignPoints, SetActivePoints,
         CreateTeamPoints, DeactivatePoints
<1> QED BY <1>1 DEF Points, Call

\* The claims of a request speak of a pull request id.
LEMMA ClaimedId ==
    ASSUME IInv, NEW r \in Requests, ClaimOK(r)
    PROVE  /\ Created(r) => call[r] \in CreatePRCall
           /\ Created(r) \/ ToldMerged(r) => call[r].pr \in PRIds
           /\ resp[r] = "ErrPRExists" /\ call[r].op = "CreatePR" =>
                 call[r].pr \in PRIds
<1>1. pc[r] = "CreatePR.GetPRByID" => call[r] \in CreatePRCall
  BY DEF IInv, TypeOK, CreatePRPoints
<1> QED BY <1>1, KindOfCall DEF ClaimOK, Created, ToldMerged, CreatePRCall,
                                MergePRCall, ReassignCall

\* A claim stays true while the rows are kept.
LEMMA ClaimKept ==
    ASSUME IInv, RowsKept, NEW r \in Requests, ClaimOK(r),
           pc'[r] = pc[r], resp'[r] = resp[r], call'[r] = call[r]
    PROVE  ClaimOK(r)'
<1>1. /\ Created(r)' <=> Created(r)
      /\ ToldMerged(r)' <=> ToldMerged(r)
  BY DEF Created, ToldMerged
<1> QED BY <1>1, ClaimedId DEF ClaimOK, RowsKept, OwnsRow

\* A step of r keeps the claims when those of r are kept and r creates only a
\* row that was not there.
LEMMA ClaimsKept ==
    ASSUME IInv, AnswersInv, RowsKept, NEW r \in Requests, call' = call,
           \A s \in Requests \ {r} : pc'[s] = pc[s] /\ resp'[s] = resp[s],
           ClaimOK(r)',
           Created(r)' => Created(r) \/ ~PRExists(call[r].pr)
    PROVE  AnswersInv'
<1>1. \A s \in Requests : ClaimOK(s)'
  BY ClaimKept DEF AnswersInv
<1>2. \A s \in Requests \ {r} : Created(s)' <=> Created(s)
  BY DEF Created
<1>3. \A s \in Requests : Created(s) => PRExists(call[s].pr)
  BY DEF AnswersInv, ClaimOK, OwnsRow
<1>4. OneCreator'
  BY <1>2, <1>3 DEF AnswersInv, OneCreator
<1> QED BY <1>1, <1>4 DEF AnswersInv

\* A request that goes on claims nothing, unless it has just inserted a row.
LEMMA GotoClaims ==
    ASSUME IInv, AnswersInv, RowsKept, NEW r \in Requests, pc[r] \in Points,
           NEW point \in Points, point # "CreatePR.GetPRByID", Goto(r, point)
    PROVE  AnswersInv'
<1> USE DEF Goto, IInv, TypeOK, RequestsTypeOK
<1>1. resp[r] = "none" /\ resp' = resp
  BY ServedCall DEF AnswersInv, ClaimOK
<1>2. /\ pc'[r] = point
      /\ \A s \in Requests \ {r} : pc'[s] = pc[s]
  OBVIOUS
<1>3. ~Created(r)' /\ ClaimOK(r)'
  BY <1>1, <1>2 DEF Created, ToldMerged, ClaimOK
<1> QED BY <1>1, <1>2, <1>3, ClaimsKept

\* An answer keeps the claims when it is true.
LEMMA FinishClaims ==
    ASSUME IInv, AnswersInv, RowsKept, NEW r \in Requests, pc[r] \in Points,
           NEW answer, Finish(r, answer),
           answer = "OK" /\ call[r].op = "CreatePR" => pc[r] = "CreatePR.GetPRByID",
           answer = "ErrPRExists" /\ call[r].op = "CreatePR" => pull_requests'[call[r].pr] # Null,
           \/ answer = "OK" /\ call[r].op = "MergePR"
           \/ answer = "ErrPRMerged" /\ call[r].op = "ReassignReviewer"
           => /\ pull_requests'[call[r].pr] # Null
              /\ pull_requests'[call[r].pr].status = "MERGED"
    PROVE  AnswersInv'
<1> USE DEF Finish, IInv, TypeOK, RequestsTypeOK
<1>1. /\ pc'[r] = "done" /\ resp'[r] = answer /\ call' = call
      /\ \A s \in Requests \ {r} : pc'[s] = pc[s] /\ resp'[s] = resp[s]
  OBVIOUS
<1>2. call[r] \in Call
  BY ServedCall
<1>3. Created(r)' => Created(r)
  BY <1>1 DEF Created
<1>4. Created(r)' => OwnsRow(r)'
  <2>1. Created(r) => OwnsRow(r) /\ call[r].pr \in PRIds
    BY ClaimedId DEF AnswersInv, ClaimOK
  <2> QED BY <1>1, <1>3, <2>1 DEF OwnsRow, RowsKept
<1>5. ClaimOK(r)'
  BY <1>1, <1>2, <1>4 DEF ClaimOK, ToldMerged, PRExists, GetPRByID
<1> QED BY <1>1, <1>3, <1>5, ClaimsKept

\* Internal errors claim nothing.
LEMMA FailsClaims ==
    ASSUME IInv, AnswersInv, RowsKept, NEW r \in Requests, pc[r] \in Points,
           Fails(r) \/ Panics(r)
    PROVE  AnswersInv'
  BY FinishClaims DEF Fails, Panics

-----------------------------------------------------------------------------
(* The steps, operation by operation.                                      *)

\* The points of the different operations are different points.
LEMMA PointsApart ==
    /\ "CreatePR.GetPRByID" \notin MergePRPoints \cup ReassignPoints
         \cup SetActivePoints \cup CreateTeamPoints \cup DeactivatePoints
    /\ CreatePRPoints \cap (MergePRPoints \cup ReassignPoints \cup SetActivePoints
         \cup CreateTeamPoints \cup DeactivatePoints) = {}
    /\ MergePRPoints \cap (ReassignPoints \cup SetActivePoints
         \cup CreateTeamPoints \cup DeactivatePoints) = {}
    /\ ReassignPoints \cap (SetActivePoints \cup CreateTeamPoints
         \cup DeactivatePoints) = {}
  BY DEF CreatePRPoints, MergePRPoints, ReassignPoints, SetActivePoints,
         CreateTeamPoints, DeactivatePoints

\* CREATE: the row is there when a creator is told that it exists, and was not
\* there when the INSERT of a creator went through.
LEMMA CreatePRClaims ==
    ASSUME IInv, AnswersInv, RowsKept, NEW r \in Requests, CreatePR(r)
    PROVE  AnswersInv'
<1>1. pc[r] \in CreatePRPoints /\ CreatePRPoints \subseteq Points
  BY DEF CreatePR, CreatePR_PRExists, CreatePR_GetUserByID,
         CreatePR_GetActiveUsersByTeam, CreatePR_CreatePR, CreatePR_GetPRByID,
         CreatePRPoints, Points
<1>2. /\ call[r] \in CreatePRCall /\ call[r].op = "CreatePR"
      /\ call[r].pr \in PRIds /\ call[r].user \in UserIds
  BY <1>1, ServedCall DEF CreatePRCall
<1>3. CASE CreatePR_PRExists(r)
  <2>1. CASE PRExists(call[r].pr) /\ Finish(r, "ErrPRExists")
    <3>1. pull_requests'[call[r].pr] # Null
      BY <1>2, <2>1 DEF RowsKept, PRExists, GetPRByID
    <3> QED BY <1>1, <1>2, <2>1, <3>1, FinishClaims
  <2>2. CASE Goto(r, "CreatePR.GetUserByID")
    BY <1>1, <2>2, GotoClaims DEF CreatePRPoints
  <2> QED BY <1>1, <1>3, <2>1, <2>2, FailsClaims DEF CreatePR_PRExists
<1>4. CASE CreatePR_GetUserByID(r)
  <2>1. CASE Finish(r, "ErrUserNotFound")
    BY <1>1, <1>2, <2>1, FinishClaims
  <2>2. CASE Goto(r, "CreatePR.GetActiveUsersByTeam")
    BY <1>1, <2>2, GotoClaims DEF CreatePRPoints
  <2> QED BY <1>1, <1>4, <2>1, <2>2, FailsClaims DEF CreatePR_GetUserByID
<1>5. CASE CreatePR_GetActiveUsersByTeam(r)
  <2>1. CASE Goto(r, "CreatePR.CreatePR")
    BY <1>1, <2>1, GotoClaims DEF CreatePRPoints
  <2> QED BY <1>1, <1>5, <2>1, FailsClaims DEF CreatePR_GetActiveUsersByTeam
<1>6. CASE CreatePR_CreatePR(r)
  <2>1. CASE PRExists(call[r].pr) /\ Finish(r, "ErrPRExists")
    <3>1. pull_requests'[call[r].pr] # Null
      BY <1>2, <2>1 DEF RowsKept, PRExists, GetPRByID
    <3> QED BY <1>1, <1>2, <2>1, <3>1, FinishClaims
  <2>2. CASE /\ InsertPR(call[r].pr, call[r].user, reviewers[r])
             /\ Goto(r, "CreatePR.GetPRByID")
    <3>1. ~PRExists(call[r].pr)
      BY <2>2 DEF InsertPR
    <3>2. /\ resp' = resp /\ call' = call
          /\ \A s \in Requests \ {r} : pc'[s] = pc[s]
      BY <2>2 DEF Goto, IInv, TypeOK, RequestsTypeOK
    <3>3. resp[r] = "none"
      BY <1>1, ServedCall DEF AnswersInv, ClaimOK
    <3>4. reviewers[r] \in Seq(UserIds)
      BY DEF IInv, TypeOK, RequestsTypeOK
    <3> DEFINE row == [author_id |-> call[r].user, status |-> "OPEN",
                       assigned_reviewers |-> reviewers[r], merged_at |-> 0]
    <3>5. row \in PullRequest /\ row.author_id = call[r].user
      BY <1>2, <3>4 DEF PullRequest, PRStatus
    <3>6. pull_requests'[call[r].pr] = row
      BY <1>2, <2>2 DEF InsertPR, IInv, TypeOK, RequestsTypeOK, TablesTypeOK
    <3> HIDE DEF row
    <3>7. OwnsRow(r)'
      BY <3>2, <3>5, <3>6, RepositoryAssumption DEF OwnsRow, PRExists, GetPRByID
    <3>8. ClaimOK(r)'
      BY <3>2, <3>3, <3>7 DEF ClaimOK, ToldMerged
    <3> QED BY <3>1, <3>2, <3>8, ClaimsKept
  <2> QED BY <1>1, <1>6, <2>1, <2>2, FailsClaims DEF CreatePR_CreatePR
<1>7. CASE CreatePR_GetPRByID(r)
  <2>1. CASE Fails(r)
    BY <1>1, <2>1, FailsClaims
  <2>2. CASE Finish(r, IF PRExists(call[r].pr) THEN "OK" ELSE "ErrPRNotFound")
    BY <1>1, <1>2, <1>7, <2>2, FinishClaims DEF CreatePR_GetPRByID
  <2> QED BY <1>7, <2>1, <2>2 DEF CreatePR_GetPRByID
<1> QED BY <1>3, <1>4, <1>5, <1>6, <1>7 DEF CreatePR

\* MERGE: success is told after the row was read as MERGED or updated to it.
LEMMA MergePRClaims ==
    ASSUME IInv, AnswersInv, RowsKept, NEW r \in Requests, MergePR(r)
    PROVE  AnswersInv'
<1>1. pc[r] \in MergePRPoints /\ MergePRPoints \subseteq Points
  BY DEF MergePR, MergePR_GetPRByID, MergePR_UpdatePRStatusWithMergedAt,
         MergePRPoints, Points
<1>2. call[r].op = "MergePR" /\ call[r].pr \in PRIds
  BY <1>1, ServedCall DEF MergePRCall
<1>3. CASE MergePR_GetPRByID(r)
  <2>1. CASE Finish(r, "ErrPRNotFound")
    BY <1>1, <1>2, <2>1, FinishClaims
  <2>2. CASE /\ GetPRByID(call[r].pr) # Null
             /\ GetPRByID(call[r].pr).status = "MERGED"
             /\ Finish(r, "OK")
    <3>1. pull_requests'[call[r].pr] # Null /\ pull_requests'[call[r].pr].status = "MERGED"
      BY <1>2, <2>2 DEF RowsKept, PRExists, GetPRByID
    <3> QED BY <1>1, <1>2, <2>2, <3>1, FinishClaims
  <2>3. CASE Goto(r, "MergePR.UpdatePRStatusWithMergedAt")
    BY <1>1, <2>3, GotoClaims DEF MergePRPoints
  <2> QED BY <1>1, <1>3, <2>1, <2>2, <2>3, FailsClaims DEF MergePR_GetPRByID
<1>4. CASE MergePR_UpdatePRStatusWithMergedAt(r)
  <2>1. CASE UpdatePRStatusWithMergedAt(call[r].pr) /\ Finish(r, "OK")
    <3>1. PRExists(call[r].pr)
      BY <1>4 DEF MergePR_UpdatePRStatusWithMergedAt, IInv, LocalsOK, LocalOK
    <3>2. pull_requests'[call[r].pr] # Null
      BY <1>2, <3>1 DEF RowsKept, PRExists, GetPRByID
    <3> DEFINE row == [pull_requests[call[r].pr] EXCEPT !.status = "MERGED",
                                                        !.merged_at = @ + 1]
    <3>3. row.status = "MERGED"
      BY <1>2, <3>1, MergedRow DEF IInv, TypeOK, RequestsTypeOK, TablesTypeOK,
                                   PRExists, GetPRByID
    <3>4. pull_requests'[call[r].pr] = row
      BY <1>2, <2>1 DEF UpdatePRStatusWithMergedAt, IInv, TypeOK, RequestsTypeOK,
                        TablesTypeOK
    <3> HIDE DEF row
    <3> QED BY <1>1, <1>2, <2>1, <3>2, <3>3, <3>4, FinishClaims
  <2> QED BY <1>1, <1>4, <2>1, FailsClaims DEF MergePR_UpdatePRStatusWithMergedAt
<1> QED BY <1>3, <1>4 DEF MergePR

\* REASSIGN: a refusal because of a merge is told after the row was read as
\* MERGED.
LEMMA ReassignClaims ==
    ASSUME IInv, AnswersInv, RowsKept, NEW r \in Requests, ReassignReviewer(r)
    PROVE  AnswersInv'
<1>1. pc[r] \in ReassignPoints /\ ReassignPoints \subseteq Points
  BY DEF ReassignReviewer, Reassign_GetPRByID, Reassign_GetUserByID,
         Reassign_GetActiveUsersByTeam, Reassign_UpdatePRReviewers,
         ReassignPoints, Points
<1>2. call[r].op = "ReassignReviewer" /\ call[r].pr \in PRIds
  BY <1>1, ServedCall DEF ReassignCall
<1>3. ASSUME NEW point \in ReassignPoints, Goto(r, point) PROVE AnswersInv'
  BY <1>1, <1>3, GotoClaims, PointsApart
<1>4. ASSUME NEW answer, answer # "ErrPRMerged", Finish(r, answer) PROVE AnswersInv'
  BY <1>1, <1>2, <1>4, FinishClaims
<1>5. CASE Reassign_GetPRByID(r)
  <2>1. CASE /\ GetPRByID(call[r].pr) # Null
             /\ GetPRByID(call[r].pr).status = "MERGED"
             /\ Finish(r, "ErrPRMerged")
    <3>1. pull_requests'[call[r].pr] # Null /\ pull_requests'[call[r].pr].status = "MERGED"
      BY <1>2, <2>1 DEF RowsKept, PRExists, GetPRByID
    <3> QED BY <1>1, <1>2, <2>1, <3>1, FinishClaims
  <2> QED BY <1>1, <1>3, <1>4, <1>5, <2>1, FailsClaims DEF Reassign_GetPRByID, ReassignPoints
<1>6. CASE Reassign_GetUserByID(r)
  BY <1>1, <1>3, <1>4, <1>6, FailsClaims DEF Reassign_GetUserByID, ReassignPoints
<1>7. CASE Reassign_GetActiveUsersByTeam(r)
  BY <1>1, <1>3, <1>4, <1>7, FailsClaims DEF Reassign_GetActiveUsersByTeam, ReassignPoints
<1>8. CASE Reassign_UpdatePRReviewers(r)
  BY <1>1, <1>3, <1>4, <1>8, FailsClaims DEF Reassign_UpdatePRReviewers
<1> QED BY <1>5, <1>6, <1>7, <1>8 DEF ReassignReviewer

\* The other operations claim nothing about a pull request.
LEMMA TeamClaims ==
    ASSUME IInv, AnswersInv, RowsKept, NEW r \in Requests, CreateTeam(r) \/ SetActive(r)
    PROVE  AnswersInv'
<1> DEFINE Own == SetActivePoints \cup CreateTeamPoints
<1>1. pc[r] \in Own /\ Own \subseteq Points
  BY DEF CreateTeam, CreateTeam_TeamExists, CreateTeam_CreateTeam, CreateTeam_GetTeam,
         SetActive, SetUserActive_SetUserActive, SetUserActive_GetUserByID,
         SetActivePoints, CreateTeamPoints, Points
<1>2. call[r].op \notin {"CreatePR", "MergePR", "ReassignReviewer"}
  BY <1>1 DEF IInv, TypeOK, SetActiveCall, CreateTeamCall
<1>3. ASSUME NEW point \in Own, Goto(r, point) PROVE AnswersInv'
  BY <1>1, <1>3, GotoClaims, PointsApart
<1>4. ASSUME NEW answer, Finish(r, answer) PROVE AnswersInv'
  BY <1>1, <1>2, <1>4, FinishClaims
<1>5. CASE CreateTeam(r)
  BY <1>1, <1>3, <1>4, <1>5, FailsClaims DEF CreateTeam, CreateTeam_TeamExists,
     CreateTeam_CreateTeam, CreateTeam_GetTeam, CreateTeamPoints
<1>6. CASE SetActive(r)
  BY <1>1, <1>3, <1>4, <1>6, FailsClaims DEF SetActive, SetUserActive_SetUserActive,
     SetUserActive_GetUserByID, SetActivePoints
<1> QED BY <1>5, <1>6

LEMMA DeactivateClaims ==
    ASSUME IInv, AnswersInv, RowsKept, NEW r \in Requests, DeactivateTeamUsers(r)
    PROVE  AnswersInv'
<1>1. pc[r] \in DeactivatePoints /\ DeactivatePoints \subseteq Points
  BY DEF DeactivateTeamUsers, Deactivate_TeamExists, Deactivate_DeactivateUsersByTeam,
         Deactivate_GetOpenPRsByReviewers, Deactivate_NextPR, Deactivate_LoopEnds,
         Deactivate_KeepReviewer, Deactivate_GetUserByID, AtReviewer,
         Deactivate_GetActiveUsersByTeam, Deactivate_ReviewersDone,
         Deactivate_BulkUpdatePRReviewers, DeactivatePoints, Points
<1>2. call[r].op \notin {"CreatePR", "MergePR", "ReassignReviewer"}
  BY <1>1 DEF IInv, TypeOK, DeactivateCall
<1>3. ASSUME NEW point \in DeactivatePoints, Goto(r, point) PROVE AnswersInv'
  BY <1>1, <1>3, GotoClaims, PointsApart
<1>4. ASSUME NEW answer, Finish(r, answer) PROVE AnswersInv'
  BY <1>1, <1>2, <1>4, FinishClaims
<1>5. ASSUME NEW list, NEW cache, Continue(r, list, cache) PROVE AnswersInv'
  BY <1>3, <1>5 DEF Continue, DeactivatePoints
<1>6. ASSUME NEW candidates, NEW cache, ReplaceCurrent(r, candidates, cache)
      PROVE  AnswersInv'
  BY <1>5, <1>6 DEF ReplaceCurrent
<1>7. Skips(r) => AnswersInv'
  BY <1>5 DEF Skips
<1>8. CASE \/ Deactivate_TeamExists(r)
           \/ Deactivate_DeactivateUsersByTeam(r)
           \/ Deactivate_GetOpenPRsByReviewers(r)
  BY <1>1, <1>3, <1>4, <1>8, FailsClaims DEF Deactivate_TeamExists,
     Deactivate_DeactivateUsersByTeam, Deactivate_GetOpenPRsByReviewers,
     DeactivatePoints
<1>9. CASE Deactivate_NextPR(r) \/ Deactivate_LoopEnds(r)
  BY <1>3, <1>4, <1>9 DEF Deactivate_NextPR, Deactivate_LoopEnds, DeactivatePoints
<1>10. CASE Deactivate_KeepReviewer(r)
  BY <1>5, <1>10 DEF Deactivate_KeepReviewer
<1>11. CASE Deactivate_GetUserByID(r)
  BY <1>3, <1>5, <1>6, <1>7, <1>11 DEF Deactivate_GetUserByID, DeactivatePoints
<1>12. CASE Deactivate_GetActiveUsersByTeam(r)
  BY <1>6, <1>7, <1>12 DEF Deactivate_GetActiveUsersByTeam
<1>13. CASE Deactivate_ReviewersDone(r)
  BY <1>1, <1>3, <1>13, FailsClaims DEF Deactivate_ReviewersDone, DeactivatePoints
<1>14. CASE Deactivate_BulkUpdatePRReviewers(r)
  BY <1>1, <1>4, <1>14, FailsClaims DEF Deactivate_BulkUpdatePRReviewers
<1> QED BY <1>8, <1>9, <1>10, <1>11, <1>12, <1>13, <1>14 DEF DeactivateTeamUsers

-----------------------------------------------------------------------------
(* Requests that arrive, and those that die with the process.              *)

\* A request that arrives has not been answered.
LEMMA SubmitClaims ==
    ASSUME IInv, AnswersInv, RowsKept, NEW r \in Requests, Submit(r)
    PROVE  AnswersInv'
<1> USE DEF Submit, IInv, TypeOK, RequestsTypeOK
<1>1. PICK c \in Calls : /\ call' = [call EXCEPT ![r] = c]
                         /\ pc' = [pc EXCEPT ![r] = EntryPoint[c.op]]
  OBVIOUS
<1>2. EntryPoint[c.op] # "CreatePR.GetPRByID"
  BY RequestsAssumption DEF EntryPoint, Call, CreatePRCall, MergePRCall,
     ReassignCall, SetActiveCall, CreateTeamCall, DeactivateCall
<1>3. resp[r] = "none" /\ resp' = resp
  BY DEF AnswersInv, ClaimOK
<1>4. \A s \in Requests \ {r} : pc'[s] = pc[s] /\ call'[s] = call[s]
  BY <1>1
<1>5. ~Created(r)' /\ ClaimOK(r)'
  BY <1>1, <1>2, <1>3 DEF Created, ToldMerged, ClaimOK
<1>6. \A s \in Requests \ {r} : ClaimOK(s)' /\ (Created(s)' <=> Created(s))
  BY <1>3, <1>4, ClaimKept DEF AnswersInv, Created
<1>7. OneCreator'
  BY <1>4, <1>5, <1>6 DEF AnswersInv, OneCreator
<1> QED BY <1>5, <1>6, <1>7 DEF AnswersInv

\* A client whose connection is lost has not been told anything.
LEMMA RestartClaims ==
    ASSUME IInv, AnswersInv, RowsKept, Restart
    PROVE  AnswersInv'
<1> USE DEF Restart
<1>1. call' = call
  OBVIOUS
<1>2. "CreatePR.GetPRByID" \in Points
  BY DEF Points, CreatePRPoints
<1>3. ASSUME NEW r \in Requests
      PROVE  ClaimOK(r)' /\ (Created(r)' => Created(r))
  <2>1. CASE pc[r] \in Points
    <3>1. pc'[r] = "done" /\ resp'[r] = "ConnectionLost" /\ call[r] \in Call
      BY <2>1, ServedCall DEF InFlight
    <3> QED BY <1>1, <3>1 DEF ClaimOK, Created, ToldMerged
  <2>2. CASE pc[r] \notin Points
    <3>1. pc'[r] = pc[r] /\ resp'[r] = resp[r]
      BY <2>2 DEF InFlight
    <3> QED BY <1>1, <3>1, ClaimKept DEF AnswersInv, Created
  <2> QED BY <2>1, <2>2
<1>4. OneCreator'
  BY <1>1, <1>3 DEF AnswersInv, OneCreator
<1> QED BY <1>3, <1>4 DEF AnswersInv

LEMMA StutterClaims ==
    ASSUME IInv, AnswersInv, RowsKept, UNCHANGED vars
    PROVE  AnswersInv'
<1>1. pc' = pc /\ resp' = resp /\ call' = call
  BY DEF vars
<1>2. \A r \in Requests : ClaimOK(r)' /\ (Created(r)' <=> Created(r))
  BY <1>1, ClaimKept DEF AnswersInv, Created
<1> QED BY <1>1, <1>2 DEF AnswersInv, OneCreator

-----------------------------------------------------------------------------
\* What the service has told its clients, and what it is about to tell the
\* creators of pull requests, holds in every reachable state.
THEOREM ClaimsHold == Spec => []AnswersInv
<1>1. Init => AnswersInv
  BY DEF Init, AnswersInv, ClaimOK, OneCreator, Created, ToldMerged
<1>2. ASSUME IInv, AnswersInv, [Next]_vars PROVE AnswersInv'
  <2>1. RowsKept
    BY <1>2, StepKeepsRows
  <2>2. ASSUME NEW r \in Requests, Step(r) PROVE AnswersInv'
    BY <1>2, <2>1, <2>2, CreatePRClaims, MergePRClaims, ReassignClaims, TeamClaims,
       DeactivateClaims DEF Step
  <2> QED BY <1>2, <2>1, <2>2, SubmitClaims, RestartClaims, StutterClaims
          DEF Next, Quiescent
<1> QED BY <1>1, <1>2, Invariance, PTL DEF Spec

\* Whatever happens later to the rows, a pull request the service called created
\* exists with that author, one it called existing exists, and one it called
\* merged is MERGED.
THEOREM AnswersStayTrue == Spec => []AnswersHold
<1>1. AnswersInv => AnswersHold
  BY DEF AnswersInv, ClaimOK, AnswersHold, Answered, Created, OwnsRow, ToldMerged
<1> QED BY <1>1, ClaimsHold, PTL

\* Of any number of clients that race to create a pull request, at most one is
\* told that it did.
THEOREM OneCreatorPerPR == Spec => []CreatedOnce
<1>1. AnswersInv => CreatedOnce
  BY DEF AnswersInv, OneCreator, CreatedOnce, Answered, Created
<1> QED BY <1>1, ClaimsHold, PTL
=============================================================================
