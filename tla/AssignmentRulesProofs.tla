------------------------ MODULE AssignmentRulesProofs ------------------------
(***************************************************************************)
(* Proofs that the service keeps the rules about assigning reviewers while *)
(* requests that conflict are kept apart (ConflictFreeSpec), whatever      *)
(* statements fail and whenever the process dies.                          *)
(*                                                                         *)
(* The rules speak of the rows as they are when a list is written; the     *)
(* code looks at rows some statements earlier.  FreshInv says that without *)
(* a conflict what was read, and is relied on, is still what is stored:    *)
(* the copy of a pull request is its row, the team of a user is the user's *)
(* team, cached candidates are the candidates, and what a sweep has left   *)
(* to do is what the tables still show to be done.  Its proof has two      *)
(* parts: what the own statements of a request leave it with, and what the *)
(* statements of the requests beside it leave it with (OthersFresh).       *)
(***************************************************************************)
EXTENDS AssignmentRules, AnswersProofs

\* The points of a sweep that has deactivated its users, ...
SweepPoints == DeactivatePoints \ {"Deactivate.TeamExists",
                                   "Deactivate.DeactivateUsersByTeam"}

\* ... and of its loop over the reviewers of one pull request.
LoopPoints == {"Deactivate.NextReviewer", "Deactivate.GetActiveUsersByTeam"}

TeamOf(u) == users[u].team_name

CreateFresh(r) ==
    /\ pc[r] = "CreatePR.GetActiveUsersByTeam" => team[r] = TeamOf(call[r].user)
    /\ pc[r] = "CreatePR.CreatePR" =>
          /\ Members(reviewers[r]) \subseteq
                GetActiveUsersByTeam(TeamOf(call[r].user), call[r].user)
          /\ reviewers[r] # <<>> => Len(reviewers[r]) <= maxReviewers

MergeFresh(r) ==
    pc[r] = "MergePR.UpdatePRStatusWithMergedAt" =>
       pull_requests[call[r].pr].status = "OPEN"

ReassignFresh(r) ==
    /\ pc[r] \in ReassignPoints \ {"Reassign.GetPRByID"} =>
          /\ pr[r] = pull_requests[call[r].pr]
          /\ pr[r].status = "OPEN"
    /\ pc[r] = "Reassign.GetActiveUsersByTeam" => team[r] = TeamOf(call[r].user)
    /\ pc[r] = "Reassign.UpdatePRReviewers" =>
          \E new \in GetActiveUsersByTeam(TeamOf(call[r].user), call[r].user)
                       \ Members(pr[r].assigned_reviewers) :
             reviewers[r] = Replace(pr[r].assigned_reviewers, call[r].user, new)

TeamFresh(r) == pc[r] = "CreateTeam.CreateTeam" => ~TeamExists(call[r].team)

\* A list that a sweep which deactivates the users gone may put in the place of
\* the list of row: nobody of gone is left, who is new replaces one of them, and,
\* unless statements fail, it has got shorter only for want of a candidate.
Swept(row, new, gone) ==
    LET old == row.assigned_reviewers IN
    /\ Members(new) \cap gone = {}
    /\ \A u \in Members(new) \ Members(old) :
          /\ users[u].is_active
          /\ \E d \in Members(old) \cap gone : TeamOf(d) = TeamOf(u)

Exhausted(row, new, gone) ==
    \E d \in Members(row.assigned_reviewers) \cap gone :
       GetActiveUsersByTeam(TeamOf(d), d) \subseteq
          {row.author_id} \cup Members(row.assigned_reviewers) \cup Members(new)

UpdateFresh(r, p) ==
    LET new == sweep[r].updates[p]
        row == pull_requests[p]
    IN  /\ row.status = "OPEN"
        /\ Swept(row, new, sweep[r].deactivated)
        /\ Len(new) <= maxReviewers
        /\ Len(new) <= Len(row.assigned_reviewers)
        /\ "DBError" \notin Faults /\ Len(new) < Len(row.assigned_reviewers)
                                   /\ Len(new) < maxReviewers =>
              Exhausted(row, new, sweep[r].deactivated)

LoopFresh(r) ==
    /\ pr[r] = pull_requests[sweep[r].target]
    /\ pr[r].status = "OPEN"
    /\ Swept(pr[r], reviewers[r], sweep[r].deactivated)
    /\ "DBError" \notin Faults /\ Len(reviewers[r]) < sweep[r].next - 1 =>
          Exhausted(pr[r], reviewers[r], sweep[r].deactivated)

\* No deactivated reviewer is left on an open pull request that the sweep is
\* neither at nor going to reach, unless its new list is written down.
Covered(r) ==
    \A p \in PRIds :
       \/ ~PRExists(p)
       \/ pull_requests[p].status # "OPEN"
       \/ sweep[r].open[p] # Null
       \/ sweep[r].updates[p] # Null
       \/ pc[r] \in LoopPoints /\ p = sweep[r].target
       \/ Members(pull_requests[p].assigned_reviewers) \cap sweep[r].deactivated = {}

SweepFresh(r) ==
    /\ pc[r] \notin SweepPoints => sweep[r] = NoSweep
    /\ pc[r] \in SweepPoints =>
          /\ sweep[r].deactivated = UsersToDeactivate(call[r].team, call[r].user_ids)
          /\ \A u \in sweep[r].deactivated : ~users[u].is_active
          /\ \A t \in TeamNames : sweep[r].cache[t] # Null =>
                sweep[r].cache[t] = GetActiveUsersByTeam(t, Null)
          /\ \A p \in PRIds :
                /\ sweep[r].open[p] # Null => /\ sweep[r].open[p] = pull_requests[p]
                                              /\ pull_requests[p].status = "OPEN"
                /\ sweep[r].updates[p] # Null => UpdateFresh(r, p)
          /\ pc[r] # "Deactivate.GetOpenPRsByReviewers" => Covered(r)
          /\ pc[r] = "Deactivate.BulkUpdatePRReviewers" => Remaining(r) = {}
    /\ pc[r] \in LoopPoints => LoopFresh(r)
    /\ pc[r] = "Deactivate.GetActiveUsersByTeam" =>
          /\ CurrentReviewer(r) \in sweep[r].deactivated
          /\ team[r] = TeamOf(CurrentReviewer(r))

Fresh(r) == /\ CreateFresh(r)
            /\ MergeFresh(r)
            /\ ReassignFresh(r)
            /\ TeamFresh(r)
            /\ SweepFresh(r)

\* Requests that conflict are kept apart, and what the others have read holds.
FreshInv == ConflictFree /\ \A r \in Requests : Fresh(r)

-----------------------------------------------------------------------------
(* What a step of a request leaves it with.                                *)

\* The points that the parts of Fresh speak of.
LEMMA PointsOf ==
    /\ CreatePRPoints \cup MergePRPoints \cup ReassignPoints \cup SetActivePoints
         \cup CreateTeamPoints \cup DeactivatePoints \subseteq Points
    /\ SweepPoints \subseteq DeactivatePoints /\ LoopPoints \subseteq SweepPoints
    /\ CreateTeamPoints \cap DeactivatePoints = {}
    /\ SetActivePoints \cap (CreateTeamPoints \cup DeactivatePoints) = {}
    /\ "idle" \notin Points /\ "done" \notin Points
  BY DEF Points, CreatePRPoints, MergePRPoints, ReassignPoints, SetActivePoints,
         CreateTeamPoints, DeactivatePoints, SweepPoints, LoopPoints

\* A request that is not being served is fresh when it holds no sweep.
LEMMA RestFresh ==
    ASSUME NEW r \in Requests, pc[r] \notin Points, sweep[r] = NoSweep
    PROVE  Fresh(r)
<1>1. /\ pc[r] \notin CreatePRPoints /\ pc[r] \notin MergePRPoints
      /\ pc[r] \notin ReassignPoints /\ pc[r] \notin CreateTeamPoints
      /\ pc[r] \notin SweepPoints /\ pc[r] \notin LoopPoints
  BY PointsOf
<1> QED BY <1>1 DEF Fresh, CreateFresh, MergeFresh, ReassignFresh, TeamFresh, SweepFresh,
        CreatePRPoints, MergePRPoints, ReassignPoints, CreateTeamPoints, SweepPoints,
        LoopPoints, DeactivatePoints

\* So is one that a step leaves unserved.
LEMMA ComesToRest ==
    ASSUME NEW r \in Requests, pc'[r] \notin Points, sweep'[r] = NoSweep
    PROVE  Fresh(r)'
<1>1. /\ pc'[r] \notin CreatePRPoints /\ pc'[r] \notin MergePRPoints
      /\ pc'[r] \notin ReassignPoints /\ pc'[r] \notin CreateTeamPoints
      /\ pc'[r] \notin SweepPoints /\ pc'[r] \notin LoopPoints
  BY PointsOf
<1> QED BY <1>1 DEF Fresh, CreateFresh, MergeFresh, ReassignFresh, TeamFresh, SweepFresh,
        CreatePRPoints, MergePRPoints, ReassignPoints, CreateTeamPoints, SweepPoints,
        LoopPoints, DeactivatePoints

\* An answer ends the request.
LEMMA FinishFresh ==
    ASSUME IInv, FreshInv, NEW r \in Requests, pc[r] \in Points, NEW answer,
           Finish(r, answer)
    PROVE  Fresh(r)'
<1>1. pc'[r] \notin Points /\ sweep'[r] = NoSweep
  BY PointsOf DEF Finish, IInv, TypeOK, RequestsTypeOK
<1> QED BY <1>1, ComesToRest

LEMMA FailsFresh ==
    ASSUME IInv, FreshInv, NEW r \in Requests, pc[r] \in Points, Fails(r) \/ Panics(r)
    PROVE  Fresh(r)'
  BY FinishFresh DEF Fails, Panics

\* Outside a deactivation only the parts of Fresh about the own operation matter.
LEMMA PlainFresh ==
    ASSUME IInv, FreshInv, NEW r \in Requests, pc[r] \in Points \ SweepPoints,
           NEW point \in Points \ SweepPoints, Goto(r, point), sweep' = sweep,
           CreateFresh(r)', MergeFresh(r)', ReassignFresh(r)', TeamFresh(r)'
    PROVE  Fresh(r)'
<1>1. pc'[r] = point /\ sweep'[r] = NoSweep
  BY DEF Goto, IInv, TypeOK, RequestsTypeOK, FreshInv, Fresh, SweepFresh
<1>2. SweepFresh(r)'
  BY <1>1, PointsOf DEF SweepFresh, LoopPoints
<1> QED BY <1>2 DEF Fresh

\* The points at which nothing read earlier is kept.
Quiet == {"CreatePR.PRExists", "CreatePR.GetUserByID", "CreatePR.GetPRByID",
          "MergePR.GetPRByID", "Reassign.GetPRByID", "CreateTeam.TeamExists",
          "CreateTeam.GetTeam", "SetUserActive.SetUserActive",
          "SetUserActive.GetUserByID", "Deactivate.TeamExists",
          "Deactivate.DeactivateUsersByTeam"}

LEMMA QuietFresh ==
    ASSUME IInv, FreshInv, NEW r \in Requests, pc[r] \in Points \ SweepPoints,
           NEW point \in Quiet, Goto(r, point), sweep' = sweep
    PROVE  Fresh(r)'
<1>1. point \in Points \ SweepPoints
  BY DEF Quiet, Points, CreatePRPoints, MergePRPoints, ReassignPoints, SetActivePoints,
         CreateTeamPoints, DeactivatePoints, SweepPoints
<1>2. pc'[r] = point
  BY DEF Goto, IInv, TypeOK, RequestsTypeOK
<1>3. CreateFresh(r)' /\ MergeFresh(r)' /\ ReassignFresh(r)' /\ TeamFresh(r)'
  BY <1>2 DEF Quiet, CreateFresh, MergeFresh, ReassignFresh, TeamFresh, ReassignPoints
<1> QED BY <1>1, <1>3, PlainFresh

-----------------------------------------------------------------------------
(* The operations without a sweep.                                         *)

LEMMA CreatePRFresh ==
    ASSUME IInv, FreshInv, NEW r \in Requests, CreatePR(r)
    PROVE  Fresh(r)'
<1> USE DEF CreatePRPoints
<1>0. pc[r] \in CreatePRPoints
  BY DEF CreatePR, CreatePR_PRExists, CreatePR_GetUserByID,
         CreatePR_GetActiveUsersByTeam, CreatePR_CreatePR, CreatePR_GetPRByID
<1>1. /\ pc[r] \in Points \ SweepPoints
      /\ \A point \in CreatePRPoints : point \in Points \ SweepPoints
  BY <1>0 DEF Points, SweepPoints, DeactivatePoints
<1>2. /\ call[r] \in CreatePRCall /\ call[r].user \in UserIds
      /\ team \in [Requests -> {Null} \cup TeamNames]
      /\ reviewers \in [Requests -> Seq(UserIds)]
      /\ pc \in [Requests -> {"idle", "done"} \cup Points]
  BY <1>0 DEF IInv, TypeOK, RequestsTypeOK, CreatePRCall
<1>3. CASE CreatePR_PRExists(r)
  BY <1>1, <1>3, QuietFresh, FailsFresh, FinishFresh DEF CreatePR_PRExists, Quiet, locals
<1>4. CASE CreatePR_GetUserByID(r)
  <2>1. SUFFICES ASSUME team' = [team EXCEPT ![r] = GetUserByID(call[r].user).team_name],
                        Goto(r, "CreatePR.GetActiveUsersByTeam"),
                        UNCHANGED <<pr, reviewers, sweep>>, UNCHANGED tables
                 PROVE  Fresh(r)'
    BY <1>1, <1>4, FailsFresh, FinishFresh DEF CreatePR_GetUserByID
  <2>2. pc'[r] = "CreatePR.GetActiveUsersByTeam" /\ call' = call /\ users' = users
    BY <1>2, <2>1 DEF Goto, tables
  <2>3. CreateFresh(r)' /\ MergeFresh(r)' /\ ReassignFresh(r)' /\ TeamFresh(r)'
    BY <1>2, <2>1, <2>2 DEF CreateFresh, MergeFresh, ReassignFresh, TeamFresh,
                            ReassignPoints, TeamOf, GetUserByID
  <2> QED BY <1>1, <2>1, <2>3, PlainFresh
<1>5. CASE CreatePR_GetActiveUsersByTeam(r)
  <2> DEFINE candidates == GetActiveUsersByTeam(team[r], call[r].user)
  <2>1. SUFFICES ASSUME candidates = {} \/ maxReviewers >= 0,
                        NEW list \in selectRandomReviewers(candidates),
                        reviewers' = [reviewers EXCEPT ![r] = list],
                        Goto(r, "CreatePR.CreatePR"),
                        UNCHANGED <<pr, team, sweep>>, UNCHANGED tables
                 PROVE  Fresh(r)'
    BY <1>1, <1>5, FailsFresh DEF CreatePR_GetActiveUsersByTeam
  <2>2. pc'[r] = "CreatePR.CreatePR" /\ call' = call /\ users' = users
        /\ reviewers'[r] = list /\ maxReviewers' = maxReviewers
    BY <1>2, <2>1 DEF Goto, tables
  <2>3. team[r] = TeamOf(call[r].user)
    BY <1>5 DEF FreshInv, Fresh, CreateFresh, CreatePR_GetActiveUsersByTeam
  <2>4. candidates \subseteq UserIds /\ IsFiniteSet(candidates)
        /\ maxReviewers \in Limits
    <3>1. candidates \subseteq UserIds
      BY DEF GetActiveUsersByTeam, GetUsersByTeam
    <3> QED BY <3>1, FS_Subset, RepositoryAssumption DEF IInv, TypeOK, RequestsTypeOK
  <2>5. Members(list) \subseteq candidates
    BY <2>1, <2>4, Selection
  <2>6. list # <<>> => Len(list) <= maxReviewers
    <3> HIDE DEF candidates
    <3>1. Cardinality(candidates) \in Nat /\ maxReviewers \in Int
      BY <2>4, FS_CardinalityType, RequestsAssumption
    <3>2. CASE candidates = {}
      <4>1. SelectionSize(candidates) = 0
        BY <3>2, FS_EmptySet DEF SelectionSize
      <4> QED BY <4>1, <2>1, <3>2 DEF selectRandomReviewers
    <3>3. CASE candidates # {}
      <4>1. SelectionSize(candidates) \in Nat /\ SelectionSize(candidates) <= maxReviewers
        BY <2>1, <3>1, <3>3 DEF SelectionSize
      <4>2. Len(list) = SelectionSize(candidates)
        BY <4>1, <2>1, <2>4, Selection DEF selectRandomReviewers
      <4> QED BY <4>1, <4>2
    <3> QED BY <3>2, <3>3
  <2>7. CreateFresh(r)'
    BY <2>2, <2>3, <2>5, <2>6 DEF CreateFresh, TeamOf, GetActiveUsersByTeam, GetUsersByTeam,
                                  UserExists, GetUserByID
  <2>8. MergeFresh(r)' /\ ReassignFresh(r)' /\ TeamFresh(r)'
    BY <2>2 DEF MergeFresh, ReassignFresh, TeamFresh, ReassignPoints
  <2> QED BY <1>1, <2>1, <2>7, <2>8, PlainFresh
<1>6. CASE CreatePR_CreatePR(r)
  BY <1>1, <1>6, QuietFresh, FailsFresh, FinishFresh DEF CreatePR_CreatePR, Quiet, locals
<1>7. CASE CreatePR_GetPRByID(r)
  BY <1>1, <1>7, FailsFresh, FinishFresh DEF CreatePR_GetPRByID
<1> QED BY <1>3, <1>4, <1>5, <1>6, <1>7 DEF CreatePR

LEMMA MergePRFresh ==
    ASSUME IInv, FreshInv, NEW r \in Requests, MergePR(r)
    PROVE  Fresh(r)'
<1>1. /\ pc[r] \in Points
      /\ "MergePR.UpdatePRStatusWithMergedAt" \in Points \ SweepPoints
      /\ pc[r] \notin SweepPoints
  BY DEF Points, SweepPoints, DeactivatePoints, MergePRPoints, MergePR,
         MergePR_GetPRByID, MergePR_UpdatePRStatusWithMergedAt
<1>2. CASE MergePR_GetPRByID(r)
  <2>1. SUFFICES ASSUME GetPRByID(call[r].pr).status = "OPEN",
                        Goto(r, "MergePR.UpdatePRStatusWithMergedAt"),
                        UNCHANGED <<team, reviewers, sweep>>, UNCHANGED tables
                 PROVE  Fresh(r)'
    BY <1>1, <1>2, FailsFresh, FinishFresh DEF MergePR_GetPRByID
  <2>2. /\ pc'[r] = "MergePR.UpdatePRStatusWithMergedAt"
        /\ call' = call /\ pull_requests' = pull_requests
    BY <2>1 DEF Goto, tables, IInv, TypeOK, RequestsTypeOK
  <2>3. CreateFresh(r)' /\ MergeFresh(r)' /\ ReassignFresh(r)' /\ TeamFresh(r)'
    BY <2>1, <2>2 DEF CreateFresh, MergeFresh, ReassignFresh, TeamFresh, ReassignPoints,
                      GetPRByID
  <2> QED BY <1>1, <2>1, <2>3, PlainFresh
<1>3. CASE MergePR_UpdatePRStatusWithMergedAt(r)
  BY <1>1, <1>3, FailsFresh, FinishFresh DEF MergePR_UpdatePRStatusWithMergedAt
<1> QED BY <1>2, <1>3 DEF MergePR

LEMMA ReassignReviewerFresh ==
    ASSUME IInv, FreshInv, NEW r \in Requests, ReassignReviewer(r)
    PROVE  Fresh(r)'
<1>1. pc[r] \in ReassignPoints
  BY DEF ReassignPoints, ReassignReviewer, Reassign_GetPRByID, Reassign_GetUserByID,
         Reassign_GetActiveUsersByTeam, Reassign_UpdatePRReviewers
<1>2. /\ pc[r] \in Points \ SweepPoints
      /\ \A point \in ReassignPoints : point \in Points \ SweepPoints
  BY <1>1 DEF ReassignPoints, Points, SweepPoints, DeactivatePoints
<1>3. /\ call[r] \in ReassignCall
      /\ pr \in [Requests -> {Null} \cup PullRequest]
      /\ team \in [Requests -> {Null} \cup TeamNames]
      /\ reviewers \in [Requests -> Seq(UserIds)]
      /\ pc \in [Requests -> {"idle", "done"} \cup Points]
      /\ pull_requests \in [PRIds -> {Null} \cup PullRequest]
      /\ call[r].pr \in PRIds
  BY <1>1 DEF IInv, TypeOK, RequestsTypeOK, TablesTypeOK, ReassignCall
<1>4. pc[r] # "Reassign.GetPRByID" =>
         pr[r] = pull_requests[call[r].pr] /\ pr[r].status = "OPEN"
  BY <1>1 DEF FreshInv, Fresh, ReassignFresh
<1>5. CASE Reassign_GetPRByID(r)
  <2> DEFINE row == GetPRByID(call[r].pr)
  <2>1. SUFFICES ASSUME row # Null, row.status # "MERGED",
                        pr' = [pr EXCEPT ![r] = row],
                        Goto(r, "Reassign.GetUserByID"),
                        UNCHANGED <<team, reviewers, sweep>>, UNCHANGED tables
                 PROVE  Fresh(r)'
    BY <1>2, <1>5, FailsFresh, FinishFresh DEF Reassign_GetPRByID
  <2>2. /\ pc'[r] = "Reassign.GetUserByID" /\ pr'[r] = pull_requests[call[r].pr]
        /\ call' = call /\ pull_requests' = pull_requests
    BY <1>3, <2>1 DEF Goto, tables, GetPRByID
  <2>3. row.status = "OPEN"
    BY <1>3, <2>1 DEF GetPRByID, PullRequest, PRStatus
  <2>4. CreateFresh(r)' /\ MergeFresh(r)' /\ ReassignFresh(r)' /\ TeamFresh(r)'
    BY <2>2, <2>3 DEF CreateFresh, MergeFresh, ReassignFresh, TeamFresh, GetPRByID
  <2> QED BY <1>2, <2>1, <2>4, PlainFresh DEF ReassignPoints
<1>6. CASE Reassign_GetUserByID(r)
  <2>1. SUFFICES ASSUME team' = [team EXCEPT ![r] = GetUserByID(call[r].user).team_name],
                        Goto(r, "Reassign.GetActiveUsersByTeam"),
                        UNCHANGED <<pr, reviewers, sweep>>, UNCHANGED tables
                 PROVE  Fresh(r)'
    BY <1>2, <1>6, FailsFresh, FinishFresh DEF Reassign_GetUserByID
  <2>2. /\ pc'[r] = "Reassign.GetActiveUsersByTeam" /\ pr' = pr
        /\ call' = call /\ pull_requests' = pull_requests /\ users' = users
        /\ team'[r] = TeamOf(call[r].user)
    BY <1>3, <2>1 DEF Goto, tables, GetUserByID, TeamOf
  <2>3. CreateFresh(r)' /\ MergeFresh(r)' /\ ReassignFresh(r)' /\ TeamFresh(r)'
    BY <2>2, <1>4, <1>6 DEF CreateFresh, MergeFresh, ReassignFresh, TeamFresh, TeamOf,
                            Reassign_GetUserByID
  <2> QED BY <1>2, <2>1, <2>3, PlainFresh DEF ReassignPoints
<1>7. CASE Reassign_GetActiveUsersByTeam(r)
  <2>1. SUFFICES ASSUME NEW new \in ReassignCandidates(r),
                        reviewers' = [reviewers EXCEPT ![r] =
                           Replace(pr[r].assigned_reviewers, call[r].user, new)],
                        Goto(r, "Reassign.UpdatePRReviewers"),
                        UNCHANGED <<pr, team, sweep>>, UNCHANGED tables
                 PROVE  Fresh(r)'
    BY <1>2, <1>7, FailsFresh, FinishFresh DEF Reassign_GetActiveUsersByTeam
  <2>2. /\ pc'[r] = "Reassign.UpdatePRReviewers" /\ pr' = pr
        /\ call' = call /\ pull_requests' = pull_requests /\ users' = users
        /\ reviewers'[r] = Replace(pr[r].assigned_reviewers, call[r].user, new)
    BY <1>3, <2>1 DEF Goto, tables
  <2>3. team[r] = TeamOf(call[r].user)
    BY <1>7 DEF FreshInv, Fresh, ReassignFresh, Reassign_GetActiveUsersByTeam
  <2>4. /\ new \in GetActiveUsersByTeam(TeamOf(call[r].user), call[r].user)
        /\ new \notin Members(pr[r].assigned_reviewers)
    BY <2>1, <2>3 DEF ReassignCandidates
  <2>5. GetActiveUsersByTeam(TeamOf(call[r].user), call[r].user)'
           = GetActiveUsersByTeam(TeamOf(call[r].user), call[r].user)
    BY <2>2 DEF GetActiveUsersByTeam, GetUsersByTeam, UserExists, GetUserByID, TeamOf
  <2>6. ReassignFresh(r)'
    <3>1. pr'[r] = pull_requests'[call'[r].pr] /\ pr'[r].status = "OPEN"
      BY <2>2, <1>4, <1>7 DEF Reassign_GetActiveUsersByTeam
    <3>2. \E n \in GetActiveUsersByTeam(TeamOf(call[r].user), call[r].user)'
                     \ Members(pr'[r].assigned_reviewers) :
             reviewers'[r] = Replace(pr'[r].assigned_reviewers, call'[r].user, n)
      BY <2>2, <2>4, <2>5
    <3> QED BY <2>2, <3>1, <3>2 DEF ReassignFresh, Replace, Members, TeamOf,
               GetActiveUsersByTeam, GetUsersByTeam, UserExists, GetUserByID
  <2>7. CreateFresh(r)' /\ MergeFresh(r)' /\ TeamFresh(r)'
    BY <2>2 DEF CreateFresh, MergeFresh, TeamFresh
  <2> QED BY <1>2, <2>1, <2>6, <2>7, PlainFresh DEF ReassignPoints
<1>8. CASE Reassign_UpdatePRReviewers(r)
  BY <1>2, <1>8, FailsFresh, FinishFresh DEF Reassign_UpdatePRReviewers
<1> QED BY <1>5, <1>6, <1>7, <1>8 DEF ReassignReviewer

LEMMA TeamAndActivityFresh ==
    ASSUME IInv, FreshInv, NEW r \in Requests, CreateTeam(r) \/ SetActive(r)
    PROVE  Fresh(r)'
<1>1. pc[r] \in Points \ SweepPoints
  BY DEF Points, SweepPoints, DeactivatePoints, CreateTeamPoints, SetActivePoints,
         CreateTeam, CreateTeam_TeamExists, CreateTeam_CreateTeam, CreateTeam_GetTeam,
         SetActive, SetUserActive_SetUserActive, SetUserActive_GetUserByID
<1>2. CASE CreateTeam_TeamExists(r)
  <2>1. SUFFICES ASSUME ~TeamExists(call[r].team), Goto(r, "CreateTeam.CreateTeam"),
                        UNCHANGED locals, UNCHANGED tables
                 PROVE  Fresh(r)'
    BY <1>1, <1>2, FailsFresh, FinishFresh DEF CreateTeam_TeamExists
  <2>2. /\ pc'[r] = "CreateTeam.CreateTeam" /\ call' = call /\ users' = users
        /\ sweep' = sweep
    BY <2>1 DEF Goto, tables, locals, IInv, TypeOK, RequestsTypeOK
  <2>3. CreateFresh(r)' /\ MergeFresh(r)' /\ ReassignFresh(r)' /\ TeamFresh(r)'
    BY <2>1, <2>2 DEF CreateFresh, MergeFresh, ReassignFresh, TeamFresh, ReassignPoints,
                      TeamExists, GetUsersByTeam, UserExists, GetUserByID
  <2>4. "CreateTeam.CreateTeam" \in Points \ SweepPoints
    BY DEF Points, SweepPoints, DeactivatePoints, CreateTeamPoints
  <2> QED BY <1>1, <2>1, <2>2, <2>3, <2>4, PlainFresh
<1>3. CASE CreateTeam_CreateTeam(r)
  BY <1>1, <1>3, QuietFresh, FailsFresh DEF CreateTeam_CreateTeam, Quiet, locals
<1>4. CASE CreateTeam_GetTeam(r)
  BY <1>1, <1>4, FinishFresh, FailsFresh DEF CreateTeam_GetTeam
<1>5. CASE SetUserActive_SetUserActive(r)
  BY <1>1, <1>5, QuietFresh, FailsFresh, FinishFresh
     DEF SetUserActive_SetUserActive, Quiet, locals
<1>6. CASE SetUserActive_GetUserByID(r)
  BY <1>1, <1>6, FinishFresh, FailsFresh DEF SetUserActive_GetUserByID
<1> QED BY <1>2, <1>3, <1>4, <1>5, <1>6 DEF CreateTeam, SetActive

-----------------------------------------------------------------------------
(* The steps of a sweep.                                                   *)

\* What is known of a sweep between two of its statements.
LEMMA SweepIs ==
    ASSUME IInv, FreshInv, NEW r \in Requests, pc[r] \in SweepPoints
    PROVE  /\ pc[r] \in Points
           /\ call[r] \in DeactivateCall
           /\ sweep \in [Requests -> Sweep] /\ sweep[r] \in Sweep
           /\ sweep[r].deactivated = UsersToDeactivate(call[r].team, call[r].user_ids)
           /\ \A u \in sweep[r].deactivated :
                 u \in UserIds /\ UserExists(u) /\ ~users[u].is_active
           /\ \A t \in TeamNames : sweep[r].cache[t] # Null =>
                 sweep[r].cache[t] = GetActiveUsersByTeam(t, Null)
           /\ \A p \in PRIds :
                 /\ sweep[r].open[p] # Null => /\ sweep[r].open[p] = pull_requests[p]
                                               /\ pull_requests[p].status = "OPEN"
                 /\ sweep[r].updates[p] # Null => UpdateFresh(r, p)
           /\ pc[r] # "Deactivate.GetOpenPRsByReviewers" => Covered(r)
<1>1. SweepFresh(r)
  BY DEF FreshInv, Fresh
<1>2. pc[r] \in Points /\ pc[r] \in DeactivatePoints
  BY PointsOf
<1>3. sweep \in [Requests -> Sweep] /\ call[r] \in DeactivateCall
  BY <1>2 DEF IInv, TypeOK, RequestsTypeOK
<1>4. \A u \in sweep[r].deactivated : u \in UserIds /\ UserExists(u)
  BY <1>1 DEF SweepFresh, UsersToDeactivate, GetUsersByTeam
<1> QED BY <1>1, <1>2, <1>3, <1>4 DEF SweepFresh

\* A list that is written down stays right while the tables stay.
LEMMA UpdateStays ==
    ASSUME NEW r \in Requests, NEW p \in PRIds, UpdateFresh(r, p), UNCHANGED tables,
           maxReviewers' = maxReviewers,
           sweep'[r].updates[p] = sweep[r].updates[p],
           sweep'[r].deactivated = sweep[r].deactivated
    PROVE  UpdateFresh(r, p)'
  BY DEF UpdateFresh, Swept, Exhausted, TeamOf, tables, GetActiveUsersByTeam,
         GetUsersByTeam, UserExists, GetUserByID

\* What is to be shown of a statement inside a sweep.
LEMMA SweepMoves ==
    ASSUME IInv, FreshInv, NEW r \in Requests, pc[r] \in SweepPoints,
           NEW point \in SweepPoints, Goto(r, point), UNCHANGED tables,
           sweep'[r].deactivated = sweep[r].deactivated,
           \A t \in TeamNames : sweep'[r].cache[t] # Null =>
              sweep'[r].cache[t] = GetActiveUsersByTeam(t, Null),
           \A p \in PRIds : sweep'[r].open[p] # Null =>
              /\ sweep'[r].open[p] = pull_requests[p]
              /\ pull_requests[p].status = "OPEN",
           \A p \in PRIds : sweep'[r].updates[p] # Null => UpdateFresh(r, p)',
           Covered(r)',
           point = "Deactivate.BulkUpdatePRReviewers" => Remaining(r)' = {},
           point \in LoopPoints => LoopFresh(r)',
           point = "Deactivate.GetActiveUsersByTeam" =>
              /\ CurrentReviewer(r)' \in sweep[r].deactivated
              /\ team'[r] = TeamOf(CurrentReviewer(r)')
    PROVE  Fresh(r)'
<1>1. /\ pc'[r] = point /\ call' = call /\ users' = users
      /\ pull_requests' = pull_requests
  BY DEF Goto, tables, IInv, TypeOK, RequestsTypeOK
<1>2. CreateFresh(r)' /\ MergeFresh(r)' /\ ReassignFresh(r)' /\ TeamFresh(r)'
  BY <1>1 DEF CreateFresh, MergeFresh, ReassignFresh, TeamFresh, ReassignPoints,
              SweepPoints, DeactivatePoints
<1>3. /\ sweep'[r].deactivated = UsersToDeactivate(call[r].team, call[r].user_ids)'
      /\ \A u \in sweep'[r].deactivated : ~users'[u].is_active
  BY <1>1, SweepIs DEF UsersToDeactivate, GetUsersByTeam, UserExists, GetUserByID
<1>4. \A t \in TeamNames : sweep'[r].cache[t] # Null =>
         sweep'[r].cache[t] = GetActiveUsersByTeam(t, Null)'
  BY <1>1 DEF GetActiveUsersByTeam, GetUsersByTeam, UserExists, GetUserByID
<1>5. pc'[r] = "Deactivate.GetActiveUsersByTeam" =>
         /\ CurrentReviewer(r)' \in sweep'[r].deactivated
         /\ team'[r] = TeamOf(CurrentReviewer(r))'
  BY <1>1 DEF TeamOf
<1>6. SweepFresh(r)'
  BY <1>1, <1>3, <1>4, <1>5, PointsOf DEF SweepFresh
<1> QED BY <1>2, <1>6 DEF Fresh

LEMMA SweepBegins ==
    ASSUME IInv, FreshInv, NEW r \in Requests,
           Deactivate_TeamExists(r) \/ Deactivate_DeactivateUsersByTeam(r)
    PROVE  Fresh(r)'
<1>1. /\ pc[r] \in DeactivatePoints
      /\ pc[r] \in Points \ SweepPoints
      /\ call[r] \in DeactivateCall
      /\ call[r].team \in TeamNames
      /\ users \in [UserIds -> {Null} \cup User]
      /\ sweep \in [Requests -> Sweep]
      /\ pc \in [Requests -> {"idle", "done"} \cup Points]
  BY DEF Points, SweepPoints, DeactivatePoints, Deactivate_TeamExists,
         Deactivate_DeactivateUsersByTeam, IInv, TypeOK, RequestsTypeOK, TablesTypeOK,
         DeactivateCall
<1>2. CASE Deactivate_TeamExists(r)
  BY <1>1, <1>2, QuietFresh, FailsFresh, FinishFresh
     DEF Deactivate_TeamExists, Quiet, locals
<1>3. CASE Deactivate_DeactivateUsersByTeam(r)
  <2> DEFINE ids == UsersToDeactivate(call[r].team, call[r].user_ids)
  <2>1. SUFFICES ASSUME DeactivateUsersByTeam(call[r].team, call[r].user_ids),
                        sweep' = [sweep EXCEPT ![r].deactivated = ids],
                        Goto(r, "Deactivate.GetOpenPRsByReviewers")
                 PROVE  Fresh(r)'
    BY <1>1, <1>3, FinishFresh, FailsFresh DEF Deactivate_DeactivateUsersByTeam
  <2>2. /\ pc'[r] = "Deactivate.GetOpenPRsByReviewers" /\ call' = call
    BY <1>1, <2>1 DEF Goto
  <2>3. sweep[r] = NoSweep
    BY <1>1, <1>3 DEF FreshInv, Fresh, SweepFresh
  <2>4. /\ sweep'[r].deactivated = ids
        /\ sweep'[r].open = [p \in PRIds |-> Null]
        /\ sweep'[r].cache = [t \in TeamNames |-> Null]
        /\ sweep'[r].updates = [p \in PRIds |-> Null]
    <3>1. sweep'[r] = [NoSweep EXCEPT !.deactivated = ids]
      BY <1>1, <2>1, <2>3
    <3> QED BY <3>1 DEF NoSweep
  <2>5. \A u \in ids : u \in UserIds /\ users[u] \in User
    BY <1>1 DEF UsersToDeactivate, GetUsersByTeam, UserExists, GetUserByID
  <2>6. \A u \in UserIds :
           users'[u] = IF u \in ids THEN [users[u] EXCEPT !.is_active = FALSE] ELSE users[u]
    BY <2>1 DEF DeactivateUsersByTeam
  <2>7. \A u \in ids : /\ users'[u] \in User
                       /\ users'[u].team_name = users[u].team_name
                       /\ ~users'[u].is_active
    BY <2>5, <2>6 DEF User
  <2>8. UsersToDeactivate(call[r].team, call[r].user_ids)' = ids
    <3>1. \A u \in UserIds : /\ UserExists(u)' <=> UserExists(u)
                             /\ UserExists(u) => users'[u].team_name = users[u].team_name
      BY <2>5, <2>6, <2>7, RepositoryAssumption DEF UserExists, GetUserByID
    <3> QED BY <3>1, <2>2 DEF UsersToDeactivate, GetUsersByTeam
  <2>9. CreateFresh(r)' /\ MergeFresh(r)' /\ ReassignFresh(r)' /\ TeamFresh(r)'
    BY <2>2 DEF CreateFresh, MergeFresh, ReassignFresh, TeamFresh, ReassignPoints
  <2>10. SweepFresh(r)'
    <3> HIDE DEF ids
    <3>1. pc'[r] \in SweepPoints /\ pc'[r] \notin LoopPoints
      BY <2>2 DEF SweepPoints, DeactivatePoints, LoopPoints
    <3>2. /\ sweep'[r].deactivated = UsersToDeactivate(call[r].team, call[r].user_ids)'
          /\ \A u \in sweep'[r].deactivated : ~users'[u].is_active
          /\ \A t \in TeamNames : sweep'[r].cache[t] = Null
          /\ \A p \in PRIds : sweep'[r].open[p] = Null /\ sweep'[r].updates[p] = Null
      BY <2>4, <2>7, <2>8
    <3> QED BY <3>1, <3>2, <2>2 DEF SweepFresh
  <2> QED BY <2>9, <2>10 DEF Fresh
<1> QED BY <1>2, <1>3

LEMMA GetOpenPRsFresh ==
    ASSUME IInv, FreshInv, NEW r \in Requests, Deactivate_GetOpenPRsByReviewers(r)
    PROVE  Fresh(r)'
<1> DEFINE found == GetOpenPRsByReviewers(sweep[r].deactivated)
<1>0. /\ pc[r] \in SweepPoints
      /\ "Deactivate.NextPR" \in SweepPoints /\ "Deactivate.NextPR" \notin LoopPoints
  BY DEF SweepPoints, DeactivatePoints, LoopPoints, Deactivate_GetOpenPRsByReviewers
<1>1. SUFFICES ASSUME sweep' = [sweep EXCEPT ![r].open =
                         [p \in PRIds |-> IF p \in found THEN pull_requests[p] ELSE Null]],
                      Goto(r, "Deactivate.NextPR"), UNCHANGED tables
               PROVE  Fresh(r)'
  BY <1>0, SweepIs, FinishFresh, FailsFresh DEF Deactivate_GetOpenPRsByReviewers
<1>2. /\ sweep'[r].deactivated = sweep[r].deactivated
      /\ sweep'[r].cache = sweep[r].cache
      /\ sweep'[r].updates = sweep[r].updates
      /\ sweep'[r].open = [p \in PRIds |-> IF p \in found THEN pull_requests[p] ELSE Null]
  BY <1>0, <1>1, SweepIs DEF Sweep
<1>3. pull_requests' = pull_requests /\ maxReviewers' = maxReviewers
  BY <1>1 DEF tables, Goto
<1>4. Covered(r)'
  BY <1>2, <1>3 DEF Covered, PRExists, GetPRByID, GetOpenPRsByReviewers
<1>5. \A p \in PRIds : sweep'[r].open[p] # Null =>
         sweep'[r].open[p] = pull_requests[p] /\ pull_requests[p].status = "OPEN"
  BY <1>2 DEF GetOpenPRsByReviewers
<1>6. \A p \in PRIds : sweep'[r].updates[p] # Null => UpdateFresh(r, p)'
  BY <1>0, <1>1, <1>2, <1>3, SweepIs, UpdateStays
<1> QED BY <1>0, <1>1, <1>2, <1>4, <1>5, <1>6, SweepIs, SweepMoves

LEMMA NextPRFresh ==
    ASSUME IInv, FreshInv, NEW r \in Requests, Deactivate_NextPR(r)
    PROVE  Fresh(r)'
<1>0. /\ pc[r] \in SweepPoints /\ pc[r] \notin LoopPoints
      /\ pc[r] # "Deactivate.GetOpenPRsByReviewers"
      /\ "Deactivate.NextReviewer" \in SweepPoints \cap LoopPoints
  BY DEF SweepPoints, DeactivatePoints, LoopPoints, Deactivate_NextPR
<1>1. PICK p \in Remaining(r) :
         /\ pr' = [pr EXCEPT ![r] = sweep[r].open[p]]
         /\ sweep' = [sweep EXCEPT ![r].open[p] = Null, ![r].target = p, ![r].next = 1]
  BY DEF Deactivate_NextPR
<1>2. /\ reviewers' = [reviewers EXCEPT ![r] = <<>>] /\ Goto(r, "Deactivate.NextReviewer")
      /\ UNCHANGED tables /\ p \in PRIds /\ sweep[r].open[p] # Null
  BY DEF Deactivate_NextPR, Remaining
<1>3. /\ sweep'[r].deactivated = sweep[r].deactivated
      /\ sweep'[r].cache = sweep[r].cache
      /\ sweep'[r].updates = sweep[r].updates
      /\ sweep'[r].open = [sweep[r].open EXCEPT ![p] = Null]
      /\ sweep'[r].target = p /\ sweep'[r].next = 1
  BY <1>0, <1>1, SweepIs DEF Sweep
<1>4. /\ pr'[r] = sweep[r].open[p] /\ reviewers'[r] = <<>>
      /\ pc'[r] = "Deactivate.NextReviewer"
      /\ pull_requests' = pull_requests /\ users' = users /\ maxReviewers' = maxReviewers
  BY <1>1, <1>2 DEF tables, Goto, IInv, TypeOK, RequestsTypeOK
<1>5. sweep[r].open \in [PRIds -> {Null} \cup PullRequest]
  BY <1>0, SweepIs DEF Sweep
<1>6. Covered(r)'
  BY <1>0, <1>3, <1>4, <1>5, SweepIs DEF Covered, PRExists, GetPRByID
<1>7. LoopFresh(r)'
  <2>1. Members(<<>>) = {} /\ Len(<<>>) = 0
    BY EmptyList
  <2> QED BY <1>0, <1>2, <1>3, <1>4, <2>1, SweepIs DEF LoopFresh, Swept
<1>8. \A q \in PRIds : sweep'[r].open[q] # Null =>
         sweep'[r].open[q] = pull_requests[q] /\ pull_requests[q].status = "OPEN"
  BY <1>0, <1>3, <1>5, SweepIs
<1>9. \A q \in PRIds : sweep'[r].updates[q] # Null => UpdateFresh(r, q)'
  BY <1>0, <1>2, <1>3, <1>4, SweepIs, UpdateStays
<1>10. \A t \in TeamNames : sweep'[r].cache[t] # Null =>
          sweep'[r].cache[t] = GetActiveUsersByTeam(t, Null)
  BY <1>0, <1>3, SweepIs
<1> QED BY <1>0, <1>2, <1>3, <1>6, <1>7, <1>8, <1>9, <1>10, SweepMoves

LEMMA LoopEndsFresh ==
    ASSUME IInv, FreshInv, NEW r \in Requests, Deactivate_LoopEnds(r)
    PROVE  Fresh(r)'
<1>0. /\ pc[r] \in SweepPoints /\ pc[r] \notin LoopPoints
      /\ pc[r] # "Deactivate.GetOpenPRsByReviewers"
      /\ "Deactivate.BulkUpdatePRReviewers" \in SweepPoints \ LoopPoints
  BY DEF SweepPoints, DeactivatePoints, LoopPoints, Deactivate_LoopEnds
<1>1. SUFFICES ASSUME Goto(r, "Deactivate.BulkUpdatePRReviewers"),
                      UNCHANGED locals, UNCHANGED tables, Remaining(r) = {}
               PROVE  Fresh(r)'
  BY <1>0, SweepIs, FinishFresh DEF Deactivate_LoopEnds
<1>2. /\ sweep' = sweep /\ pull_requests' = pull_requests /\ maxReviewers' = maxReviewers
  BY <1>1 DEF locals, tables, Goto
<1>3. Covered(r)'
  BY <1>0, <1>2, SweepIs DEF Covered, PRExists, GetPRByID
<1>4. \A q \in PRIds : sweep'[r].updates[q] # Null => UpdateFresh(r, q)'
  BY <1>0, <1>1, <1>2, SweepIs, UpdateStays
<1>5. Remaining(r)' = {}
  BY <1>1, <1>2 DEF Remaining
<1> QED BY <1>0, <1>1, <1>2, <1>3, <1>4, <1>5, SweepIs, SweepMoves

\* What is known of the loop over the reviewers of one pull request.
LEMMA LoopIs ==
    ASSUME IInv, FreshInv, NEW r \in Requests, pc[r] \in LoopPoints
    PROVE  /\ pc[r] \in SweepPoints /\ pc[r] \in Points
           /\ pc[r] # "Deactivate.GetOpenPRsByReviewers"
           /\ sweep[r].target \in PRIds
           /\ pr[r] \in PullRequest /\ pr[r] = pull_requests[sweep[r].target]
           /\ pr[r].status = "OPEN"
           /\ reviewers[r] \in Seq(UserIds)
           /\ pr[r].assigned_reviewers \in Seq(UserIds)
           /\ sweep[r].next \in 1 .. Len(pr[r].assigned_reviewers) + 1
           /\ Len(reviewers[r]) < sweep[r].next
           /\ Swept(pr[r], reviewers[r], sweep[r].deactivated)
           /\ "DBError" \notin Faults /\ Len(reviewers[r]) < sweep[r].next - 1 =>
                 Exhausted(pr[r], reviewers[r], sweep[r].deactivated)
<1>1. pc[r] \in SweepPoints /\ pc[r] # "Deactivate.GetOpenPRsByReviewers"
  BY DEF LoopPoints, SweepPoints, DeactivatePoints
<1>2. LoopFresh(r)
  BY DEF FreshInv, Fresh, SweepFresh
<1>3. ListInProgress(r)
  BY LoopHolds DEF LoopPoints
<1> QED BY <1>1, <1>2, <1>3, SweepIs, LoopHolds DEF LoopPoints, LoopFresh, ListInProgress

\* The reviewer the loop is at, when it has been deactivated.
LEMMA CurrentIs ==
    ASSUME IInv, FreshInv, NEW r \in Requests, pc[r] \in LoopPoints,
           sweep[r].next <= Len(pr[r].assigned_reviewers),
           CurrentReviewer(r) \in sweep[r].deactivated
    PROVE  /\ CurrentReviewer(r) \in Members(pr[r].assigned_reviewers)
           /\ CurrentReviewer(r) \in UserIds /\ UserExists(CurrentReviewer(r))
           /\ TeamOf(CurrentReviewer(r)) \in TeamNames
<1>1. CurrentReviewer(r) \in Members(pr[r].assigned_reviewers)
  BY LoopIs DEF CurrentReviewer, Members
<1>2. CurrentReviewer(r) \in UserIds /\ UserExists(CurrentReviewer(r))
  BY LoopIs, SweepIs
<1>3. TeamOf(CurrentReviewer(r)) \in TeamNames
  BY <1>2 DEF TeamOf, UserExists, GetUserByID, IInv, TypeOK, RequestsTypeOK, TablesTypeOK,
              User
<1> QED BY <1>1, <1>2, <1>3

\* The loop goes on with the next reviewer.
LEMMA ContinueFresh ==
    ASSUME IInv, FreshInv, NEW r \in Requests, pc[r] \in LoopPoints,
           UNCHANGED tables, NEW STATE list, NEW STATE cache, list \in Seq(UserIds),
           Continue(r, list, cache),
           \A t \in TeamNames : cache[t] # Null => cache[t] = GetActiveUsersByTeam(t, Null),
           Swept(pr[r], list, sweep[r].deactivated),
           "DBError" \notin Faults /\ Len(list) < sweep[r].next =>
              Exhausted(pr[r], list, sweep[r].deactivated)
    PROVE  Fresh(r)'
<1>1. /\ "Deactivate.NextReviewer" \in SweepPoints \cap LoopPoints
      /\ pc'[r] = "Deactivate.NextReviewer" /\ pr' = pr
  BY DEF SweepPoints, DeactivatePoints, LoopPoints, Continue, Goto, IInv, TypeOK,
         RequestsTypeOK
<1>2. /\ sweep'[r].deactivated = sweep[r].deactivated
      /\ sweep'[r].cache = cache
      /\ sweep'[r].updates = sweep[r].updates
      /\ sweep'[r].open = sweep[r].open
      /\ sweep'[r].target = sweep[r].target /\ sweep'[r].next = sweep[r].next + 1
  BY LoopIs, SweepIs DEF Sweep, Continue
<1>3. /\ Goto(r, "Deactivate.NextReviewer") /\ reviewers'[r] = list
      /\ pull_requests' = pull_requests /\ users' = users /\ maxReviewers' = maxReviewers
  BY DEF tables, Goto, Continue, IInv, TypeOK, RequestsTypeOK
<1>4. Covered(r)'
  <2>1. Covered(r)
    BY LoopIs, SweepIs
  <2> QED BY <1>1, <1>2, <1>3, <2>1 DEF Covered, PRExists, GetPRByID
<1>5. LoopFresh(r)'
  <2>1. sweep'[r].next - 1 = sweep[r].next /\ sweep'[r].target = sweep[r].target
    BY <1>2, LoopIs
  <2>2. pr'[r] = pull_requests'[sweep'[r].target] /\ pr'[r].status = "OPEN"
    BY <1>1, <1>3, <2>1, LoopIs
  <2>3. Swept(pr[r], reviewers[r], sweep[r].deactivated)'
    BY <1>1, <1>2, <1>3 DEF Swept, TeamOf
  <2>4. "DBError" \notin Faults /\ Len(reviewers'[r]) < sweep'[r].next - 1 =>
           Exhausted(pr[r], reviewers[r], sweep[r].deactivated)'
    BY <1>1, <1>2, <1>3, <2>1 DEF Exhausted, TeamOf, GetActiveUsersByTeam, GetUsersByTeam,
                                  UserExists, GetUserByID
  <2> QED BY <2>2, <2>3, <2>4 DEF LoopFresh
<1>6. \A q \in PRIds : sweep'[r].open[q] # Null =>
         sweep'[r].open[q] = pull_requests[q] /\ pull_requests[q].status = "OPEN"
  BY <1>2, LoopIs, SweepIs
<1>7. \A q \in PRIds : sweep'[r].updates[q] # Null => UpdateFresh(r, q)'
  BY <1>2, <1>3, LoopIs, SweepIs, UpdateStays
<1>8. \A t \in TeamNames : sweep'[r].cache[t] # Null =>
         sweep'[r].cache[t] = GetActiveUsersByTeam(t, Null)
  BY <1>2
<1> QED BY <1>1, <1>2, <1>3, <1>4, <1>5, <1>6, <1>7, <1>8, LoopIs, SweepMoves

\* Without a new reviewer a list stays swept; a list that was exhausted stays so
\* when it grows.
LEMMA ExhaustedGrows ==
    ASSUME NEW STATE row, NEW STATE gone, NEW STATE old, NEW STATE new,
           Members(old) \subseteq Members(new), Exhausted(row, old, gone)
    PROVE  Exhausted(row, new, gone)
  BY DEF Exhausted

\* A statement fails, and the reviewer is left out.
LEMMA SkipsFresh ==
    ASSUME IInv, FreshInv, NEW r \in Requests, pc[r] \in LoopPoints,
           UNCHANGED tables, Skips(r)
    PROVE  Fresh(r)'
  BY LoopIs, SweepIs, ContinueFresh DEF Skips

\* The current reviewer is replaced by one of the active members of the team,
\* or left out when there is none.
LEMMA ReplaceCurrentFresh ==
    ASSUME IInv, FreshInv, NEW r \in Requests, pc[r] \in LoopPoints,
           sweep[r].next <= Len(pr[r].assigned_reviewers),
           CurrentReviewer(r) \in sweep[r].deactivated,
           UNCHANGED tables, NEW STATE candidates, NEW STATE cache,
           candidates = GetActiveUsersByTeam(TeamOf(CurrentReviewer(r)), Null),
           \A t \in TeamNames : cache[t] # Null => cache[t] = GetActiveUsersByTeam(t, Null),
           ReplaceCurrent(r, candidates, cache)
    PROVE  Fresh(r)'
<1> DEFINE current == CurrentReviewer(r)
<1>1. /\ current \in Members(pr[r].assigned_reviewers) \cap sweep[r].deactivated
      /\ current \in UserIds
  BY CurrentIs
<1>2. \A u \in candidates :
         u \in UserIds /\ users[u].is_active /\ TeamOf(u) = TeamOf(current)
  BY DEF GetActiveUsersByTeam, GetUsersByTeam, TeamOf
<1>3. CASE \E new \in Eligible(r, candidates) :
              Continue(r, Append(reviewers[r], new), cache)
  <2>1. PICK new \in Eligible(r, candidates) : Continue(r, Append(reviewers[r], new), cache)
    BY <1>3
  <2>2. /\ new \in UserIds /\ users[new].is_active /\ TeamOf(current) = TeamOf(new)
        /\ new \notin sweep[r].deactivated
    BY <1>2, LoopIs, SweepIs DEF Eligible
  <2> DEFINE list == Append(reviewers[r], new)
  <2>3. /\ list \in Seq(UserIds) /\ Len(list) = Len(reviewers[r]) + 1
        /\ Members(list) = Members(reviewers[r]) \cup {new}
    BY <2>2, LoopIs, AppendOne
  <2> HIDE DEF list
  <2>4. Swept(pr[r], list, sweep[r].deactivated)
    BY <1>1, <2>2, <2>3, LoopIs DEF Swept
  <2>5. "DBError" \notin Faults /\ Len(list) < sweep[r].next =>
           Exhausted(pr[r], list, sweep[r].deactivated)
    <3>1. Len(list) < sweep[r].next => Len(reviewers[r]) < sweep[r].next - 1
      BY <2>3, LoopIs
    <3> QED BY <3>1, <2>3, LoopIs, ExhaustedGrows
  <2>6. Continue(r, list, cache)
    BY <2>1 DEF list
  <2> QED BY <2>3, <2>4, <2>5, <2>6, ContinueFresh
<1>4. CASE Eligible(r, candidates) = {} /\ Continue(r, reviewers[r], cache)
  <2>1. GetActiveUsersByTeam(TeamOf(current), current) \subseteq candidates
    BY RepositoryAssumption DEF GetActiveUsersByTeam, GetUsersByTeam
  <2>2. Exhausted(pr[r], reviewers[r], sweep[r].deactivated)
    BY <1>1, <1>4, <2>1 DEF Exhausted, Eligible
  <2> QED BY <1>4, <2>2, LoopIs, ContinueFresh
<1> QED BY <1>3, <1>4 DEF ReplaceCurrent

LEMMA KeepReviewerFresh ==
    ASSUME IInv, FreshInv, NEW r \in Requests, Deactivate_KeepReviewer(r)
    PROVE  Fresh(r)'
<1> DEFINE list == Append(reviewers[r], CurrentReviewer(r))
<1>1. /\ pc[r] \in LoopPoints /\ sweep[r].next <= Len(pr[r].assigned_reviewers)
      /\ CurrentReviewer(r) \notin sweep[r].deactivated
      /\ Continue(r, list, sweep[r].cache) /\ UNCHANGED tables
  BY DEF Deactivate_KeepReviewer, AtReviewer, LoopPoints
<1>2. /\ CurrentReviewer(r) \in Members(pr[r].assigned_reviewers)
      /\ CurrentReviewer(r) \in UserIds
  BY <1>1, LoopIs DEF CurrentReviewer, Members
<1>3. /\ list \in Seq(UserIds) /\ Len(list) = Len(reviewers[r]) + 1
      /\ Members(list) = Members(reviewers[r]) \cup {CurrentReviewer(r)}
  BY <1>1, <1>2, LoopIs, AppendOne
<1> HIDE DEF list
<1>4. Swept(pr[r], list, sweep[r].deactivated)
  <2>1. Swept(pr[r], reviewers[r], sweep[r].deactivated)
    BY <1>1, LoopIs
  <2>2. Members(list) \cap sweep[r].deactivated = {}
    BY <1>1, <1>3, <2>1 DEF Swept
  <2>3. Members(list) \ Members(pr[r].assigned_reviewers)
           \subseteq Members(reviewers[r]) \ Members(pr[r].assigned_reviewers)
    BY <1>2, <1>3
  <2> QED BY <2>1, <2>2, <2>3 DEF Swept
<1>5. "DBError" \notin Faults /\ Len(list) < sweep[r].next =>
         Exhausted(pr[r], list, sweep[r].deactivated)
  <2>1. Len(list) < sweep[r].next => Len(reviewers[r]) < sweep[r].next - 1
    BY <1>1, <1>3, LoopIs
  <2> QED BY <1>1, <1>3, <2>1, LoopIs, ExhaustedGrows
<1>6. \A t \in TeamNames : sweep[r].cache[t] # Null =>
         sweep[r].cache[t] = GetActiveUsersByTeam(t, Null)
  BY <1>1, LoopIs, SweepIs
<1> QED BY <1>1, <1>3, <1>4, <1>5, <1>6, ContinueFresh

LEMMA GetUserFresh ==
    ASSUME IInv, FreshInv, NEW r \in Requests, Deactivate_GetUserByID(r)
    PROVE  Fresh(r)'
<1> DEFINE t == GetUserByID(CurrentReviewer(r)).team_name
<1>1. /\ pc[r] \in LoopPoints /\ sweep[r].next <= Len(pr[r].assigned_reviewers)
      /\ CurrentReviewer(r) \in sweep[r].deactivated
      /\ UNCHANGED tables
  BY DEF Deactivate_GetUserByID, AtReviewer, LoopPoints
<1>2. /\ UserExists(CurrentReviewer(r))
      /\ t \in TeamNames /\ t = TeamOf(CurrentReviewer(r))
  BY <1>1, CurrentIs DEF TeamOf, GetUserByID
<1>3. \A n \in TeamNames : sweep[r].cache[n] # Null =>
         sweep[r].cache[n] = GetActiveUsersByTeam(n, Null)
  BY <1>1, LoopIs, SweepIs
<1>4. CASE Skips(r)
  BY <1>1, <1>4, SkipsFresh
<1>5. CASE sweep[r].cache[t] # Null /\ ReplaceCurrent(r, sweep[r].cache[t], sweep[r].cache)
  <2> HIDE DEF t
  <2> QED BY <1>1, <1>2, <1>3, <1>5, ReplaceCurrentFresh
<1>6. CASE /\ team' = [team EXCEPT ![r] = t]
           /\ Goto(r, "Deactivate.GetActiveUsersByTeam")
           /\ UNCHANGED <<pr, reviewers, sweep>>
  <2> HIDE DEF t
  <2>1. /\ "Deactivate.GetActiveUsersByTeam" \in SweepPoints \cap LoopPoints
        /\ pc'[r] \in LoopPoints /\ team'[r] = t
    BY <1>6 DEF SweepPoints, DeactivatePoints, LoopPoints, Goto, IInv, TypeOK,
                RequestsTypeOK
  <2>2. /\ pr' = pr /\ reviewers' = reviewers /\ sweep' = sweep /\ users' = users
        /\ pull_requests' = pull_requests /\ maxReviewers' = maxReviewers
    BY <1>1, <1>6 DEF tables, Goto
  <2>3. Covered(r)'
    <3>1. Covered(r)
      BY <1>1, LoopIs, SweepIs
    <3> QED BY <1>1, <2>1, <2>2, <3>1 DEF Covered, PRExists, GetPRByID
  <2>4. LoopFresh(r)'
    <3>1. LoopFresh(r)
      BY <1>1 DEF FreshInv, Fresh, SweepFresh
    <3> QED BY <2>2, <3>1 DEF LoopFresh, Swept, Exhausted, TeamOf, GetActiveUsersByTeam,
                              GetUsersByTeam, UserExists, GetUserByID
  <2>5. CurrentReviewer(r)' = CurrentReviewer(r)
    BY <2>2 DEF CurrentReviewer
  <2>6. \A q \in PRIds : sweep'[r].updates[q] # Null => UpdateFresh(r, q)'
    BY <1>1, <2>2, LoopIs, SweepIs, UpdateStays
  <2>7. \A q \in PRIds : sweep'[r].open[q] # Null =>
           sweep'[r].open[q] = pull_requests[q] /\ pull_requests[q].status = "OPEN"
    BY <1>1, <2>2, LoopIs, SweepIs
  <2>8. /\ CurrentReviewer(r)' \in sweep[r].deactivated
        /\ team'[r] = TeamOf(CurrentReviewer(r)')
    BY <1>1, <1>2, <2>1, <2>5
  <2>9. Goto(r, "Deactivate.GetActiveUsersByTeam")
    BY <1>6
  <2> QED BY <1>1, <1>3, <2>1, <2>2, <2>3, <2>4, <2>6, <2>7, <2>8, <2>9, LoopIs, SweepMoves
<1> QED BY <1>2, <1>4, <1>5, <1>6 DEF Deactivate_GetUserByID

LEMMA GetActiveFresh ==
    ASSUME IInv, FreshInv, NEW r \in Requests, Deactivate_GetActiveUsersByTeam(r)
    PROVE  Fresh(r)'
<1> DEFINE candidates == GetActiveUsersByTeam(team[r], Null)
           cache == [sweep[r].cache EXCEPT ![team[r]] = candidates]
<1>1. /\ pc[r] \in LoopPoints /\ UNCHANGED tables
      /\ Skips(r) \/ ReplaceCurrent(r, candidates, cache)
      /\ pc[r] = "Deactivate.GetActiveUsersByTeam"
  BY DEF Deactivate_GetActiveUsersByTeam, LoopPoints
<1>2. /\ CurrentReviewer(r) \in sweep[r].deactivated
      /\ team[r] = TeamOf(CurrentReviewer(r))
      /\ sweep[r].next <= Len(pr[r].assigned_reviewers)
  BY <1>1 DEF FreshInv, Fresh, SweepFresh, IInv, LocalsOK, LocalOK
<1>3. /\ sweep[r].cache \in [TeamNames -> {Null} \cup SUBSET UserIds]
      /\ \A n \in TeamNames : sweep[r].cache[n] # Null =>
            sweep[r].cache[n] = GetActiveUsersByTeam(n, Null)
  BY <1>1, LoopIs, SweepIs DEF Sweep
<1>4. \A n \in TeamNames : cache[n] # Null => cache[n] = GetActiveUsersByTeam(n, Null)
  BY <1>3
<1>5. CASE Skips(r)
  BY <1>1, <1>5, SkipsFresh
<1>6. CASE ReplaceCurrent(r, candidates, cache)
  <2> HIDE DEF cache
  <2> QED BY <1>1, <1>2, <1>4, <1>6, ReplaceCurrentFresh
<1> QED BY <1>1, <1>5, <1>6

LEMMA ReviewersDoneFresh ==
    ASSUME IInv, FreshInv, NEW r \in Requests, Deactivate_ReviewersDone(r)
    PROVE  Fresh(r)'
<1> DEFINE new == Truncate(reviewers[r])
           old == pr[r].assigned_reviewers
           p == sweep[r].target
<1>1. /\ pc[r] \in LoopPoints /\ sweep[r].next > Len(old)
      /\ "Deactivate.NextPR" \in SweepPoints /\ "Deactivate.NextPR" \notin LoopPoints
      /\ pc[r] = "Deactivate.NextReviewer"
  BY DEF Deactivate_ReviewersDone, LoopPoints, SweepPoints, DeactivatePoints
<1>2. SUFFICES ASSUME maxReviewers >= 0, Goto(r, "Deactivate.NextPR"),
                      UNCHANGED <<pr, team, reviewers>>, UNCHANGED tables,
                      sweep' = IF new = old THEN sweep
                               ELSE [sweep EXCEPT ![r].updates[p] = new]
               PROVE  Fresh(r)'
  BY <1>1, LoopIs, FailsFresh DEF Deactivate_ReviewersDone
<1>3. /\ maxReviewers \in Int /\ maxReviewers' = maxReviewers
      /\ pull_requests' = pull_requests /\ users' = users
  BY <1>2, RequestsAssumption DEF tables, Goto, IInv, TypeOK, RequestsTypeOK
<1>4. /\ p \in PRIds /\ pr[r] = pull_requests[p] /\ pr[r].status = "OPEN"
      /\ sweep[r].next = Len(old) + 1
      /\ old \in Seq(UserIds) /\ reviewers[r] \in Seq(UserIds)
      /\ Swept(pr[r], reviewers[r], sweep[r].deactivated)
  BY <1>1, LoopIs
<1>5. /\ new \in Seq(UserIds)
      /\ Members(new) \subseteq Members(reviewers[r])
      /\ Len(new) <= maxReviewers
      /\ Len(new) <= Len(reviewers[r])
      /\ Len(new) < maxReviewers => new = reviewers[r]
  BY <1>2, <1>3, <1>4, Prefix DEF Truncate
<1>6. /\ new # Null
      /\ Len(new) <= Len(old)
      /\ Swept(pr[r], new, sweep[r].deactivated)
      /\ "DBError" \notin Faults /\ Len(new) < Len(old) /\ Len(new) < maxReviewers =>
            Exhausted(pr[r], new, sweep[r].deactivated)
  <2> HIDE DEF new
  <2>1. Swept(pr[r], new, sweep[r].deactivated)
    BY <1>4, <1>5 DEF Swept
  <2>2. Len(reviewers[r]) <= Len(old)
    BY <1>1, <1>4, LoopIs
  <2> QED BY <1>1, <1>3, <1>4, <1>5, <2>1, <2>2, LoopIs, RepositoryAssumption
<1> HIDE DEF new
<1>7. /\ sweep'[r].deactivated = sweep[r].deactivated
      /\ sweep'[r].cache = sweep[r].cache
      /\ sweep'[r].open = sweep[r].open
      /\ \A q \in PRIds \ {p} : sweep'[r].updates[q] = sweep[r].updates[q]
      /\ IF new = old THEN sweep'[r].updates[p] = sweep[r].updates[p]
                      ELSE sweep'[r].updates[p] = new
  <2>1. sweep \in [Requests -> Sweep] /\ sweep[r] \in Sweep
    BY <1>1, LoopIs, SweepIs
  <2> QED BY <1>2, <1>4, <2>1 DEF Sweep
<1>8. Covered(r)'
  <2>1. Covered(r)
    BY <1>1, LoopIs, SweepIs
  <2>2. \/ sweep'[r].updates[p] # Null
        \/ Members(pull_requests[p].assigned_reviewers) \cap sweep[r].deactivated = {}
    BY <1>4, <1>6, <1>7 DEF Swept
  <2>3. ASSUME NEW q \in PRIds, q # p
        PROVE  \/ ~PRExists(q)
               \/ pull_requests[q].status # "OPEN"
               \/ sweep'[r].open[q] # Null
               \/ sweep'[r].updates[q] # Null
               \/ Members(pull_requests[q].assigned_reviewers) \cap sweep[r].deactivated = {}
    BY <1>7, <2>1, <2>3 DEF Covered
  <2> QED BY <1>3, <1>7, <2>2, <2>3 DEF Covered, PRExists, GetPRByID
<1>9. \A q \in PRIds : sweep'[r].updates[q] # Null => UpdateFresh(r, q)'
  <2>1. ASSUME NEW q \in PRIds, sweep'[r].updates[q] # Null,
               sweep'[r].updates[q] = sweep[r].updates[q]
        PROVE  UpdateFresh(r, q)'
    BY <1>1, <1>2, <1>3, <1>7, <2>1, LoopIs, SweepIs, UpdateStays
  <2>2. ASSUME NEW q \in PRIds, sweep'[r].updates[q] # sweep[r].updates[q]
        PROVE  UpdateFresh(r, q)'
    <3>1. /\ q = p /\ sweep'[r].updates[q] = new
          /\ sweep'[r].deactivated = sweep[r].deactivated
          /\ pull_requests'[q] = pr[r]
      BY <1>3, <1>4, <1>7, <2>2
    <3>2. Swept(pull_requests[q], sweep[r].updates[q], sweep[r].deactivated)'
      BY <1>3, <1>6, <3>1 DEF Swept, TeamOf
    <3>3. "DBError" \notin Faults /\ Len(new) < Len(old) /\ Len(new) < maxReviewers =>
             Exhausted(pull_requests[q], sweep[r].updates[q], sweep[r].deactivated)'
      BY <1>3, <1>6, <3>1 DEF Exhausted, TeamOf, GetActiveUsersByTeam, GetUsersByTeam,
                              UserExists, GetUserByID
    <3> QED BY <1>3, <1>4, <1>5, <1>6, <3>1, <3>2, <3>3 DEF UpdateFresh
  <2> QED BY <2>1, <2>2
<1>10. /\ \A t \in TeamNames : sweep'[r].cache[t] # Null =>
             sweep'[r].cache[t] = GetActiveUsersByTeam(t, Null)
       /\ \A q \in PRIds : sweep'[r].open[q] # Null =>
             sweep'[r].open[q] = pull_requests[q] /\ pull_requests[q].status = "OPEN"
  BY <1>1, <1>7, LoopIs, SweepIs
<1> QED BY <1>1, <1>2, <1>7, <1>8, <1>9, <1>10, LoopIs, SweepMoves

LEMMA SweepFreshStays ==
    ASSUME IInv, FreshInv, NEW r \in Requests, DeactivateTeamUsers(r)
    PROVE  Fresh(r)'
<1>1. CASE Deactivate_BulkUpdatePRReviewers(r)
  <2>1. pc[r] \in Points
    BY <1>1 DEF Deactivate_BulkUpdatePRReviewers, Points, DeactivatePoints
  <2> QED BY <1>1, <2>1, FinishFresh, FailsFresh DEF Deactivate_BulkUpdatePRReviewers
<1> QED BY <1>1, SweepBegins, GetOpenPRsFresh, NextPRFresh, LoopEndsFresh, KeepReviewerFresh,
           GetUserFresh, GetActiveFresh, ReviewersDoneFresh DEF DeactivateTeamUsers

-----------------------------------------------------------------------------
(* What the statements of a step write.                                    *)

\* Every statement that can change pull_requests, ...
LEMMA WritesOfPRs ==
    ASSUME NEW r \in Requests, Step(r), ~UNCHANGED pull_requests
    PROVE  \/ /\ pc[r] = "CreatePR.CreatePR"
              /\ InsertPR(call[r].pr, call[r].user, reviewers[r])
           \/ /\ pc[r] = "MergePR.UpdatePRStatusWithMergedAt"
              /\ UpdatePRStatusWithMergedAt(call[r].pr)
           \/ /\ pc[r] = "Reassign.UpdatePRReviewers"
              /\ UpdatePRReviewers(call[r].pr, reviewers[r])
           \/ /\ pc[r] = "Deactivate.BulkUpdatePRReviewers"
              /\ BulkUpdatePRReviewers(sweep[r].updates)
<1>1. CASE CreatePR(r)
  BY <1>1 DEF CreatePR, CreatePR_PRExists, CreatePR_GetUserByID,
     CreatePR_GetActiveUsersByTeam, CreatePR_CreatePR, CreatePR_GetPRByID, tables
<1>2. CASE MergePR(r) \/ ReassignReviewer(r)
  BY <1>2 DEF MergePR, MergePR_GetPRByID, MergePR_UpdatePRStatusWithMergedAt,
     ReassignReviewer, Reassign_GetPRByID, Reassign_GetUserByID,
     Reassign_GetActiveUsersByTeam, Reassign_UpdatePRReviewers, tables
<1>3. CASE CreateTeam(r) \/ SetActive(r)
  BY <1>3 DEF CreateTeam, CreateTeam_TeamExists, CreateTeam_CreateTeam,
     CreateTeamTx, CreateTeam_GetTeam, SetActive, SetUserActive_SetUserActive,
     SetUserActive, SetUserActive_GetUserByID, tables
<1>4. CASE DeactivateTeamUsers(r)
  BY <1>4 DEF DeactivateTeamUsers, Deactivate_TeamExists,
     Deactivate_DeactivateUsersByTeam, DeactivateUsersByTeam,
     Deactivate_GetOpenPRsByReviewers, Deactivate_NextPR, Deactivate_LoopEnds,
     Deactivate_KeepReviewer, Deactivate_GetUserByID, Deactivate_GetActiveUsersByTeam,
     Deactivate_ReviewersDone, Deactivate_BulkUpdatePRReviewers, tables
<1> QED BY <1>1, <1>2, <1>3, <1>4 DEF Step

\* ... and every statement that can change users.
LEMMA WritesOfUsers ==
    ASSUME NEW r \in Requests, Step(r), ~UNCHANGED users
    PROVE  \/ /\ pc[r] = "CreateTeam.CreateTeam"
              /\ CreateTeamTx(call[r].team, call[r].members)
           \/ /\ pc[r] = "SetUserActive.SetUserActive"
              /\ UserExists(call[r].user)
              /\ SetUserActive(call[r].user, call[r].is_active)
           \/ /\ pc[r] = "Deactivate.DeactivateUsersByTeam"
              /\ DeactivateUsersByTeam(call[r].team, call[r].user_ids)
<1>1. CASE CreatePR(r) \/ MergePR(r)
  BY <1>1 DEF CreatePR, CreatePR_PRExists, CreatePR_GetUserByID,
     CreatePR_GetActiveUsersByTeam, CreatePR_CreatePR, InsertPR, CreatePR_GetPRByID,
     MergePR, MergePR_GetPRByID, MergePR_UpdatePRStatusWithMergedAt,
     UpdatePRStatusWithMergedAt, tables
<1>2. CASE ReassignReviewer(r)
  BY <1>2 DEF ReassignReviewer, Reassign_GetPRByID, Reassign_GetUserByID,
     Reassign_GetActiveUsersByTeam, Reassign_UpdatePRReviewers, UpdatePRReviewers, tables
<1>3. CASE CreateTeam(r) \/ SetActive(r)
  BY <1>3 DEF CreateTeam, CreateTeam_TeamExists, CreateTeam_CreateTeam,
     CreateTeam_GetTeam, SetActive, SetUserActive_SetUserActive,
     SetUserActive_GetUserByID, tables
<1>4. CASE DeactivateTeamUsers(r)
  BY <1>4 DEF DeactivateTeamUsers, Deactivate_TeamExists,
     Deactivate_DeactivateUsersByTeam, Deactivate_GetOpenPRsByReviewers,
     Deactivate_NextPR, Deactivate_LoopEnds, Deactivate_KeepReviewer,
     Deactivate_GetUserByID, Deactivate_GetActiveUsersByTeam,
     Deactivate_ReviewersDone, Deactivate_BulkUpdatePRReviewers,
     BulkUpdatePRReviewers, tables
<1> QED BY <1>1, <1>2, <1>3, <1>4 DEF Step

\* The rows a sweep writes, one by one.
LEMMA BulkRows ==
    ASSUME IInv, NEW r \in Requests, BulkUpdatePRReviewers(sweep[r].updates),
           NEW p \in PRIds
    PROVE  IF sweep[r].updates[p] = Null
           THEN pull_requests'[p] = pull_requests[p]
           ELSE /\ PRExists(p) /\ pull_requests'[p] # Null
                /\ NewList(p) = sweep[r].updates[p]
                /\ pull_requests'[p].status = pull_requests[p].status
                /\ pull_requests'[p].merged_at = pull_requests[p].merged_at
<1>1. CASE sweep[r].updates[p] = Null
  BY <1>1 DEF BulkUpdatePRReviewers
<1>2. CASE sweep[r].updates[p] # Null
  <2>1. PRExists(p) /\ pull_requests[p] \in PullRequest
    BY <1>2, SweepHolds DEF IInv, TypeOK, RequestsTypeOK, TablesTypeOK, PRExists, GetPRByID
  <2>2. sweep[r].updates[p] \in Seq(UserIds)
    BY <1>2 DEF IInv, TypeOK, RequestsTypeOK, Sweep
  <2>3. pull_requests'[p] =
           [pull_requests[p] EXCEPT !.assigned_reviewers = sweep[r].updates[p]]
    BY <1>2 DEF BulkUpdatePRReviewers
  <2>4. pull_requests'[p] \in PullRequest
    BY <2>1, <2>2, <2>3, ListedRow
  <2>5. pull_requests'[p].merged_at = pull_requests[p].merged_at
    BY <2>1, <2>3 DEF PullRequest
  <2> QED BY <1>2, <2>1, <2>2, <2>3, <2>4, <2>5, ListedRow, RepositoryAssumption DEF NewList
<1> QED BY <1>1, <1>2

\* The row a reassignment writes.
LEMMA ReassignedRow ==
    ASSUME IInv, NEW r \in Requests, pc[r] = "Reassign.UpdatePRReviewers",
           UpdatePRReviewers(call[r].pr, reviewers[r])
    PROVE  /\ call[r] \in ReassignCall /\ call[r].pr \in PRIds /\ PRExists(call[r].pr)
           /\ NewList(call[r].pr) = reviewers[r]
           /\ pull_requests'[call[r].pr].status = pull_requests[call[r].pr].status
           /\ pull_requests'[call[r].pr].merged_at = pull_requests[call[r].pr].merged_at
           /\ \A p \in PRIds \ {call[r].pr} : pull_requests'[p] = pull_requests[p]
<1>1. /\ call[r] \in ReassignCall /\ call[r].pr \in PRIds /\ PRExists(call[r].pr)
      /\ reviewers[r] \in Seq(UserIds)
      /\ pull_requests \in [PRIds -> {Null} \cup PullRequest]
  BY DEF ReassignPoints, ReassignCall, IInv, TypeOK, RequestsTypeOK, TablesTypeOK,
         LocalsOK, LocalOK, CopyOK
<1>2. pull_requests[call[r].pr] \in PullRequest
  BY <1>1 DEF PRExists, GetPRByID
<1>3. pull_requests' = [pull_requests EXCEPT ![call[r].pr] =
         [pull_requests[call[r].pr] EXCEPT !.assigned_reviewers = reviewers[r]]]
  BY DEF UpdatePRReviewers
<1>4. pull_requests'[call[r].pr] =
         [pull_requests[call[r].pr] EXCEPT !.assigned_reviewers = reviewers[r]]
  BY <1>1, <1>3
<1>5. pull_requests'[call[r].pr].merged_at = pull_requests[call[r].pr].merged_at
  BY <1>2, <1>4 DEF PullRequest
<1> QED BY <1>1, <1>2, <1>3, <1>4, <1>5, ListedRow DEF NewList

\* The row a merge writes.
LEMMA MergedAt ==
    ASSUME IInv, NEW r \in Requests, pc[r] = "MergePR.UpdatePRStatusWithMergedAt",
           UpdatePRStatusWithMergedAt(call[r].pr)
    PROVE  /\ call[r].pr \in PRIds /\ PRExists(call[r].pr)
           /\ NewList(call[r].pr) = pull_requests[call[r].pr].assigned_reviewers
           /\ pull_requests'[call[r].pr].status = "MERGED"
           /\ pull_requests'[call[r].pr].merged_at = pull_requests[call[r].pr].merged_at + 1
           /\ \A p \in PRIds \ {call[r].pr} : pull_requests'[p] = pull_requests[p]
<1>1. /\ call[r].pr \in PRIds /\ PRExists(call[r].pr)
      /\ pull_requests \in [PRIds -> {Null} \cup PullRequest]
  BY DEF MergePRPoints, MergePRCall, IInv, TypeOK, RequestsTypeOK, TablesTypeOK,
         LocalsOK, LocalOK
<1>2. pull_requests[call[r].pr] \in PullRequest
  BY <1>1 DEF PRExists, GetPRByID
<1> DEFINE row == [pull_requests[call[r].pr] EXCEPT
                      !.status = "MERGED", !.merged_at = pull_requests[call[r].pr].merged_at + 1]
<1>3. pull_requests' = [pull_requests EXCEPT ![call[r].pr] = row]
  BY DEF UpdatePRStatusWithMergedAt
<1>4. row.merged_at = pull_requests[call[r].pr].merged_at + 1
  BY <1>2 DEF PullRequest
<1>5. row.assigned_reviewers = pull_requests[call[r].pr].assigned_reviewers
      /\ row.status = "MERGED"
  BY <1>2, MergedRow
<1> HIDE DEF row
<1> QED BY <1>1, <1>3, <1>4, <1>5 DEF NewList

\* The row a creation writes.
LEMMA CreatedRow ==
    ASSUME IInv, NEW r \in Requests, pc[r] = "CreatePR.CreatePR",
           InsertPR(call[r].pr, call[r].user, reviewers[r])
    PROVE  /\ call[r].pr \in PRIds /\ ~PRExists(call[r].pr)
           /\ pull_requests'[call[r].pr] =
                 [author_id |-> call[r].user, status |-> "OPEN",
                  assigned_reviewers |-> reviewers[r], merged_at |-> 0]
           /\ \A p \in PRIds \ {call[r].pr} : pull_requests'[p] = pull_requests[p]
<1>1. /\ call[r].pr \in PRIds /\ pull_requests \in [PRIds -> {Null} \cup PullRequest]
  BY DEF CreatePRPoints, CreatePRCall, IInv, TypeOK, RequestsTypeOK, TablesTypeOK
<1> QED BY <1>1 DEF InsertPR

\* The users that a mass deactivation writes keep their team.
LEMMA DeactivatedRows ==
    ASSUME IInv, NEW t, NEW ids, DeactivateUsersByTeam(t, ids), NEW u \in UserIds
    PROVE  IF u \in UsersToDeactivate(t, ids)
           THEN /\ UserExists(u) /\ users'[u].team_name = users[u].team_name
                /\ users'[u].is_active = FALSE
           ELSE users'[u] = users[u]
<1>1. CASE u \in UsersToDeactivate(t, ids)
  <2>1. UserExists(u) /\ users[u] \in User
    BY <1>1 DEF UsersToDeactivate, GetUsersByTeam, UserExists, GetUserByID, IInv, TypeOK,
                RequestsTypeOK, TablesTypeOK
  <2>2. users'[u] = [users[u] EXCEPT !.is_active = FALSE]
    BY <1>1 DEF DeactivateUsersByTeam
  <2> QED BY <1>1, <2>1, <2>2 DEF User
<1>2. CASE u \notin UsersToDeactivate(t, ids)
  BY <1>2 DEF DeactivateUsersByTeam
<1> QED BY <1>1, <1>2

\* The row that a change of activity writes.
LEMMA ActivityRows ==
    ASSUME IInv, NEW v \in UserIds, NEW active \in BOOLEAN, UserExists(v),
           SetUserActive(v, active), NEW u \in UserIds
    PROVE  IF u = v THEN /\ users'[u].team_name = users[u].team_name
                         /\ users'[u].is_active = active
                         /\ users'[u] \in User
                    ELSE users'[u] = users[u]
<1>1. users[v] \in User /\ users \in [UserIds -> {Null} \cup User]
  BY DEF UserExists, GetUserByID, IInv, TypeOK, RequestsTypeOK, TablesTypeOK
<1>2. users' = [users EXCEPT ![v] = [users[v] EXCEPT !.is_active = active]]
  BY DEF SetUserActive
<1>3. users'[u] = IF u = v THEN [users[v] EXCEPT !.is_active = active] ELSE users[u]
  BY <1>1, <1>2
<1> QED BY <1>1, <1>3 DEF User

-----------------------------------------------------------------------------
(* What a step of a request leaves the others with.                        *)

\* A step moves its own request and touches nobody else's locals.
LEMMA OthersLocals ==
    ASSUME IInv, NEW r \in Requests, Step(r), NEW s \in Requests, s # r
    PROVE  /\ pc[r] \in Points
           /\ call' = call /\ maxReviewers' = maxReviewers
           /\ pc'[s] = pc[s] /\ pr'[s] = pr[s] /\ team'[s] = team[s]
           /\ reviewers'[s] = reviewers[s] /\ sweep'[s] = sweep[s]
<1>1. /\ pc[r] \in Points
      /\ (\E point \in Points : Goto(r, point)) \/ (\E answer \in Answers : Finish(r, answer))
  BY StepEnds
<1>2. call' = call /\ maxReviewers' = maxReviewers /\ pc'[s] = pc[s]
  BY <1>1 DEF Goto, Finish, IInv, TypeOK, RequestsTypeOK
<1>3. pr'[s] = pr[s] /\ team'[s] = team[s] /\ reviewers'[s] = reviewers[s]
      /\ sweep'[s] = sweep[s]
  <2> USE DEF IInv, TypeOK, RequestsTypeOK, Fails, Panics, Finish, locals
  <2>1. CASE CreatePR(r)
    BY <2>1 DEF CreatePR, CreatePR_PRExists, CreatePR_GetUserByID,
       CreatePR_GetActiveUsersByTeam, CreatePR_CreatePR, CreatePR_GetPRByID
  <2>2. CASE MergePR(r)
    BY <2>2 DEF MergePR, MergePR_GetPRByID, MergePR_UpdatePRStatusWithMergedAt
  <2>3. CASE ReassignReviewer(r)
    BY <2>3 DEF ReassignReviewer, Reassign_GetPRByID, Reassign_GetUserByID,
       Reassign_GetActiveUsersByTeam, Reassign_UpdatePRReviewers
  <2>4. CASE CreateTeam(r) \/ SetActive(r)
    BY <2>4 DEF CreateTeam, CreateTeam_TeamExists, CreateTeam_CreateTeam,
       CreateTeam_GetTeam, SetActive, SetUserActive_SetUserActive,
       SetUserActive_GetUserByID
  <2>5. CASE DeactivateTeamUsers(r)
    BY <2>5 DEF DeactivateTeamUsers, Deactivate_TeamExists,
       Deactivate_DeactivateUsersByTeam, Deactivate_GetOpenPRsByReviewers,
       Deactivate_NextPR, Deactivate_LoopEnds, Deactivate_KeepReviewer,
       Deactivate_GetUserByID, Deactivate_GetActiveUsersByTeam,
       Deactivate_ReviewersDone, Deactivate_BulkUpdatePRReviewers, Skips,
       ReplaceCurrent, Continue
  <2> QED BY <2>1, <2>2, <2>3, <2>4, <2>5 DEF Step
<1> QED BY <1>1, <1>2, <1>3

\* A request is at a point of the operation it was sent for.
LEMMA CallOf ==
    ASSUME IInv, NEW r \in Requests, pc[r] \in Points
    PROVE  /\ pc[r] \in CreatePRPoints => call[r] \in CreatePRCall /\ call[r].op = "CreatePR"
           /\ pc[r] \in MergePRPoints => call[r] \in MergePRCall /\ call[r].op = "MergePR"
           /\ pc[r] \in ReassignPoints =>
                 call[r] \in ReassignCall /\ call[r].op = "ReassignReviewer"
           /\ pc[r] \in SetActivePoints =>
                 call[r] \in SetActiveCall /\ call[r].op = "SetUserActive"
           /\ pc[r] \in CreateTeamPoints =>
                 call[r] \in CreateTeamCall /\ call[r].op = "CreateTeam"
           /\ pc[r] \in DeactivatePoints =>
                 call[r] \in DeactivateCall /\ call[r].op = "DeactivateTeamUsers"
  BY DEF IInv, TypeOK, CreatePRCall, MergePRCall, ReassignCall, SetActiveCall,
         CreateTeamCall, DeactivateCall

\* While a request that assigns users is served, the others at most make users
\* active.
LEMMA UsersFit ==
    ASSUME IInv, FreshInv, NEW r \in Requests, Step(r), NEW s \in Requests, s # r,
           pc[s] \in CreatePRPoints \cup ReassignPoints
    PROVE  /\ call' = call
           /\ \A u \in UserIds : UserExists(u) =>
                 /\ UserExists(u)'
                 /\ users'[u].team_name = users[u].team_name
                 /\ users[u].is_active => users'[u].is_active
<1>1. pc[r] \in Points /\ pc[s] \in Points
  BY OthersLocals, PointsOf
<1>2. ~Conflict(call[r], call[s]) /\ call[s].op \in {"CreatePR", "ReassignReviewer"}
  BY <1>1, CallOf DEF FreshInv, ConflictFree, InFlight
<1>3. CASE UNCHANGED users
  BY <1>3, OthersLocals DEF UserExists, GetUserByID
<1>4. CASE ~UNCHANGED users
  <2>1. pc[r] \notin CreateTeamPoints /\ pc[r] \notin DeactivatePoints
    BY <1>1, <1>2, CallOf DEF Conflict
  <2>2. /\ pc[r] = "SetUserActive.SetUserActive" /\ UserExists(call[r].user)
        /\ SetUserActive(call[r].user, call[r].is_active)
    BY <1>4, <2>1, WritesOfUsers DEF CreateTeamPoints, DeactivatePoints
  <2>3. call[r] \in SetActiveCall /\ call[r].op = "SetUserActive"
    BY <1>1, <2>2, CallOf DEF SetActivePoints
  <2>4. /\ call[r].user \in UserIds /\ call[r].is_active \in BOOLEAN
        /\ call[r].is_active = TRUE
    BY <1>2, <2>3 DEF Conflict, SetActiveCall
  <2>5. ASSUME NEW u \in UserIds
        PROVE  IF u = call[r].user
               THEN /\ users'[u].team_name = users[u].team_name
                    /\ users'[u].is_active = TRUE
                    /\ users'[u] \in User
               ELSE users'[u] = users[u]
    BY <2>2, <2>4, ActivityRows
  <2> QED BY <2>5, OthersLocals, RepositoryAssumption DEF UserExists, GetUserByID
<1> QED BY <1>3, <1>4

\* While a request that merges or reassigns is served, the others leave its row alone.
LEMMA RowFits ==
    ASSUME IInv, FreshInv, NEW r \in Requests, Step(r), NEW s \in Requests, s # r,
           pc[s] \in MergePRPoints \cup ReassignPoints, PRExists(call[s].pr)
    PROVE  pull_requests'[call[s].pr] = pull_requests[call[s].pr]
<1>1. pc[r] \in Points /\ pc[s] \in Points
  BY OthersLocals, PointsOf
<1>2. /\ ~Conflict(call[r], call[s]) /\ call[s].op \in {"MergePR", "ReassignReviewer"}
      /\ call[s].pr \in PRIds
  BY <1>1, CallOf DEF FreshInv, ConflictFree, InFlight, MergePRCall, ReassignCall
<1>3. CASE ~UNCHANGED pull_requests
  <2>1. pc[r] \notin DeactivatePoints
    BY <1>1, <1>2, CallOf DEF Conflict
  <2>2. pc[r] \in MergePRPoints \cup ReassignPoints => call[r].pr # call[s].pr
    BY <1>1, <1>2, CallOf DEF Conflict
  <2>3. CASE /\ pc[r] = "CreatePR.CreatePR"
             /\ InsertPR(call[r].pr, call[r].user, reviewers[r])
    BY <1>2, <2>3, CreatedRow
  <2>4. CASE /\ pc[r] = "MergePR.UpdatePRStatusWithMergedAt"
             /\ UpdatePRStatusWithMergedAt(call[r].pr)
    BY <1>2, <2>2, <2>4, MergedAt DEF MergePRPoints
  <2>5. CASE /\ pc[r] = "Reassign.UpdatePRReviewers"
             /\ UpdatePRReviewers(call[r].pr, reviewers[r])
    BY <1>2, <2>2, <2>5, ReassignedRow DEF ReassignPoints
  <2> QED BY <1>3, <2>1, <2>3, <2>4, <2>5, WritesOfPRs DEF DeactivatePoints
<1> QED BY <1>3

\* While a request that adds a team is served, nobody else puts users into the team.
LEMMA TeamFits ==
    ASSUME IInv, FreshInv, NEW r \in Requests, Step(r), NEW s \in Requests, s # r,
           pc[s] \in CreateTeamPoints, ~TeamExists(call[s].team)
    PROVE  ~TeamExists(call[s].team)'
<1>1. pc[r] \in Points /\ pc[s] \in Points
  BY OthersLocals, PointsOf
<1>2. ~Conflict(call[r], call[s]) /\ call[s].op = "CreateTeam"
  BY <1>1, CallOf DEF FreshInv, ConflictFree, InFlight
<1>3. call' = call
  BY OthersLocals
<1>4. \A u \in UserIds : /\ users[u] # Null => users[u].team_name # call[s].team
  BY DEF TeamExists, GetUsersByTeam, UserExists, GetUserByID
<1>5. \A u \in UserIds : users'[u] # Null => users'[u].team_name # call[s].team
  <2>1. CASE UNCHANGED users
    BY <1>4, <2>1
  <2>2. CASE ~UNCHANGED users
    <3>1. pc[r] \notin DeactivatePoints
      BY <1>1, <1>2, CallOf DEF Conflict
    <3>2. pc[r] \in CreateTeamPoints => call[r].team # call[s].team
      BY <1>1, <1>2, CallOf DEF Conflict
    <3>3. CASE /\ pc[r] = "CreateTeam.CreateTeam"
               /\ CreateTeamTx(call[r].team, call[r].members)
      BY <1>4, <3>2, <3>3 DEF CreateTeamTx, CreateTeamPoints
    <3>4. CASE /\ pc[r] = "SetUserActive.SetUserActive" /\ UserExists(call[r].user)
               /\ SetUserActive(call[r].user, call[r].is_active)
      <4>1. call[r].user \in UserIds /\ call[r].is_active \in BOOLEAN
        BY <1>1, <3>4, CallOf DEF SetActivePoints, SetActiveCall
      <4> QED BY <1>4, <3>4, <4>1, ActivityRows DEF UserExists, GetUserByID
    <3> QED BY <2>2, <3>1, <3>3, <3>4, WritesOfUsers DEF DeactivatePoints
  <2> QED BY <2>1, <2>2
<1> QED BY <1>3, <1>5 DEF TeamExists, GetUsersByTeam, UserExists, GetUserByID

\* Nothing that Fresh(r) speaks of changes.
SameFor(r) ==
    /\ users' = users /\ pull_requests' = pull_requests /\ maxReviewers' = maxReviewers
    /\ pc'[r] = pc[r] /\ call'[r] = call[r] /\ pr'[r] = pr[r] /\ team'[r] = team[r]
    /\ reviewers'[r] = reviewers[r] /\ sweep'[r] = sweep[r]

LEMMA SameFresh ==
    ASSUME NEW r \in Requests, Fresh(r), SameFor(r)
    PROVE  Fresh(r)'
<1> USE DEF SameFor, TeamOf, GetActiveUsersByTeam, GetUsersByTeam, UserExists, GetUserByID,
            TeamExists, PRExists, GetPRByID
<1>1. CreateFresh(r)'
  BY DEF Fresh, CreateFresh
<1>2. MergeFresh(r)' /\ TeamFresh(r)'
  BY DEF Fresh, MergeFresh, TeamFresh
<1>3. ReassignFresh(r)'
  BY DEF Fresh, ReassignFresh
<1>4. Covered(r)' <=> Covered(r)
  BY DEF Covered
<1>5. LoopFresh(r)' <=> LoopFresh(r)
  BY DEF LoopFresh, Swept, Exhausted
<1>6. \A p \in PRIds : UpdateFresh(r, p)' <=> UpdateFresh(r, p)
  BY DEF UpdateFresh, Swept, Exhausted
<1>7. SweepFresh(r)'
  BY <1>4, <1>5, <1>6
     DEF Fresh, SweepFresh, UsersToDeactivate, Remaining, CurrentReviewer
<1> QED BY <1>1, <1>2, <1>3, <1>7 DEF Fresh

\* What one request has read outlives the steps of the requests beside it.
LEMMA OthersFresh ==
    ASSUME IInv, FreshInv, NEW r \in Requests, Step(r), NEW s \in Requests, s # r
    PROVE  Fresh(s)'
<1>1. /\ pc[r] \in Points
      /\ call' = call /\ maxReviewers' = maxReviewers
      /\ pc'[s] = pc[s] /\ pr'[s] = pr[s] /\ team'[s] = team[s]
      /\ reviewers'[s] = reviewers[s] /\ sweep'[s] = sweep[s]
  BY OthersLocals
<1>2. Fresh(s) /\ LocalOK(s)
  BY DEF FreshInv, IInv, LocalsOK
<1>3. pc[s] \notin SweepPoints
  <2>1. SUFFICES ASSUME pc[s] \in SweepPoints PROVE FALSE
    OBVIOUS
  <2>2. pc[s] \in Points /\ call[s].op = "DeactivateTeamUsers"
    BY <2>1, PointsOf, CallOf
  <2> QED BY <1>1, <2>2 DEF FreshInv, ConflictFree, InFlight, Conflict
<1>4. SweepFresh(s)'
  BY <1>1, <1>2, <1>3, PointsOf DEF Fresh, SweepFresh, LoopPoints
<1>5. CreateFresh(s)'
  <2>1. SUFFICES ASSUME pc[s] \in CreatePRPoints PROVE CreateFresh(s)'
    BY <1>1 DEF CreateFresh, CreatePRPoints
  <2>2. call[s].user \in UserIds
    BY <2>1, PointsOf, CallOf DEF CreatePRCall
  <2>3. pc[s] \in {"CreatePR.GetActiveUsersByTeam", "CreatePR.CreatePR"} =>
           UserExists(call[s].user)
    BY <1>2 DEF LocalOK, Registered
  <2>4. UserExists(call[s].user) =>
           /\ TeamOf(call[s].user)' = TeamOf(call[s].user)
           /\ GetActiveUsersByTeam(TeamOf(call[s].user), call[s].user)
                 \subseteq GetActiveUsersByTeam(TeamOf(call[s].user), call[s].user)'
    BY <2>1, <2>2, UsersFit DEF TeamOf, GetActiveUsersByTeam, GetUsersByTeam
  <2> QED BY <1>1, <1>2, <2>3, <2>4 DEF Fresh, CreateFresh
<1>6. MergeFresh(s)'
  BY <1>1, <1>2, RowFits DEF Fresh, MergeFresh, MergePRPoints, LocalOK
<1>7. TeamFresh(s)'
  BY <1>1, <1>2, TeamFits DEF Fresh, TeamFresh, CreateTeamPoints
<1>8. ReassignFresh(s)'
  <2>1. SUFFICES ASSUME pc[s] \in ReassignPoints \ {"Reassign.GetPRByID"}
                 PROVE  ReassignFresh(s)'
    BY <1>1 DEF ReassignFresh, ReassignPoints
  <2>2. pull_requests'[call[s].pr] = pull_requests[call[s].pr]
    BY <1>2, <2>1, RowFits DEF LocalOK, CopyOK
  <2>3. UserExists(call[s].user) /\ call[s].user \in UserIds
    BY <1>2, <2>1 DEF LocalOK, CopyOK, ListOK, Registered
  <2>4. /\ TeamOf(call[s].user)' = TeamOf(call[s].user)
        /\ GetActiveUsersByTeam(TeamOf(call[s].user), call[s].user)
              \subseteq GetActiveUsersByTeam(TeamOf(call[s].user), call[s].user)'
    BY <2>1, <2>3, UsersFit DEF TeamOf, GetActiveUsersByTeam, GetUsersByTeam
  <2>5. pr'[s] = pull_requests'[call'[s].pr] /\ pr'[s].status = "OPEN"
    BY <1>1, <1>2, <2>1, <2>2 DEF Fresh, ReassignFresh
  <2>6. pc'[s] = "Reassign.GetActiveUsersByTeam" => team'[s] = TeamOf(call[s].user)'
    BY <1>1, <1>2, <2>4 DEF Fresh, ReassignFresh
  <2>7. ASSUME pc'[s] = "Reassign.UpdatePRReviewers"
        PROVE  \E new \in GetActiveUsersByTeam(TeamOf(call[s].user), call[s].user)'
                             \ Members(pr'[s].assigned_reviewers) :
                  reviewers'[s] = Replace(pr'[s].assigned_reviewers, call'[s].user, new)
    <3>1. PICK new \in GetActiveUsersByTeam(TeamOf(call[s].user), call[s].user)
                          \ Members(pr[s].assigned_reviewers) :
             reviewers[s] = Replace(pr[s].assigned_reviewers, call[s].user, new)
      BY <1>1, <1>2, <2>7 DEF Fresh, ReassignFresh
    <3> QED BY <1>1, <2>4, <3>1
  <2> QED BY <2>5, <2>6, <2>7 DEF ReassignFresh, TeamOf, GetActiveUsersByTeam,
             GetUsersByTeam, UserExists, GetUserByID, Members, Replace
<1> QED BY <1>4, <1>5, <1>6, <1>7, <1>8 DEF Fresh

-----------------------------------------------------------------------------
(* All steps.                                                              *)

\* The requests that a step of r lets go on do not conflict, as they did not.
LEMMA StepFresh ==
    ASSUME IInv, FreshInv, NEW r \in Requests, Step(r)
    PROVE  FreshInv'
<1>1. Fresh(r)'
  BY CreatePRFresh, MergePRFresh, ReassignReviewerFresh, TeamAndActivityFresh,
     SweepFreshStays DEF Step
<1>2. \A s \in Requests \ {r} : Fresh(s)'
  BY OthersFresh
<1>3. ConflictFree'
  <2>1. pc[r] \in Points /\ call' = call /\ \A s \in Requests \ {r} : pc'[s] = pc[s]
    BY StepEnds DEF Goto, Finish, IInv, TypeOK, RequestsTypeOK
  <2> QED BY <2>1 DEF FreshInv, ConflictFree, InFlight
<1> QED BY <1>1, <1>2, <1>3 DEF FreshInv

\* A request that is let in has read nothing yet.
LEMMA SubmitFresh ==
    ASSUME IInv, FreshInv, ConflictFree', NEW r \in Requests, Submit(r)
    PROVE  FreshInv'
<1>1. PICK c \in Calls : /\ call' = [call EXCEPT ![r] = c]
                         /\ pc' = [pc EXCEPT ![r] = EntryPoint[c.op]]
  BY DEF Submit
<1>2. pc'[r] \in Quiet /\ sweep'[r] = NoSweep
  <2>1. EntryPoint[c.op] \in Quiet
    BY <1>1, RequestsAssumption DEF EntryPoint, Quiet, Call, CreatePRCall, MergePRCall,
       ReassignCall, SetActiveCall, CreateTeamCall, DeactivateCall
  <2> QED BY <1>1, <2>1, PointsOf DEF Submit, locals, IInv, TypeOK, RequestsTypeOK,
          FreshInv, Fresh, SweepFresh
<1>3. Fresh(r)'
  BY <1>2 DEF Quiet, Fresh, CreateFresh, MergeFresh, ReassignFresh, TeamFresh, SweepFresh,
     ReassignPoints, SweepPoints, LoopPoints, DeactivatePoints
<1>4. ASSUME NEW s \in Requests, s # r PROVE Fresh(s)'
  <2>1. Fresh(s)
    BY DEF FreshInv
  <2>2. SameFor(s)
    BY <1>1, <1>4 DEF Submit, SameFor, tables, locals, IInv, TypeOK, RequestsTypeOK
  <2> QED BY <2>1, <2>2, SameFresh
<1> QED BY <1>3, <1>4 DEF FreshInv

LEMMA RestartFresh ==
    ASSUME Restart
    PROVE  FreshInv'
<1>1. \A r \in Requests : pc'[r] \notin Points /\ sweep'[r] = NoSweep
  BY PointsOf DEF Restart, InFlight
<1>2. ConflictFree'
  BY <1>1 DEF ConflictFree, InFlight
<1> QED BY <1>1, <1>2, ComesToRest DEF FreshInv

LEMMA StutterFresh ==
    ASSUME FreshInv, UNCHANGED vars
    PROVE  FreshInv'
<1>1. ASSUME NEW r \in Requests PROVE Fresh(r)'
  <2>1. Fresh(r)
    BY DEF FreshInv
  <2>2. SameFor(r)
    BY DEF SameFor, vars, tables, locals
  <2> QED BY <2>1, <2>2, SameFresh
<1>2. ConflictFree'
  BY DEF FreshInv, ConflictFree, InFlight, vars
<1> QED BY <1>1, <1>2 DEF FreshInv

LEMMA InitFresh ==
    ASSUME Init
    PROVE  FreshInv
<1>1. \A r \in Requests : pc[r] \notin Points /\ sweep[r] = NoSweep
  BY PointsOf DEF Init
<1>2. ConflictFree
  BY <1>1 DEF ConflictFree, InFlight
<1> QED BY <1>1, <1>2, RestFresh DEF FreshInv

LEMMA NextFresh ==
    ASSUME IInv, FreshInv, [Next /\ ConflictFree']_vars
    PROVE  FreshInv'
  BY StepFresh, SubmitFresh, RestartFresh, StutterFresh DEF Next, Quiescent

\* While requests that conflict are kept apart, what a request has read and still
\* relies on is what is stored.
THEOREM FreshInvariance == ConflictFreeSpec => [](IInv /\ FreshInv)
<1>1. Init => IInv /\ FreshInv
  BY InitHolds, InitFresh
<1>2. IInv /\ FreshInv /\ [Next /\ ConflictFree']_vars => (IInv /\ FreshInv)'
  BY NextKeeps, NextFresh
<1> QED BY <1>1, <1>2, PTL DEF ConflictFreeSpec

\* One request at a time has nobody to conflict with.
THEOREM OneAtATimeIsConflictFree ==
    ASSUME MaxInFlight = 1
    PROVE  Spec => ConflictFreeSpec
<1> DEFINE Alone == \A r, s \in InFlight : r = s
<1>1. Init => Alone
  BY PointsOf DEF Init, InFlight
<1>2. ASSUME IInv, Alone, [Next]_vars PROVE Alone'
  <2>1. ASSUME NEW r \in Requests, Submit(r) PROVE Alone'
    <3>1. InFlight = {}
      <4>1. SUFFICES ASSUME NEW s \in InFlight PROVE FALSE
        OBVIOUS
      <4>2. InFlight = {s}
        BY <1>2
      <4>3. Cardinality(InFlight) = 1
        BY <4>2, FS_Singleton
      <4> QED BY <2>1, <4>3 DEF Submit
    <3>2. \A s \in Requests \ {r} : pc'[s] = pc[s]
      BY <2>1 DEF Submit, IInv, TypeOK, RequestsTypeOK
    <3> QED BY <3>1, <3>2 DEF InFlight
  <2>2. ASSUME NEW r \in Requests, Step(r) PROVE Alone'
    <3>1. pc[r] \in Points /\ \A s \in Requests \ {r} : pc'[s] = pc[s]
      BY <1>2, <2>2, StepEnds DEF Goto, Finish, IInv, TypeOK, RequestsTypeOK
    <3> QED BY <1>2, <3>1 DEF InFlight
  <2>3. CASE Restart
    BY <2>3, PointsOf DEF Restart, InFlight
  <2>4. CASE UNCHANGED vars
    BY <1>2, <2>4 DEF vars, InFlight
  <2> QED BY <1>2, <2>1, <2>2, <2>3, <2>4 DEF Next, Quiescent
<1>3. Alone => ConflictFree
  BY DEF ConflictFree
<1>4. Alone' => ConflictFree'
  BY DEF ConflictFree
<1> HIDE DEF Alone
<1>5. IInv /\ Alone /\ [Next]_vars => Alone' /\ [Next /\ ConflictFree']_vars
  BY <1>2, <1>4
<1> QED BY <1>1, <1>5, Invariance, PTL DEF Spec, ConflictFreeSpec

-----------------------------------------------------------------------------
(* What the statements of a step write.                                    *)

\* r has a new list of p to write, and p is what it was when r computed it:
\* p is created, a reviewer of p is replaced, or a sweep has dealt with p.
Creates(r, p) ==
    /\ pc[r] = "CreatePR.CreatePR"
    /\ p = call[r].pr
    /\ ~PRExists(p)
    /\ pull_requests'[p].author_id = call[r].user
    /\ NewList(p) = reviewers[r]
    /\ Members(reviewers[r]) \subseteq GetActiveUsersByTeam(TeamOf(call[r].user), call[r].user)
    /\ reviewers[r] # <<>> => Len(reviewers[r]) <= maxReviewers

Reassigns(r, p) ==
    /\ pc[r] = "Reassign.UpdatePRReviewers"
    /\ p = call[r].pr
    /\ PRExists(p)
    /\ pull_requests[p].status = "OPEN"
    /\ call[r].user \in Members(OldList(p))
    /\ \E new \in GetActiveUsersByTeam(TeamOf(call[r].user), call[r].user)
                    \ Members(OldList(p)) :
          NewList(p) = Replace(OldList(p), call[r].user, new)

Sweeps(r, p) ==
    /\ pc[r] = "Deactivate.BulkUpdatePRReviewers"
    /\ PRExists(p)
    /\ NewList(p) = sweep[r].updates[p]
    /\ UpdateFresh(r, p)

\* Without a conflict every list is written to the row it was computed from.
LEMMA RewrittenBy ==
    ASSUME IInv, FreshInv, [Next]_vars, NEW p \in Rewritten
    PROVE  /\ p \in PRIds
           /\ \E r \in Requests : Creates(r, p) \/ Reassigns(r, p) \/ Sweeps(r, p)
<1>1. /\ p \in PRIds /\ pull_requests'[p] # Null /\ NewList(p) # OldList(p)
      /\ pull_requests'[p] # pull_requests[p]
  BY DEF Rewritten, NewList, OldList, PRExists, GetPRByID
<1>2. ASSUME NEW r \in Requests, pc[r] = "CreatePR.CreatePR",
             InsertPR(call[r].pr, call[r].user, reviewers[r])
      PROVE  Creates(r, p)
  <2>1. p = call[r].pr
    BY <1>1, <1>2, CreatedRow
  <2>2. CreateFresh(r)
    BY DEF FreshInv, Fresh
  <2>3. /\ ~PRExists(p)
        /\ pull_requests'[p].author_id = call[r].user
        /\ NewList(p) = reviewers[r]
    <3>1. ~PRExists(p)
      BY <1>2, <2>1 DEF InsertPR
    <3>2. pull_requests'[p] = [author_id |-> call[r].user, status |-> "OPEN",
                               assigned_reviewers |-> reviewers[r], merged_at |-> 0]
      BY <1>2, <2>1, CreatedRow
    <3> QED BY <3>1, <3>2 DEF NewList
  <2> QED BY <1>2, <2>1, <2>2, <2>3 DEF Creates, CreateFresh
<1>3. ASSUME NEW r \in Requests, pc[r] = "MergePR.UpdatePRStatusWithMergedAt",
             UpdatePRStatusWithMergedAt(call[r].pr)
      PROVE  FALSE
  <2>1. p = call[r].pr
    BY <1>1, <1>3, MergedAt
  <2> QED BY <1>1, <1>3, <2>1, MergedAt DEF OldList
<1>4. ASSUME NEW r \in Requests, pc[r] = "Reassign.UpdatePRReviewers",
             UpdatePRReviewers(call[r].pr, reviewers[r])
      PROVE  Reassigns(r, p)
  <2>1. p = call[r].pr
    BY <1>1, <1>4, ReassignedRow
  <2>2. PRExists(p) /\ NewList(p) = reviewers[r]
    BY <1>4, <2>1, ReassignedRow
  <2>3. pr[r] = pull_requests[p] /\ pr[r].status = "OPEN"
    BY <1>4, <2>1 DEF FreshInv, Fresh, ReassignFresh, ReassignPoints
  <2>4. \E new \in GetActiveUsersByTeam(TeamOf(call[r].user), call[r].user)
                     \ Members(pr[r].assigned_reviewers) :
           reviewers[r] = Replace(pr[r].assigned_reviewers, call[r].user, new)
    BY <1>4 DEF FreshInv, Fresh, ReassignFresh
  <2>5. call[r].user \in Members(pr[r].assigned_reviewers)
    BY <1>4 DEF IInv, LocalsOK, LocalOK, ReassignPoints
  <2> QED BY <1>4, <2>1, <2>2, <2>3, <2>4, <2>5 DEF Reassigns, OldList
<1>5. ASSUME NEW r \in Requests, pc[r] = "Deactivate.BulkUpdatePRReviewers",
             BulkUpdatePRReviewers(sweep[r].updates)
      PROVE  Sweeps(r, p)
  <2>1. sweep[r].updates[p] # Null
    BY <1>1, <1>5, BulkRows
  <2>2. pc[r] \in SweepPoints
    BY <1>5 DEF SweepPoints, DeactivatePoints
  <2> QED BY <1>1, <1>5, <2>1, <2>2, BulkRows, SweepIs DEF Sweeps
<1>6. PICK r \in Requests : Step(r) /\ ~UNCHANGED pull_requests
  BY <1>1 DEF Next, Submit, Restart, Quiescent, vars, tables
<1> QED BY <1>1, <1>2, <1>3, <1>4, <1>5, <1>6, WritesOfPRs

\* Where Replace puts the newcomer, and whom it takes out.
LEMMA ReplaceHits ==
    ASSUME NEW list \in Seq(UserIds), Distinct(list),
           NEW old \in Members(list), NEW new \in UserIds, new \notin Members(list)
    PROVE  /\ \A i \in 1 .. Len(list) :
                 Replace(list, old, new)[i] = IF list[i] = old THEN new ELSE list[i]
           /\ old \notin Members(Replace(list, old, new))
<1> DEFINE P(i) == list[i] = old /\ \A j \in 1 .. i - 1 : list[j] # old
           at == CHOOSE i \in 1 .. Len(list) : P(i)
<1>1. PICK i \in 1 .. Len(list) : list[i] = old
  BY DEF Members
<1>2. P(i)
  BY <1>1 DEF Distinct
<1>3. at \in 1 .. Len(list) /\ P(at)
  BY <1>2
<1>4. Replace(list, old, new) = [list EXCEPT ![at] = new]
  BY DEF Replace
<1>5. list[at] = old
  BY <1>3
<1> HIDE DEF at
<1>6. \A j \in 1 .. Len(list) : list[j] = old <=> j = at
  BY <1>3, <1>5 DEF Distinct
<1>7. /\ Len(Replace(list, old, new)) = Len(list)
      /\ \A j \in 1 .. Len(list) :
            Replace(list, old, new)[j] = IF list[j] = old THEN new ELSE list[j]
  BY <1>3, <1>4, <1>6
<1>8. new # old
  OBVIOUS
<1> QED BY <1>7, <1>8 DEF Members

\* What a reassignment does to the list of its pull request.
LEMMA ReassignedList ==
    ASSUME IInv, NEW r \in Requests, NEW p \in PRIds, Reassigns(r, p)
    PROVE  /\ Len(NewList(p)) = Len(OldList(p))
           /\ call[r].user \in Dropped(p)
           /\ \A u \in Added(p) :
                 u \in GetActiveUsersByTeam(TeamOf(call[r].user), call[r].user)
           /\ \A i \in 1 .. Len(OldList(p)) :
                 NewList(p)[i] # OldList(p)[i] <=> OldList(p)[i] = call[r].user
<1>1. PICK new \in GetActiveUsersByTeam(TeamOf(call[r].user), call[r].user)
                     \ Members(OldList(p)) :
         NewList(p) = Replace(OldList(p), call[r].user, new)
  BY DEF Reassigns
<1>2. /\ OldList(p) \in Seq(UserIds) /\ Distinct(OldList(p))
      /\ call[r].user \in Members(OldList(p))
  BY DEF Reassigns, OldList, IInv, TypeOK, RequestsTypeOK, TablesTypeOK, PullRequest,
         ReviewersWellFormed, RowOK, ListOK, WellFormed, PRExists, GetPRByID
<1>3. new \in UserIds /\ new \notin Members(OldList(p))
  BY DEF GetActiveUsersByTeam, GetUsersByTeam
<1>4. /\ Len(NewList(p)) = Len(OldList(p))
      /\ Members(NewList(p)) \subseteq Members(OldList(p)) \cup {new}
      /\ call[r].user \notin Members(NewList(p))
  BY <1>1, <1>2, <1>3, ReplaceOne, ReplaceHits
<1>5. \A i \in 1 .. Len(OldList(p)) :
         NewList(p)[i] = IF OldList(p)[i] = call[r].user THEN new ELSE OldList(p)[i]
  BY <1>1, <1>2, <1>3, ReplaceHits
<1>6. new # call[r].user
  BY <1>2, <1>3
<1> QED BY <1>1, <1>2, <1>4, <1>5, <1>6 DEF Added, Dropped

-----------------------------------------------------------------------------
(* All the rules at once: every step of ConflictFreeSpec is a step of      *)
(* ReviewRules, or changes nothing that ReviewRules speaks of.             *)

\* The words of ReviewRules in those of the service.
LEMMA Vocabulary ==
    /\ \A list : Rules!Names(list) = Members(list)
    /\ \A list : Distinct(list) => Rules!NobodyTwice(list)
    /\ \A p : Rules!Open(p) <=> PRExists(p) /\ pull_requests[p].status = "OPEN"
    /\ \A u : Rules!Colleagues(u) = GetActiveUsersByTeam(TeamOf(u), u)
<1>1. \A list : Rules!Names(list) = Members(list)
  BY DEF Rules!Names, Members
<1>2. \A list : Distinct(list) => Rules!NobodyTwice(list)
  BY DEF Rules!NobodyTwice, Distinct
<1>3. \A p : Rules!Open(p) <=> PRExists(p) /\ pull_requests[p].status = "OPEN"
  BY DEF Rules!Open, PRExists, GetPRByID
<1>4. \A u : Rules!Colleagues(u) = GetActiveUsersByTeam(TeamOf(u), u)
  BY DEF Rules!Colleagues, GetActiveUsersByTeam, GetUsersByTeam, UserExists, GetUserByID,
         TeamOf
<1> QED BY <1>1, <1>2, <1>3, <1>4

\* A list that fits the largest limit is one of Lists.
LEMMA ListsOf ==
    ASSUME NEW list \in Seq(UserIds), Len(list) <= ReviewerCap
    PROVE  list \in Rules!Lists
<1>1. Len(list) \in 0 .. ReviewerCap /\ list \in [1 .. Len(list) -> UserIds]
  BY RequestsAssumption
<1> QED BY <1>1 DEF Rules!Lists

\* A row of users that is given another activity.
LEMMA ActivityRow ==
    ASSUME NEW row \in User, NEW active \in BOOLEAN
    PROVE  [row EXCEPT !.is_active = active]
              = [team_name |-> row.team_name, is_active |-> active]
  BY DEF User

\* A step that writes users obeys the rules about users.
LEMMA UsersObey ==
    ASSUME IInv, FreshInv, NEW r \in Requests, Step(r), ~UNCHANGED users
    PROVE  Rules!ChangeUsers
<1>1. /\ users \in [UserIds -> {Null} \cup User]
      /\ pc[r] \in Points /\ maxReviewers' = maxReviewers
  BY StepEnds DEF IInv, TypeOK, RequestsTypeOK, TablesTypeOK, Goto, Finish
<1>2. CASE pc[r] = "CreateTeam.CreateTeam" /\ CreateTeamTx(call[r].team, call[r].members)
  <2>1. call[r] \in CreateTeamCall
    BY <1>1, <1>2, CallOf DEF CreateTeamPoints
  <2>2. /\ call[r].team \in TeamNames /\ DOMAIN call[r].members \in SUBSET UserIds
        /\ call[r].members \in [DOMAIN call[r].members -> BOOLEAN]
    BY <2>1 DEF CreateTeamCall, TeamMembers
  <2>3. ~TeamExists(call[r].team)
    BY <1>2 DEF FreshInv, Fresh, TeamFresh
  <2>4. \A u \in UserIds : users[u] # Null => users[u].team_name # call[r].team
    BY <2>3 DEF TeamExists, GetUsersByTeam, UserExists, GetUserByID
  <2>5. Rules!AddTeam(call[r].team, call[r].members)
    BY <1>2, <2>4 DEF Rules!AddTeam, CreateTeamTx
  <2> QED BY <1>1, <1>2, <2>2, <2>5 DEF Rules!ChangeUsers, CreateTeamTx
<1>3. CASE /\ pc[r] = "SetUserActive.SetUserActive"
           /\ UserExists(call[r].user)
           /\ SetUserActive(call[r].user, call[r].is_active)
  <2> DEFINE u == call[r].user
             active == call[r].is_active
  <2>1. call[r] \in SetActiveCall
    BY <1>1, <1>3, CallOf DEF SetActivePoints
  <2>2. u \in UserIds /\ active \in BOOLEAN
    BY <2>1 DEF SetActiveCall
  <2>3. users[u] \in User /\ users[u] # Null
    BY <1>1, <1>3, <2>2 DEF UserExists, GetUserByID
  <2>4. users' = [users EXCEPT ![u] = [users[u] EXCEPT !.is_active = active]]
    BY <1>3 DEF SetUserActive
  <2>5. [users[u] EXCEPT !.is_active = active]
           = [team_name |-> users[u].team_name, is_active |-> active]
    BY <2>2, <2>3, ActivityRow
  <2> HIDE DEF u, active
  <2>6. Rules!ChangeActivity(u, active)
    BY <2>3, <2>4, <2>5 DEF Rules!ChangeActivity
  <2> QED BY <1>1, <1>3, <2>2, <2>6 DEF Rules!ChangeUsers, SetUserActive
<1>4. CASE /\ pc[r] = "Deactivate.DeactivateUsersByTeam"
            /\ DeactivateUsersByTeam(call[r].team, call[r].user_ids)
  <2> DEFINE t == call[r].team
             gone == UsersToDeactivate(t, call[r].user_ids)
  <2>1. call[r] \in DeactivateCall
    BY <1>1, <1>4, CallOf DEF DeactivatePoints
  <2>2. t \in TeamNames /\ gone \in SUBSET UserIds
    BY <2>1 DEF DeactivateCall, UsersToDeactivate, GetUsersByTeam
  <2>3. \A u \in gone : /\ users[u] # Null /\ users[u] \in User
                        /\ users[u].team_name = t
    BY <1>1 DEF UsersToDeactivate, GetUsersByTeam, UserExists, GetUserByID
  <2>4. \A u \in gone : [users[u] EXCEPT !.is_active = FALSE]
                           = [team_name |-> t, is_active |-> FALSE]
    BY <2>3, ActivityRow
  <2>5. users' = [u \in UserIds |-> IF u \in gone THEN [users[u] EXCEPT !.is_active = FALSE]
                                                  ELSE users[u]]
    BY <1>4 DEF DeactivateUsersByTeam
  <2> HIDE DEF t, gone
  <2>6. users' = [u \in UserIds |-> IF u \in gone THEN [team_name |-> t, is_active |-> FALSE]
                                                  ELSE users[u]]
    BY <2>4, <2>5
  <2>7. Rules!Deactivate(t, gone)
    BY <2>3, <2>6 DEF Rules!Deactivate
  <2> QED BY <1>1, <1>4, <2>2, <2>7 DEF Rules!ChangeUsers, DeactivateUsersByTeam
<1> QED BY <1>2, <1>3, <1>4, WritesOfUsers

\* The list that a creation stores, ...
LEMMA CreationObeys ==
    ASSUME IInv, FreshInv, NEW r \in Requests, pc[r] = "CreatePR.CreatePR",
           InsertPR(call[r].pr, call[r].user, reviewers[r])
    PROVE  /\ call[r].pr \in PRIds /\ call[r].user \in UserIds
           /\ Rules!Create(call[r].pr, call[r].user)
<1> DEFINE p == call[r].pr
           author == call[r].user
           list == reviewers[r]
<1>1. p \in PRIds /\ author \in UserIds /\ list \in Seq(UserIds)
  BY DEF CreatePRPoints, CreatePRCall, IInv, TypeOK, RequestsTypeOK
<1>2. author \in Registered /\ ListOK(list, author)
  BY DEF IInv, LocalsOK, LocalOK
<1>3. /\ Members(list) \subseteq GetActiveUsersByTeam(TeamOf(author), author)
      /\ list # <<>> => Len(list) <= maxReviewers
  BY DEF FreshInv, Fresh, CreateFresh
<1>4. /\ pull_requests[p] = Null /\ users[author] # Null
      /\ pull_requests' =
            [pull_requests EXCEPT ![p] =
                [author_id |-> author, status |-> "OPEN",
                 assigned_reviewers |-> list, merged_at |-> 0]]
  BY <1>2 DEF InsertPR, PRExists, GetPRByID, Registered, UserExists, GetUserByID
<1> HIDE DEF p, author, list
<1>5. /\ list \in Rules!Lists
      /\ Rules!Names(list) \subseteq Rules!Colleagues(author)
      /\ Rules!NobodyTwice(list)
  BY <1>1, <1>2, <1>3, ListsOf, Vocabulary DEF ListOK, WellFormed
<1>6. Rules!Create(p, author)
  BY <1>3, <1>4, <1>5 DEF Rules!Create
<1> QED BY <1>1, <1>6 DEF p, author

\* ... a reassignment stores, ...
LEMMA ReassignmentObeys ==
    ASSUME IInv, FreshInv, NEW r \in Requests, pc[r] = "Reassign.UpdatePRReviewers",
           UpdatePRReviewers(call[r].pr, reviewers[r])
    PROVE  /\ call[r].pr \in PRIds /\ call[r].user \in UserIds
           /\ Rules!Reassign(call[r].pr, call[r].user)
<1> DEFINE p == call[r].pr
           old == call[r].user
           row == pull_requests[p]
           list == row.assigned_reviewers
<1>1. /\ p \in PRIds /\ old \in UserIds /\ PRExists(p)
      /\ row \in PullRequest
  BY DEF ReassignPoints, ReassignCall, IInv, TypeOK, RequestsTypeOK, TablesTypeOK,
         LocalsOK, LocalOK, CopyOK, PRExists, GetPRByID
<1>2. pr[r] = row /\ row.status = "OPEN"
  BY DEF FreshInv, Fresh, ReassignFresh, ReassignPoints
<1>3. PICK new \in GetActiveUsersByTeam(TeamOf(old), old) \ Members(list) :
         reviewers[r] = Replace(list, old, new)
  BY <1>2 DEF FreshInv, Fresh, ReassignFresh
<1>4. /\ old \in Members(list)
      /\ ListOK(list, row.author_id) /\ ListOK(reviewers[r], row.author_id)
  BY <1>2 DEF IInv, LocalsOK, LocalOK, CopyOK, ReassignPoints
<1>5. list \in Seq(UserIds) /\ Distinct(list) /\ new \in UserIds
  BY <1>1, <1>4 DEF PullRequest, ListOK, WellFormed, GetActiveUsersByTeam, GetUsersByTeam
<1>6. pull_requests' = [pull_requests EXCEPT ![p].assigned_reviewers = reviewers[r]]
  BY DEF UpdatePRReviewers
<1> HIDE DEF p, old, list
<1>7. reviewers[r] = [i \in 1 .. Len(list) |-> IF list[i] = old THEN new ELSE list[i]]
  <2>1. /\ reviewers[r] \in Seq(UserIds)
        /\ Len(reviewers[r]) = Len(list)
        /\ \A i \in 1 .. Len(list) :
              reviewers[r][i] = IF list[i] = old THEN new ELSE list[i]
    BY <1>3, <1>4, <1>5, ReplaceOne, ReplaceHits
  <2>2. reviewers[r] = [i \in 1 .. Len(list) |-> reviewers[r][i]]
    BY <2>1
  <2> QED BY <2>1, <2>2
<1>8. new # row.author_id
  <2>1. PICK i \in 1 .. Len(list) : list[i] = old
    BY <1>4 DEF Members
  <2>2. new \in Members(reviewers[r])
    <3>1. Len(reviewers[r]) = Len(list) /\ reviewers[r][i] = new
      BY <1>3, <1>4, <1>5, <2>1, ReplaceOne, ReplaceHits
    <3> QED BY <2>1, <3>1 DEF Members
  <2> QED BY <1>4, <2>2 DEF ListOK, WellFormed
<1>9. /\ Rules!Open(p) /\ old \in Rules!Names(list)
      /\ new \in Rules!Colleagues(old) \ (Rules!Names(list) \cup {row.author_id})
  BY <1>1, <1>2, <1>3, <1>4, <1>8, Vocabulary
<1>10. Rules!Reassign(p, old)
  BY <1>6, <1>7, <1>9 DEF Rules!Reassign, list
<1> QED BY <1>1, <1>10 DEF p, old

\* ... and a sweep stores.
LEMMA SweepObeys ==
    ASSUME IInv, FreshInv, NEW r \in Requests, pc[r] = "Deactivate.BulkUpdatePRReviewers",
           BulkUpdatePRReviewers(sweep[r].updates)
    PROVE  \E gone \in SUBSET UserIds : Rules!Leave(gone)
<1> DEFINE gone == sweep[r].deactivated
<1>1. pc[r] \in SweepPoints /\ pc[r] \notin LoopPoints
  BY DEF SweepPoints, DeactivatePoints, LoopPoints
<1>2. /\ gone \in SUBSET UserIds
      /\ \A u \in gone : users[u] # Null /\ ~users[u].is_active
  BY <1>1, SweepIs DEF UserExists, GetUserByID
<1>3. Covered(r) /\ Remaining(r) = {}
  BY <1>1, SweepIs DEF FreshInv, Fresh, SweepFresh
<1>4. DOMAIN pull_requests' = PRIds
  BY DEF BulkUpdatePRReviewers
<1>5. ASSUME NEW p \in PRIds, sweep[r].updates[p] = Null
      PROVE  /\ pull_requests'[p] = pull_requests[p]
             /\ Rules!Open(p) =>
                   Rules!Names(pull_requests[p].assigned_reviewers) \cap gone = {}
  <2>1. pull_requests'[p] = pull_requests[p]
    BY <1>5, BulkRows
  <2>2. Rules!Open(p) => Members(pull_requests[p].assigned_reviewers) \cap gone = {}
    BY <1>1, <1>3, <1>5, Vocabulary DEF Covered, Remaining
  <2> QED BY <2>1, <2>2, Vocabulary
<1>6. ASSUME NEW p \in PRIds, sweep[r].updates[p] # Null
      PROVE  /\ Rules!Open(p)
             /\ \E list \in Rules!Lists :
                   /\ pull_requests'[p] =
                         [pull_requests[p] EXCEPT !.assigned_reviewers = list]
                   /\ Rules!Names(list) \cap gone = {}
                   /\ Rules!TakesOver(list, pull_requests[p], gone)
  <2> DEFINE list == sweep[r].updates[p]
             row == pull_requests[p]
  <2>1. PRExists(p) /\ ListOK(list, row.author_id) /\ list \in Seq(UserIds)
    BY <1>6, SweepHolds DEF IInv, TypeOK, RequestsTypeOK, Sweep
  <2>2. /\ row.status = "OPEN" /\ Swept(row, list, gone)
        /\ Len(list) <= maxReviewers /\ Len(list) <= Len(row.assigned_reviewers)
    BY <1>1, <1>6, SweepIs DEF UpdateFresh
  <2>3. pull_requests'[p] = [pull_requests[p] EXCEPT !.assigned_reviewers = list]
    BY <1>6 DEF BulkUpdatePRReviewers
  <2> HIDE DEF list
  <2>4. ASSUME NEW u \in Members(list) \ Members(row.assigned_reviewers)
        PROVE  /\ u # row.author_id
               /\ \E d \in Members(row.assigned_reviewers) \cap gone :
                     u \in Rules!Colleagues(d)
    <3>1. u # row.author_id /\ u \in UserIds /\ UserExists(u)
      BY <2>1 DEF ListOK, WellFormed, Registered
    <3>2. PICK d \in Members(row.assigned_reviewers) \cap gone : TeamOf(d) = TeamOf(u)
      BY <2>2 DEF Swept
    <3>3. users[u].is_active /\ ~users[d].is_active
      BY <1>2, <2>2 DEF Swept
    <3>4. u \in GetActiveUsersByTeam(TeamOf(d), d)
      BY <3>1, <3>2, <3>3 DEF GetActiveUsersByTeam, GetUsersByTeam, TeamOf
    <3> QED BY <3>1, <3>4, Vocabulary
  <2>5. Rules!TakesOver(list, row, gone)
    BY <2>1, <2>2, <2>4, Vocabulary DEF Rules!TakesOver, ListOK, WellFormed
  <2>6. Rules!Open(p) /\ list \in Rules!Lists /\ Rules!Names(list) \cap gone = {}
    BY <2>1, <2>2, ListsOf, Vocabulary DEF ListOK, WellFormed, Swept
  <2> QED BY <2>3, <2>5, <2>6
<1> HIDE DEF gone
<1>7. Rules!Leave(gone)
  BY <1>2, <1>4, <1>5, <1>6 DEF Rules!Leave
<1> QED BY <1>2, <1>7

\* A step that writes pull requests obeys the rules about them.
LEMMA PullRequestsObey ==
    ASSUME IInv, FreshInv, NEW r \in Requests, Step(r), ~UNCHANGED pull_requests
    PROVE  Rules!ChangePullRequests
<1>1. pc[r] \in Points /\ maxReviewers' = maxReviewers
  BY StepEnds DEF Goto, Finish
<1>2. CASE /\ pc[r] = "CreatePR.CreatePR"
           /\ InsertPR(call[r].pr, call[r].user, reviewers[r])
  BY <1>1, <1>2, CreationObeys DEF Rules!ChangePullRequests, InsertPR
<1>3. CASE /\ pc[r] = "MergePR.UpdatePRStatusWithMergedAt"
           /\ UpdatePRStatusWithMergedAt(call[r].pr)
  <2>1. call[r].pr \in PRIds /\ PRExists(call[r].pr)
    BY <1>3, MergedAt
  <2>2. Rules!Open(call[r].pr)
    BY <1>3, <2>1, Vocabulary DEF FreshInv, Fresh, MergeFresh
  <2>3. Rules!Merge(call[r].pr)
    BY <1>3, <2>2 DEF Rules!Merge, UpdatePRStatusWithMergedAt
  <2> QED BY <1>1, <1>3, <2>1, <2>3 DEF Rules!ChangePullRequests, UpdatePRStatusWithMergedAt
<1>4. CASE /\ pc[r] = "Reassign.UpdatePRReviewers"
           /\ UpdatePRReviewers(call[r].pr, reviewers[r])
  BY <1>1, <1>4, ReassignmentObeys DEF Rules!ChangePullRequests, UpdatePRReviewers
<1>5. CASE /\ pc[r] = "Deactivate.BulkUpdatePRReviewers"
           /\ BulkUpdatePRReviewers(sweep[r].updates)
  BY <1>1, <1>5, SweepObeys DEF Rules!ChangePullRequests, BulkUpdatePRReviewers
<1> QED BY <1>2, <1>3, <1>4, <1>5, WritesOfPRs

\* Every step is one of ReviewRules, or changes none of its variables.
LEMMA StepObeys ==
    ASSUME IInv, FreshInv, [Next]_vars
    PROVE  [Rules!Next]_(Rules!vars)
<1>1. ASSUME NEW r \in Requests, Submit(r) PROVE UNCHANGED Rules!vars
  BY <1>1 DEF Submit, tables, Rules!vars
<1>2. ASSUME NEW r \in Requests, Step(r) PROVE [Rules!Next]_(Rules!vars)
  <2>1. maxReviewers' = maxReviewers
    BY <1>2, StepEnds DEF Goto, Finish
  <2>2. CASE UNCHANGED users /\ UNCHANGED pull_requests
    BY <2>1, <2>2 DEF Rules!vars
  <2>3. CASE ~UNCHANGED users
    BY <1>2, <2>3, UsersObey DEF Rules!Next
  <2>4. CASE ~UNCHANGED pull_requests
    BY <1>2, <2>4, PullRequestsObey DEF Rules!Next
  <2> QED BY <2>2, <2>3, <2>4
<1>3. CASE Restart
  BY <1>3 DEF Restart, tables, Rules!Restart, Rules!Next
<1>4. CASE UNCHANGED vars
  BY <1>4 DEF vars, tables, Rules!vars
<1> QED BY <1>1, <1>2, <1>3, <1>4 DEF Next, Quiescent

\* While conflicting requests are kept apart, the service, with its reads, its
\* failures and its crashes, does what ReviewRules allows and nothing else.
THEOREM ServiceImplementsReviewRules == ConflictFreeSpec => ImplementsReviewRules
<1>1. Init => Rules!Init
  BY SeedAssumption DEF Init, Rules!Init
<1>2. IInv /\ FreshInv /\ [Next /\ ConflictFree']_vars => [Rules!Next]_(Rules!vars)
  BY StepObeys
<1> QED BY <1>1, <1>2, FreshInvariance, PTL
        DEF ConflictFreeSpec, ImplementsReviewRules, Rules!Spec

-----------------------------------------------------------------------------
(* The rules about lists of reviewers.                                     *)

\* After MERGED the list of reviewers does not change.
THEOREM MergedListsAreFrozen == ConflictFreeSpec => MergedListFrozen
<1>1. ASSUME IInv, FreshInv, [Next]_vars, NEW p \in Rewritten, PRExists(p)
      PROVE  pull_requests[p].status # "MERGED"
  BY <1>1, RewrittenBy DEF Creates, Reassigns, Sweeps, UpdateFresh
<1>2. ASSUME IInv, FreshInv, [Next]_vars
      PROVE  [\A p \in Rewritten : PRExists(p) => pull_requests[p].status # "MERGED"]_vars
  BY <1>1, <1>2
<1> QED BY <1>2, FreshInvariance, PTL DEF ConflictFreeSpec, MergedListFrozen

\* Who gets onto a list comes from the team of the user that the list is computed
\* for, and is active: the author of a new pull request, or a reviewer who leaves.
LEMMA AddedFrom ==
    ASSUME IInv, FreshInv, [Next]_vars, NEW p \in Rewritten, NEW u \in Added(p)
    PROVE  /\ users[u].is_active
           /\ IF PRExists(p) THEN \E d \in Dropped(p) : TeamOf(d) = TeamOf(u)
                             ELSE TeamOf(u) = TeamOf(pull_requests'[p].author_id)
<1>1. PICK r \in Requests : p \in PRIds /\ (Creates(r, p) \/ Reassigns(r, p) \/ Sweeps(r, p))
  BY RewrittenBy
<1>2. \A t, excluded, v : v \in GetActiveUsersByTeam(t, excluded) =>
         users[v].is_active /\ TeamOf(v) = t
  BY DEF GetActiveUsersByTeam, GetUsersByTeam, TeamOf
<1>3. CASE Creates(r, p)
  BY <1>2, <1>3 DEF Creates, Added
<1>4. CASE Reassigns(r, p)
  BY <1>1, <1>2, <1>4, ReassignedList DEF Reassigns
<1>5. CASE Sweeps(r, p)
  <2>1. /\ Swept(pull_requests[p], NewList(p), sweep[r].deactivated)
        /\ PRExists(p) /\ OldList(p) = pull_requests[p].assigned_reviewers
    BY <1>5 DEF Sweeps, UpdateFresh, OldList
  <2>2. \A d \in Members(OldList(p)) \cap sweep[r].deactivated : d \in Dropped(p)
    BY <2>1 DEF Swept, Dropped
  <2> QED BY <2>1, <2>2 DEF Swept, Added
<1> QED BY <1>1, <1>3, <1>4, <1>5

\* Whoever gets onto a list is active, and of the author's team or of the team of
\* a reviewer it replaces.
THEOREM ActiveTeammatesAreAssigned == ConflictFreeSpec => ActiveTeammatesAssigned
<1>1. ASSUME IInv, FreshInv, [Next]_vars
      PROVE  [\A p \in Rewritten : \A u \in Added(p) :
                 /\ users[u].is_active
                 /\ users[u].team_name \in
                       IF PRExists(p)
                       THEN {users[d].team_name : d \in Dropped(p)}
                       ELSE {users[pull_requests'[p].author_id].team_name}]_vars
  BY <1>1, AddedFrom DEF TeamOf
<1> QED BY <1>1, FreshInvariance, PTL DEF ConflictFreeSpec, ActiveTeammatesAssigned

\* The request that a step answers is the one that takes it.
LEMMA AnswerOf ==
    ASSUME IInv, [Next]_vars, NEW r \in Requests, NEW op, AnswersNow(r, op, "OK")
    PROVE  Step(r) /\ Finish(r, "OK") /\ pc[r] \in Points
<1>1. resp'[r] # resp[r] /\ resp'[r] = "OK"
  BY DEF AnswersNow
<1>2. ~Restart /\ ~UNCHANGED vars /\ \A s \in Requests : ~Submit(s)
  BY <1>1 DEF Restart, Submit, vars
<1>3. PICK s \in Requests : Step(s)
  BY <1>2 DEF Next, Quiescent
<1>4. PICK answer \in Answers : Finish(s, answer)
  BY <1>1, <1>3, StepEnds DEF Goto
<1>5. s = r /\ answer = "OK"
  BY <1>1, <1>4 DEF Finish, IInv, TypeOK, RequestsTypeOK
<1> QED BY <1>3, <1>4, <1>5, StepEnds

\* The kind of its call tells the operation of a request.
LEMMA OperationOf ==
    ASSUME IInv, NEW r \in Requests, Step(r)
    PROVE  /\ call[r].op = "ReassignReviewer" => ReassignReviewer(r)
           /\ call[r].op = "DeactivateTeamUsers" => DeactivateTeamUsers(r)
<1> USE DEF IInv, TypeOK
<1>1. CreatePR(r) => call[r] \in CreatePRCall
  BY DEF CreatePR, CreatePR_PRExists, CreatePR_GetUserByID, CreatePR_GetActiveUsersByTeam,
         CreatePR_CreatePR, CreatePR_GetPRByID, CreatePRPoints
<1>2. MergePR(r) => call[r] \in MergePRCall
  BY DEF MergePR, MergePR_GetPRByID, MergePR_UpdatePRStatusWithMergedAt, MergePRPoints
<1>3. ReassignReviewer(r) => call[r] \in ReassignCall
  BY DEF ReassignReviewer, Reassign_GetPRByID, Reassign_GetUserByID,
         Reassign_GetActiveUsersByTeam, Reassign_UpdatePRReviewers, ReassignPoints
<1>4. CreateTeam(r) => call[r] \in CreateTeamCall
  BY DEF CreateTeam, CreateTeam_TeamExists, CreateTeam_CreateTeam, CreateTeam_GetTeam,
         CreateTeamPoints
<1>5. SetActive(r) => call[r] \in SetActiveCall
  BY DEF SetActive, SetUserActive_SetUserActive, SetUserActive_GetUserByID, SetActivePoints
<1>6. DeactivateTeamUsers(r) => call[r] \in DeactivateCall
  BY DEF DeactivateTeamUsers, Deactivate_TeamExists, Deactivate_DeactivateUsersByTeam,
         Deactivate_GetOpenPRsByReviewers, Deactivate_NextPR, Deactivate_LoopEnds,
         Deactivate_KeepReviewer, Deactivate_GetUserByID, Deactivate_GetActiveUsersByTeam,
         Deactivate_ReviewersDone, Deactivate_BulkUpdatePRReviewers, AtReviewer,
         DeactivatePoints
<1> QED BY <1>1, <1>2, <1>3, <1>4, <1>5, <1>6
        DEF Step, CreatePRCall, MergePRCall, ReassignCall, CreateTeamCall, SetActiveCall,
            DeactivateCall

\* A reassignment that is answered with success has replaced the one reviewer.
THEOREM ReassignsExactlyOne == ConflictFreeSpec => ReassignReplacesOne
<1>1. ASSUME IInv, FreshInv, [Next]_vars, NEW r \in Requests,
             AnswersNow(r, "ReassignReviewer", "OK")
      PROVE  LET p == call[r].pr IN
             /\ Len(NewList(p)) = Len(OldList(p))
             /\ \A i \in 1 .. Len(OldList(p)) :
                   NewList(p)[i] # OldList(p)[i] <=> OldList(p)[i] = call[r].user
  <2>1. ReassignReviewer(r) /\ resp'[r] = "OK" /\ pc'[r] = "done"
    BY <1>1, AnswerOf, OperationOf DEF AnswersNow, Finish, IInv, TypeOK, RequestsTypeOK
  <2>2. Reassign_UpdatePRReviewers(r)
    BY <1>1, <2>1 DEF ReassignReviewer, Reassign_GetPRByID, Reassign_GetUserByID,
       Reassign_GetActiveUsersByTeam, Fails, Finish, Goto, IInv, TypeOK, RequestsTypeOK
  <2>3. /\ pc[r] = "Reassign.UpdatePRReviewers"
        /\ UpdatePRReviewers(call[r].pr, reviewers[r])
    BY <1>1, <2>1, <2>2 DEF Reassign_UpdatePRReviewers, Fails, Finish, IInv, TypeOK, RequestsTypeOK
  <2> DEFINE p == call[r].pr
  <2>4. p \in PRIds /\ PRExists(p) /\ NewList(p) = reviewers[r]
    BY <1>1, <2>3, ReassignedRow
  <2>5. pr[r] = pull_requests[p] /\ pr[r].status = "OPEN"
    BY <1>1, <2>3 DEF FreshInv, Fresh, ReassignFresh, ReassignPoints
  <2>6. \E new \in GetActiveUsersByTeam(TeamOf(call[r].user), call[r].user)
                     \ Members(pr[r].assigned_reviewers) :
           reviewers[r] = Replace(pr[r].assigned_reviewers, call[r].user, new)
    BY <1>1, <2>3 DEF FreshInv, Fresh, ReassignFresh
  <2>7. call[r].user \in Members(pr[r].assigned_reviewers)
    BY <1>1, <2>3 DEF IInv, LocalsOK, LocalOK, ReassignPoints
  <2>8. Reassigns(r, p)
    BY <2>3, <2>4, <2>5, <2>6, <2>7 DEF Reassigns, OldList
  <2> HIDE DEF p
  <2>9. /\ Len(NewList(p)) = Len(OldList(p))
        /\ \A i \in 1 .. Len(OldList(p)) :
              NewList(p)[i] # OldList(p)[i] <=> OldList(p)[i] = call[r].user
    BY <1>1, <2>4, <2>8, ReassignedList
  <2> QED BY <2>9 DEF p
<1>2. ASSUME IInv, FreshInv, [Next]_vars
      PROVE  [\A r \in Requests : AnswersNow(r, "ReassignReviewer", "OK") =>
                 LET p == call[r].pr IN
                 /\ Len(NewList(p)) = Len(OldList(p))
                 /\ \A i \in 1 .. Len(OldList(p)) :
                       NewList(p)[i] # OldList(p)[i] <=> OldList(p)[i] = call[r].user]_vars
  BY <1>1, <1>2
<1> QED BY <1>2, FreshInvariance, PTL DEF ConflictFreeSpec, ReassignReplacesOne

\* A list that grows, or that a sweep rewrites, fits the limit in force, whatever
\* limits the process has run with before.
THEOREM RewrittenListsFitTheLimit == ConflictFreeSpec => ListsFitLimit
<1>1. ASSUME IInv, FreshInv, [Next]_vars, NEW p \in Rewritten,
             \/ Len(NewList(p)) > Len(OldList(p))
             \/ \E r \in Requests : AnswersNow(r, "DeactivateTeamUsers", "OK")
      PROVE  Len(NewList(p)) <= maxReviewers
  <2>1. PICK r \in Requests : p \in PRIds /\ (Creates(r, p) \/ Reassigns(r, p) \/ Sweeps(r, p))
    BY <1>1, RewrittenBy
  <2>2. CASE Creates(r, p)
    BY <2>2 DEF Creates, Rewritten, OldList
  <2>3. CASE Reassigns(r, p)
    <3>0. OldList(p) \in Seq(UserIds)
      BY <1>1, <2>1 DEF OldList, IInv, TypeOK, RequestsTypeOK, TablesTypeOK, PullRequest,
         PRExists, GetPRByID
    <3>1. Len(NewList(p)) = Len(OldList(p)) /\ Len(OldList(p)) \in Nat
      BY <1>1, <2>1, <2>3, <3>0, ReassignedList
    <3>2. PICK s \in Requests : AnswersNow(s, "DeactivateTeamUsers", "OK")
      BY <1>1, <3>1
    <3>3. DeactivateTeamUsers(s) /\ pc[s] \in Points
      BY <1>1, <3>2, AnswerOf, OperationOf DEF AnswersNow
    <3>4. pc[r] \in ReassignPoints /\ pc[r] \in Points
      BY <2>3, PointsOf DEF Reassigns, ReassignPoints
    <3>5. call[r].op = "ReassignReviewer" /\ call[s].op = "DeactivateTeamUsers"
      BY <1>1, <3>2, <3>4, CallOf DEF AnswersNow
    <3> QED BY <1>1, <3>3, <3>4, <3>5 DEF FreshInv, ConflictFree, InFlight, Conflict
  <2>4. CASE Sweeps(r, p)
    BY <2>4 DEF Sweeps, UpdateFresh
  <2> QED BY <2>1, <2>2, <2>3, <2>4
<1>2. ASSUME IInv, FreshInv, [Next]_vars
      PROVE  [\A p \in Rewritten :
                 \/ Len(NewList(p)) > Len(OldList(p))
                 \/ \E r \in Requests : AnswersNow(r, "DeactivateTeamUsers", "OK")
                 => Len(NewList(p)) <= maxReviewers]_vars
  BY <1>1, <1>2
<1> QED BY <1>2, FreshInvariance, PTL DEF ConflictFreeSpec, ListsFitLimit

-----------------------------------------------------------------------------
(* Teams and merges.                                                       *)

\* /team/add never adds or moves a user into a team that exists already.
THEOREM TeamsAreAddedOnlyWhenAbsent == ConflictFreeSpec => TeamAddedOnlyWhenAbsent
<1>1. ASSUME IInv, FreshInv, [Next]_vars, NEW u \in UserIds, users'[u] # users[u]
      PROVE  \/ UserExists(u) /\ users'[u].team_name = users[u].team_name
             \/ ~TeamExists(users'[u].team_name)
  <2>1. PICK r \in Requests : Step(r) /\ ~UNCHANGED users
    BY <1>1 DEF Next, Submit, Restart, Quiescent, vars, tables
  <2>2. CASE pc[r] = "CreateTeam.CreateTeam" /\ CreateTeamTx(call[r].team, call[r].members)
    <3>1. ~TeamExists(call[r].team)
      BY <1>1, <2>2 DEF FreshInv, Fresh, TeamFresh
    <3>2. users'[u].team_name = call[r].team
      BY <1>1, <2>2 DEF CreateTeamTx
    <3> QED BY <3>1, <3>2
  <2>3. CASE /\ pc[r] = "SetUserActive.SetUserActive"
             /\ UserExists(call[r].user)
             /\ SetUserActive(call[r].user, call[r].is_active)
    <3>1. call[r].user \in UserIds /\ call[r].is_active \in BOOLEAN
      BY <1>1, <2>3 DEF IInv, TypeOK, SetActivePoints, SetActiveCall
    <3>2. u = call[r].user /\ users'[u].team_name = users[u].team_name
      BY <1>1, <2>3, <3>1, ActivityRows
    <3> QED BY <2>3, <3>2
  <2>4. CASE /\ pc[r] = "Deactivate.DeactivateUsersByTeam"
             /\ DeactivateUsersByTeam(call[r].team, call[r].user_ids)
    BY <1>1, <2>4, DeactivatedRows
  <2> QED BY <2>1, <2>2, <2>3, <2>4, WritesOfUsers
<1>2. ASSUME IInv, FreshInv, [Next]_vars
      PROVE  [\A u \in UserIds :
                 \/ users'[u] = users[u]
                 \/ UserExists(u) /\ users'[u].team_name = users[u].team_name
                 \/ ~TeamExists(users'[u].team_name)]_vars
  BY <1>1, <1>2
<1> QED BY <1>2, FreshInvariance, PTL DEF ConflictFreeSpec, TeamAddedOnlyWhenAbsent

\* The tables a behaviour starts from stamp merged pull requests, and no others.
SeedsStamped ==
    \A p \in PRIds : SeedPRs[p] # Null =>
       /\ SeedPRs[p].merged_at <= 1
       /\ (SeedPRs[p].status = "MERGED") = (SeedPRs[p].merged_at = 1)

\* A pull request is stamped with the instant of its merge once: the UPDATE finds
\* the row as OPEN as the SELECT before it did.
THEOREM MergesStampOnce ==
    ASSUME SeedsStamped
    PROVE  ConflictFreeSpec => []MergeStampsOnce
<1>1. Init => MergeStampsOnce
  BY DEF Init, MergeStampsOnce, SeedsStamped, PRExists, GetPRByID
<1>2. ASSUME IInv, FreshInv, MergeStampsOnce, [Next]_vars
      PROVE  MergeStampsOnce'
  <2> DEFINE Stamped(row) == /\ row.merged_at <= 1
                             /\ (row.status = "MERGED") = (row.merged_at = 1)
  <2>1. SUFFICES ASSUME NEW p \in PRIds, PRExists(p)' PROVE Stamped(pull_requests'[p])
    BY DEF MergeStampsOnce
  <2>2. PRExists(p) => /\ Stamped(pull_requests[p])
                       /\ pull_requests[p].merged_at \in Nat
    BY <1>2 DEF MergeStampsOnce, PRExists, GetPRByID, IInv, TypeOK, RequestsTypeOK,
                TablesTypeOK, PullRequest
  <2>3. CASE pull_requests'[p] = pull_requests[p]
    BY <2>1, <2>2, <2>3 DEF PRExists, GetPRByID
  <2>4. ASSUME pull_requests'[p] # pull_requests[p], NEW r \in Requests,
               pc[r] = "CreatePR.CreatePR",
               InsertPR(call[r].pr, call[r].user, reviewers[r])
        PROVE  Stamped(pull_requests'[p])
    <3>1. pull_requests'[p] = [author_id |-> call[r].user, status |-> "OPEN",
                               assigned_reviewers |-> reviewers[r], merged_at |-> 0]
      BY <1>2, <2>4, CreatedRow
    <3> QED BY <3>1
  <2>5. ASSUME pull_requests'[p] # pull_requests[p], NEW r \in Requests,
               pc[r] = "MergePR.UpdatePRStatusWithMergedAt",
               UpdatePRStatusWithMergedAt(call[r].pr)
        PROVE  Stamped(pull_requests'[p])
    <3>1. p = call[r].pr
      BY <1>2, <2>5, MergedAt
    <3>2. pull_requests[p].status = "OPEN" /\ pull_requests[p] # Null
      BY <1>2, <2>5, <3>1, MergedAt DEF FreshInv, Fresh, MergeFresh, PRExists, GetPRByID
    <3>3. pull_requests[p].merged_at = 0
      BY <2>2, <3>2 DEF PRExists, GetPRByID
    <3>4. /\ pull_requests'[p].status = "MERGED"
          /\ pull_requests'[p].merged_at = pull_requests[p].merged_at + 1
      BY <1>2, <2>5, <3>1, MergedAt
    <3> QED BY <3>3, <3>4
  <2>6. ASSUME pull_requests'[p] # pull_requests[p], NEW r \in Requests,
               pc[r] = "Reassign.UpdatePRReviewers",
               UpdatePRReviewers(call[r].pr, reviewers[r])
        PROVE  Stamped(pull_requests'[p])
    <3>1. p = call[r].pr
      BY <1>2, <2>6, ReassignedRow
    <3>2. /\ pull_requests[p] # Null
          /\ pull_requests'[p].status = pull_requests[p].status
          /\ pull_requests'[p].merged_at = pull_requests[p].merged_at
      BY <1>2, <2>6, <3>1, ReassignedRow DEF PRExists, GetPRByID
    <3> QED BY <2>2, <3>2 DEF PRExists, GetPRByID
  <2>7. ASSUME pull_requests'[p] # pull_requests[p], NEW r \in Requests,
               pc[r] = "Deactivate.BulkUpdatePRReviewers",
               BulkUpdatePRReviewers(sweep[r].updates)
        PROVE  Stamped(pull_requests'[p])
    BY <1>2, <2>2, <2>7, BulkRows
  <2>8. CASE ~UNCHANGED pull_requests
    <3>1. PICK r \in Requests : Step(r)
      BY <1>2, <2>8 DEF Next, Submit, Restart, Quiescent, vars, tables
    <3> HIDE DEF Stamped
    <3> QED BY <2>3, <2>4, <2>5, <2>6, <2>7, <2>8, <3>1, WritesOfPRs
  <2> QED BY <2>3, <2>8
<1> QED BY <1>1, <1>2, FreshInvariance, PTL DEF ConflictFreeSpec

-----------------------------------------------------------------------------
(* Mass deactivation.                                                      *)

\* A sweep that answers with success leaves none of the users it deactivated on
\* an open pull request.
LEMMA SweepEnds ==
    ASSUME IInv, FreshInv, NEW r \in Requests, DeactivateTeamUsers(r), Finish(r, "OK"),
           NEW u \in UsersToDeactivate(call[r].team, call[r].user_ids)
    PROVE  /\ ~users'[u].is_active
           /\ \A p \in PRIds :
                 pull_requests'[p] # Null /\ pull_requests'[p].status = "OPEN"
                    => u \notin Members(NewList(p))
           /\ pc[r] \in SweepPoints /\ u \in sweep[r].deactivated
<1>1. /\ pc \in [Requests -> {"idle", "done"} \cup Points]
      /\ resp \in [Requests -> Answers]
      /\ pc'[r] = "done" /\ resp'[r] = "OK"
  BY DEF IInv, TypeOK, RequestsTypeOK, Finish
<1>2. /\ ~Fails(r) /\ ~Panics(r)
      /\ \A point \in Points : ~Goto(r, point)
      /\ ~Finish(r, "ErrTeamNotFound")
  BY <1>1, PointsOf DEF Fails, Panics, Finish, Goto
<1>3. \/ Deactivate_GetOpenPRsByReviewers(r)
      \/ Deactivate_LoopEnds(r)
      \/ Deactivate_BulkUpdatePRReviewers(r)
  <2>1. ~Deactivate_TeamExists(r)
    BY <1>2 DEF Deactivate_TeamExists, Points, DeactivatePoints
  <2>2. ~Deactivate_DeactivateUsersByTeam(r)
    BY <1>2 DEF Deactivate_DeactivateUsersByTeam, Points, DeactivatePoints
  <2>3. ~Deactivate_NextPR(r) /\ ~Deactivate_KeepReviewer(r)
    BY <1>2 DEF Deactivate_NextPR, Deactivate_KeepReviewer, Continue, Points,
                DeactivatePoints
  <2>4. ~Deactivate_GetUserByID(r) /\ ~Deactivate_GetActiveUsersByTeam(r)
        /\ ~Deactivate_ReviewersDone(r)
    BY <1>2 DEF Deactivate_GetUserByID, Deactivate_GetActiveUsersByTeam,
       Deactivate_ReviewersDone, Skips, ReplaceCurrent, Continue, Points, DeactivatePoints
  <2> QED BY <2>1, <2>2, <2>3, <2>4 DEF DeactivateTeamUsers
<1>4. pc[r] \in SweepPoints
  BY <1>3 DEF Deactivate_GetOpenPRsByReviewers, Deactivate_LoopEnds,
     Deactivate_BulkUpdatePRReviewers, SweepPoints, DeactivatePoints
<1>5. u \in sweep[r].deactivated /\ ~users[u].is_active
  BY <1>4, SweepIs
<1>6. CASE Deactivate_GetOpenPRsByReviewers(r)
  <2>1. GetOpenPRsByReviewers(sweep[r].deactivated) = {} /\ UNCHANGED tables
    BY <1>2, <1>6 DEF Deactivate_GetOpenPRsByReviewers, Points, DeactivatePoints
  <2> QED BY <1>4, <1>5, <2>1
          DEF GetOpenPRsByReviewers, PRExists, GetPRByID, NewList, tables
<1>7. CASE Deactivate_LoopEnds(r)
  <2>1. /\ Remaining(r) = {} /\ UNCHANGED tables
        /\ \A p \in PRIds : sweep[r].updates[p] = Null
        /\ pc[r] = "Deactivate.NextPR"
    BY <1>2, <1>7 DEF Deactivate_LoopEnds, Points, DeactivatePoints
  <2>2. Covered(r)
    BY <1>4, <2>1, SweepIs
  <2> QED BY <1>4, <1>5, <2>1, <2>2
          DEF Covered, Remaining, PRExists, GetPRByID, NewList, tables, LoopPoints
<1>8. CASE Deactivate_BulkUpdatePRReviewers(r)
  <2>1. /\ pc[r] = "Deactivate.BulkUpdatePRReviewers"
        /\ BulkUpdatePRReviewers(sweep[r].updates)
    BY <1>2, <1>8 DEF Deactivate_BulkUpdatePRReviewers
  <2>2. Covered(r) /\ Remaining(r) = {} /\ users' = users
    BY <1>4, <2>1, SweepIs DEF FreshInv, Fresh, SweepFresh, BulkUpdatePRReviewers
  <2>3. ASSUME NEW p \in PRIds, pull_requests'[p] # Null, pull_requests'[p].status = "OPEN"
        PROVE  u \notin Members(NewList(p))
    <3>1. CASE sweep[r].updates[p] = Null
      <4>1. pull_requests'[p] = pull_requests[p]
        BY <2>1, <3>1, BulkRows
      <4> QED BY <1>5, <2>1, <2>2, <2>3, <3>1, <4>1
              DEF Covered, Remaining, PRExists, GetPRByID, NewList, LoopPoints
    <3>2. CASE sweep[r].updates[p] # Null
      <4>1. UpdateFresh(r, p)
        BY <1>4, <3>2, SweepIs
      <4>2. NewList(p) = sweep[r].updates[p]
        BY <2>1, <3>2, BulkRows
      <4> QED BY <1>5, <4>1, <4>2 DEF UpdateFresh, Swept
    <3> QED BY <3>1, <3>2
  <2> QED BY <1>4, <1>5, <2>2, <2>3
<1> QED BY <1>3, <1>6, <1>7, <1>8

\* When a deactivation is answered with success, the users it names are inactive
\* and review no open pull request any more, also when statements of its loop
\* have failed on the way.
THEOREM SweepsLeaveNoneBehind == ConflictFreeSpec => SweepLeavesNoneBehind
<1>1. ASSUME IInv, FreshInv, [Next]_vars, NEW r \in Requests,
             AnswersNow(r, "DeactivateTeamUsers", "OK"),
             NEW u \in UsersToDeactivate(call[r].team, call[r].user_ids)
      PROVE  /\ ~users'[u].is_active
             /\ \A p \in PRIds :
                   pull_requests'[p] # Null /\ pull_requests'[p].status = "OPEN"
                      => u \notin Members(NewList(p))
  <2>1. DeactivateTeamUsers(r) /\ Finish(r, "OK")
    BY <1>1, AnswerOf, OperationOf DEF AnswersNow
  <2> QED BY <1>1, <2>1, SweepEnds
<1>2. ASSUME IInv, FreshInv, [Next]_vars
      PROVE  [\A r \in Requests : AnswersNow(r, "DeactivateTeamUsers", "OK") =>
                 \A u \in UsersToDeactivate(call[r].team, call[r].user_ids) :
                    /\ ~users'[u].is_active
                    /\ \A p \in PRIds :
                          pull_requests'[p] # Null /\ pull_requests'[p].status = "OPEN"
                             => u \notin Members(NewList(p))]_vars
  BY <1>1, <1>2
<1> QED BY <1>2, FreshInvariance, PTL DEF ConflictFreeSpec, SweepLeavesNoneBehind

\* While no statement fails, a sweep shortens a list below the limit only for want
\* of a candidate, the lists after the first included.
THEOREM SweepsDropOnlyWithoutCandidate ==
    ASSUME "DBError" \notin Faults
    PROVE  ConflictFreeSpec => SweepDropsOnlyWithoutCandidate
<1>1. ASSUME IInv, FreshInv, [Next]_vars, NEW p \in Rewritten,
             Len(NewList(p)) < Len(OldList(p)), Len(NewList(p)) < maxReviewers
      PROVE  \E d \in Dropped(p) :
                GetActiveUsersByTeam(users[d].team_name, d)
                   \subseteq {pull_requests[p].author_id}
                               \cup Members(OldList(p)) \cup Members(NewList(p))
  <2>1. p \in PRIds /\ NewList(p) # OldList(p)
    BY DEF Rewritten
  <2>3. ASSUME NEW r \in Requests, Creates(r, p) PROVE FALSE
    <3>1. NewList(p) \in Seq(UserIds) /\ OldList(p) = <<>>
      BY <1>1, <2>3 DEF Creates, OldList, IInv, TypeOK, RequestsTypeOK
    <3> QED BY <1>1, <3>1
  <2>4. ASSUME NEW r \in Requests, Reassigns(r, p) PROVE FALSE
    <3>1. OldList(p) \in Seq(UserIds)
      BY <1>1, <2>1 DEF OldList, IInv, TypeOK, RequestsTypeOK, TablesTypeOK, PullRequest,
         PRExists, GetPRByID
    <3> QED BY <1>1, <2>1, <2>4, <3>1, ReassignedList
  <2>5. ASSUME NEW r \in Requests, Sweeps(r, p)
        PROVE  \E d \in Dropped(p) :
                  GetActiveUsersByTeam(users[d].team_name, d)
                     \subseteq {pull_requests[p].author_id}
                                 \cup Members(OldList(p)) \cup Members(NewList(p))
    <3>1. /\ UpdateFresh(r, p) /\ NewList(p) = sweep[r].updates[p]
          /\ OldList(p) = pull_requests[p].assigned_reviewers
      BY <2>5 DEF Sweeps, OldList
    <3>2. /\ Swept(pull_requests[p], NewList(p), sweep[r].deactivated)
          /\ Exhausted(pull_requests[p], NewList(p), sweep[r].deactivated)
      BY <1>1, <3>1 DEF UpdateFresh
    <3> QED BY <3>1, <3>2 DEF Swept, Exhausted, Dropped, TeamOf
  <2> QED BY <1>1, <2>3, <2>4, <2>5, RewrittenBy
<1>2. ASSUME IInv, FreshInv, [Next]_vars
      PROVE  [\A p \in Rewritten :
                 Len(NewList(p)) < Len(OldList(p)) /\ Len(NewList(p)) < maxReviewers =>
                    \E d \in Dropped(p) :
                       GetActiveUsersByTeam(users[d].team_name, d)
                          \subseteq {pull_requests[p].author_id}
                                      \cup Members(OldList(p)) \cup Members(NewList(p))]_vars
  BY <1>1, <1>2
<1> QED BY <1>2, FreshInvariance, PTL DEF ConflictFreeSpec, SweepDropsOnlyWithoutCandidate

-----------------------------------------------------------------------------
(* Mass deactivation as a whole.                                           *)

\* What DeactivationAllOrNothing is about: no statement fails, the process does
\* not die or panic, and nothing but a deactivation makes a user inactive.
OnlySweepsDeactivate ==
    /\ Faults = {}
    /\ Limits \subseteq Nat
    /\ \A c \in Calls : c.op = "SetUserActive" => c.is_active
    /\ \A c \in Calls : c.op = "CreateTeam" =>
          \A u \in DOMAIN c.members : c.members[u]
    /\ \A p \in PRIds : SeedPRs[p] # Null /\ SeedPRs[p].status = "OPEN" =>
          \A u \in Members(SeedPRs[p].assigned_reviewers) : SeedUsers[u].is_active

CallsSent == \A r \in Requests : pc[r] \in Points => call[r] \in Calls

\* An open pull request waits for an inactive user only while the sweep that
\* deactivated the user is under way.
NobodyWaits ==
    \A p \in PRIds :
       PRExists(p) /\ pull_requests[p].status = "OPEN" =>
          \A u \in Members(pull_requests[p].assigned_reviewers) :
             \/ users[u].is_active
             \/ \E r \in Requests : pc[r] \in SweepPoints /\ u \in sweep[r].deactivated

LEMMA CallsStaySent ==
    ASSUME IInv, CallsSent, [Next]_vars
    PROVE  CallsSent'
<1> USE DEF IInv, TypeOK, RequestsTypeOK
<1>1. ASSUME NEW r \in Requests, Submit(r) PROVE CallsSent'
  BY <1>1 DEF CallsSent, Submit
<1>2. ASSUME NEW r \in Requests, Step(r) PROVE CallsSent'
  <2>1. pc[r] \in Points /\ call' = call /\ \A s \in Requests \ {r} : pc'[s] = pc[s]
    BY <1>2, StepEnds DEF Goto, Finish
  <2> QED BY <2>1 DEF CallsSent
<1>3. CASE Restart
  BY <1>3, PointsOf DEF CallsSent, Restart, InFlight
<1>4. CASE UNCHANGED vars
  BY <1>4 DEF CallsSent, vars
<1> QED BY <1>1, <1>2, <1>3, <1>4 DEF Next, Quiescent

\* A sweep in which nothing fails goes on, its users as they are, or is through.
LEMMA SweepGoesOn ==
    ASSUME IInv, FreshInv, OnlySweepsDeactivate, NEW r \in Requests,
           DeactivateTeamUsers(r), pc[r] \in SweepPoints
    PROVE  \/ Finish(r, "OK") /\ UNCHANGED users
           \/ /\ UNCHANGED tables
              /\ pc'[r] \in SweepPoints
              /\ sweep'[r].deactivated = sweep[r].deactivated
<1>1. /\ ~Fails(r) /\ ~Skips(r) /\ maxReviewers >= 0
      /\ sweep \in [Requests -> Sweep] /\ sweep[r] \in Sweep
      /\ pc \in [Requests -> {"idle", "done"} \cup Points]
      /\ pc[r] # "Deactivate.TeamExists" /\ pc[r] # "Deactivate.DeactivateUsersByTeam"
  BY DEF OnlySweepsDeactivate, Fails, Skips, IInv, TypeOK, RequestsTypeOK, SweepPoints
<1> DEFINE GoesOn == /\ UNCHANGED tables
                     /\ pc'[r] \in SweepPoints
                     /\ sweep'[r].deactivated = sweep[r].deactivated
<1>2. /\ "Deactivate.NextPR" \in SweepPoints /\ "Deactivate.NextReviewer" \in SweepPoints
      /\ "Deactivate.GetActiveUsersByTeam" \in SweepPoints
      /\ "Deactivate.BulkUpdatePRReviewers" \in SweepPoints
  BY DEF SweepPoints, DeactivatePoints
<1>3. ASSUME UNCHANGED tables, NEW list, NEW cache, Continue(r, list, cache) PROVE GoesOn
  BY <1>1, <1>2, <1>3 DEF Continue, Goto, Sweep
<1>4. CASE Deactivate_GetOpenPRsByReviewers(r)
  BY <1>1, <1>2, <1>4 DEF Deactivate_GetOpenPRsByReviewers, Goto, Sweep, tables
<1>5. CASE Deactivate_NextPR(r)
  BY <1>1, <1>2, <1>5 DEF Deactivate_NextPR, Goto, Sweep
<1>6. CASE Deactivate_LoopEnds(r)
  BY <1>1, <1>2, <1>6 DEF Deactivate_LoopEnds, Goto, locals, tables
<1>7. CASE Deactivate_KeepReviewer(r)
  BY <1>3, <1>7 DEF Deactivate_KeepReviewer
<1>8. ASSUME UNCHANGED tables, NEW candidates, NEW cache,
             ReplaceCurrent(r, candidates, cache)
      PROVE  GoesOn
  BY <1>3, <1>8 DEF ReplaceCurrent
<1>9. CASE Deactivate_GetUserByID(r)
  <2>1. CASE \E list, cache : Continue(r, list, cache)
    BY <1>3, <1>9, <2>1 DEF Deactivate_GetUserByID
  <2>2. CASE \E candidates, cache : ReplaceCurrent(r, candidates, cache)
    BY <1>8, <1>9, <2>2 DEF Deactivate_GetUserByID
  <2>3. CASE Goto(r, "Deactivate.GetActiveUsersByTeam") /\ UNCHANGED sweep
    BY <1>1, <1>2, <1>9, <2>3 DEF Deactivate_GetUserByID, Goto
  <2> QED BY <1>1, <1>9, <2>1, <2>2, <2>3 DEF Deactivate_GetUserByID
<1>10. CASE Deactivate_GetActiveUsersByTeam(r)
  BY <1>1, <1>8, <1>10 DEF Deactivate_GetActiveUsersByTeam
<1>11. CASE Deactivate_ReviewersDone(r)
  <2>1. /\ Goto(r, "Deactivate.NextPR") /\ UNCHANGED tables
        /\ \/ sweep' = sweep
           \/ sweep' = [sweep EXCEPT ![r].updates[sweep[r].target] = Truncate(reviewers[r])]
    BY <1>1, <1>11, RequestsAssumption
       DEF Deactivate_ReviewersDone, IInv, TypeOK, RequestsTypeOK
  <2> QED BY <1>1, <1>2, <2>1 DEF Goto, Sweep
<1>12. CASE Deactivate_BulkUpdatePRReviewers(r)
  BY <1>1, <1>12 DEF Deactivate_BulkUpdatePRReviewers, BulkUpdatePRReviewers
<1> QED BY <1>1, <1>4, <1>5, <1>6, <1>7, <1>9, <1>10, <1>11, <1>12
        DEF DeactivateTeamUsers, Deactivate_TeamExists, Deactivate_DeactivateUsersByTeam

\* A sweep is under way beside no other request.
LEMMA SweepsAlone ==
    ASSUME IInv, FreshInv, NEW r \in Requests, pc[r] \in Points,
           NEW s \in Requests, pc[s] \in SweepPoints
    PROVE  s = r
<1>1. pc[s] \in Points /\ call[s].op = "DeactivateTeamUsers"
  BY PointsOf, CallOf
<1> QED BY <1>1 DEF FreshInv, ConflictFree, InFlight, Conflict

\* A user on an open pull request was active, or is being swept.
LEMMA WaitedBefore ==
    ASSUME IInv, FreshInv, NobodyWaits, [Next]_vars,
           NEW p \in PRIds, pull_requests'[p] # Null, pull_requests'[p].status = "OPEN",
           NEW u \in Members(NewList(p))
    PROVE  \/ users[u].is_active
           \/ \E r \in Requests : pc[r] \in SweepPoints /\ u \in sweep[r].deactivated
<1>1. CASE u \in Added(p)
  <2>1. NewList(p) # OldList(p)
    BY <1>1 DEF Added
  <2> QED BY <1>1, <2>1, AddedFrom DEF Rewritten
<1>2. CASE u \in Members(OldList(p))
  <2>1. PRExists(p)
    BY <1>2, EmptyList DEF OldList
  <2>2. pull_requests[p].status = "OPEN"
    <3>1. pull_requests[p].status \in PRStatus /\ pull_requests[p].status # "MERGED"
      BY <2>1, StepKeepsRows DEF RowsKept, IInv, TypeOK, RequestsTypeOK, TablesTypeOK,
         PRExists, GetPRByID, PullRequest
    <3> QED BY <3>1 DEF PRStatus
  <2> QED BY <1>2, <2>1, <2>2 DEF OldList, NobodyWaits
<1> QED BY <1>1, <1>2 DEF Added

\* The requests of other kinds make nobody inactive, and find nobody waiting.
LEMMA PlainStepWaits ==
    ASSUME IInv, FreshInv, CallsSent, NobodyWaits, OnlySweepsDeactivate, [Next]_vars,
           NEW r \in Requests, Step(r), pc[r] \notin SweepPoints
    PROVE  NobodyWaits'
<1>1. pc[r] \in Points /\ call[r] \in Calls
  BY StepEnds DEF CallsSent
<1>2. \A s \in Requests : pc[s] \notin SweepPoints
  BY <1>1, SweepsAlone
<1>3. SUFFICES ASSUME NEW p \in PRIds, pull_requests'[p] # Null,
                      pull_requests'[p].status = "OPEN",
                      NEW u \in Members(NewList(p)), ~users'[u].is_active
               PROVE  pc'[r] \in SweepPoints /\ u \in sweep'[r].deactivated
  BY DEF NobodyWaits, NewList, PRExists, GetPRByID
<1>4. users[u].is_active
  BY <1>2, <1>3, WaitedBefore
<1>5. u \in UserIds
  <2>1. pull_requests' \in [PRIds -> {Null} \cup PullRequest]
    BY NextKeeps DEF IInv, TypeOK, RequestsTypeOK, TablesTypeOK
  <2>2. NewList(p) \in Seq(UserIds)
    BY <1>3, <2>1 DEF NewList, PullRequest
  <2> QED BY <2>2 DEF Members
<1>6. ~UNCHANGED users
  BY <1>3, <1>4
<1>7. CASE pc[r] = "CreateTeam.CreateTeam" /\ CreateTeamTx(call[r].team, call[r].members)
  <2>1. call[r] \in CreateTeamCall /\ call[r].op = "CreateTeam"
    BY <1>7 DEF IInv, TypeOK, CreateTeamPoints, CreateTeamCall
  <2>2. users'[u] = IF u \in DOMAIN call[r].members
                    THEN [team_name |-> call[r].team, is_active |-> call[r].members[u]]
                    ELSE users[u]
    BY <1>5, <1>7 DEF CreateTeamTx
  <2> QED BY <1>1, <1>3, <1>4, <2>1, <2>2 DEF OnlySweepsDeactivate
<1>8. CASE /\ pc[r] = "SetUserActive.SetUserActive"
           /\ UserExists(call[r].user)
           /\ SetUserActive(call[r].user, call[r].is_active)
  <2>1. call[r] \in SetActiveCall
    BY <1>8 DEF IInv, TypeOK, SetActivePoints
  <2>2. /\ call[r].op = "SetUserActive" /\ call[r].user \in UserIds
        /\ call[r].is_active \in BOOLEAN
    BY <2>1 DEF SetActiveCall
  <2> QED BY <1>1, <1>3, <1>4, <1>5, <1>8, <2>2, ActivityRows DEF OnlySweepsDeactivate
<1>9. CASE /\ pc[r] = "Deactivate.DeactivateUsersByTeam"
            /\ DeactivateUsersByTeam(call[r].team, call[r].user_ids)
  <2>1. Deactivate_DeactivateUsersByTeam(r)
    <3>1. call[r] \in DeactivateCall /\ call[r].op = "DeactivateTeamUsers"
      BY <1>9 DEF IInv, TypeOK, DeactivatePoints, DeactivateCall
    <3>2. DeactivateTeamUsers(r)
      BY <3>1, OperationOf
    <3> QED BY <1>9, <3>2 DEF DeactivateTeamUsers, Deactivate_TeamExists,
       Deactivate_GetOpenPRsByReviewers, Deactivate_NextPR, Deactivate_LoopEnds,
       Deactivate_KeepReviewer, Deactivate_GetUserByID, Deactivate_GetActiveUsersByTeam,
       Deactivate_ReviewersDone, Deactivate_BulkUpdatePRReviewers, AtReviewer
  <2> DEFINE ids == UsersToDeactivate(call[r].team, call[r].user_ids)
  <2>2. u \in ids
    BY <1>3, <1>4, <1>5, <1>9, DeactivatedRows
  <2>3. /\ Goto(r, "Deactivate.GetOpenPRsByReviewers")
        /\ sweep' = [sweep EXCEPT ![r].deactivated = ids]
    BY <2>1, <2>2 DEF Deactivate_DeactivateUsersByTeam, OnlySweepsDeactivate, Fails
  <2>4. sweep \in [Requests -> Sweep] /\ pc \in [Requests -> {"idle", "done"} \cup Points]
    BY DEF IInv, TypeOK, RequestsTypeOK
  <2> HIDE DEF ids
  <2> QED BY <2>2, <2>3, <2>4 DEF Goto, Sweep, SweepPoints, DeactivatePoints
<1> QED BY <1>6, <1>7, <1>8, <1>9, WritesOfUsers

\* A sweep that goes on keeps its users, one that ends leaves none of them waiting.
LEMMA SweepStepWaits ==
    ASSUME IInv, FreshInv, NobodyWaits, OnlySweepsDeactivate, [Next]_vars,
           NEW r \in Requests, Step(r), pc[r] \in SweepPoints
    PROVE  NobodyWaits'
<1>1. DeactivateTeamUsers(r)
  BY SweepIs, OperationOf DEF DeactivateCall
<1>2. \A s \in Requests \ {r} : pc[s] \notin SweepPoints
  BY StepEnds, SweepsAlone
<1>3. SUFFICES ASSUME NEW p \in PRIds, pull_requests'[p] # Null,
                      pull_requests'[p].status = "OPEN",
                      NEW u \in Members(NewList(p)), ~users'[u].is_active
               PROVE  pc'[r] \in SweepPoints /\ u \in sweep'[r].deactivated
  BY DEF NobodyWaits, NewList, PRExists, GetPRByID
<1>4. users' = users
  BY <1>1, SweepGoesOn DEF tables
<1>5. u \in sweep[r].deactivated
  BY <1>2, <1>3, <1>4, WaitedBefore
<1>6. ~Finish(r, "OK")
  BY <1>1, <1>3, <1>5, SweepEnds, SweepIs
<1> QED BY <1>1, <1>5, <1>6, SweepGoesOn

\* With no deactivation under way, no open pull request waits for an inactive
\* reviewer: a deactivation in which nothing fails takes effect as a whole.
THEOREM DeactivationsAreAllOrNothing ==
    ASSUME OnlySweepsDeactivate
    PROVE  ConflictFreeSpec => []DeactivationAllOrNothing
<1>1. Init => CallsSent /\ NobodyWaits
  BY PointsOf DEF Init, CallsSent, NobodyWaits, OnlySweepsDeactivate, PRExists, GetPRByID
<1>2. ASSUME IInv, FreshInv, CallsSent, NobodyWaits, [Next]_vars
      PROVE  CallsSent' /\ NobodyWaits'
  <2>1. ASSUME NEW r \in Requests, Step(r) PROVE NobodyWaits'
    BY <1>2, <2>1, PlainStepWaits, SweepStepWaits
  <2>2. ASSUME NEW r \in Requests, Submit(r) PROVE NobodyWaits'
    <3>1. /\ UNCHANGED <<tables, sweep>>
          /\ \A s \in Requests : pc[s] \in SweepPoints => pc'[s] = pc[s]
      BY <1>2, <2>2, PointsOf DEF Submit, locals, IInv, TypeOK, RequestsTypeOK
    <3> QED BY <1>2, <3>1 DEF NobodyWaits, tables, PRExists, GetPRByID
  <2>3. ASSUME UNCHANGED vars PROVE NobodyWaits'
    <3>1. UNCHANGED <<users, pull_requests, pc, sweep>>
      BY <2>3 DEF vars, tables, locals
    <3> QED BY <1>2, <3>1 DEF NobodyWaits, PRExists, GetPRByID
  <2>4. ~Restart
    BY DEF Restart, OnlySweepsDeactivate
  <2> QED BY <1>2, <2>1, <2>2, <2>3, <2>4, CallsStaySent DEF Next, Quiescent
<1>3. IInv /\ FreshInv /\ NobodyWaits => DeactivationAllOrNothing
  <2> SUFFICES ASSUME IInv, FreshInv, NobodyWaits,
                      \A r \in InFlight : call[r].op # "DeactivateTeamUsers"
               PROVE  \A r \in Requests : pc[r] \notin SweepPoints
    BY DEF DeactivationAllOrNothing, NobodyWaits
  <2> QED BY SweepIs DEF InFlight, DeactivateCall
<1> QED BY <1>1, <1>2, <1>3, FreshInvariance, PTL DEF ConflictFreeSpec
=============================================================================
