----------------------------- MODULE ReadsProofs -----------------------------
(***************************************************************************)
(* Proofs about the requests that only read.                               *)
(*                                                                         *)
(* They change no table, so a behaviour with readers is a behaviour of the *)
(* review service (ReadsAreHarmless), and its invariants hold beside them. *)
(* What a reader has seen stays true because tables only grow: each count  *)
(* is the cardinality of a finite set that no step shrinks.  That /stats   *)
(* covers what clients had been told before they asked needs AnswersHold   *)
(* at the moment of its first statement, and that answered requests never  *)
(* change; ReadersOK carries both from statement to statement.             *)
(***************************************************************************)
EXTENDS Reads, AnswersProofs

\* No statement of GetStats has run yet, and no row was read.
Unread == {"idle", "GetTeam", "Reviews.GetUserByID", "Reviews.GetPRsByReviewer",
           "Stats.pull_requests"}

PullRequestsCounted(q) ==
    \/ rpc[q] \in {"Stats.assignments", "Stats.users", "Stats.teams"}
    \/ q \in AnsweredStats

UsersCounted(q) == rpc[q] = "Stats.teams" \/ q \in AnsweredStats

AtOwnOperation(q) ==
    /\ rpc[q] = "GetTeam" => rcall[q].op = "GetTeam"
    /\ rpc[q] \in {"Reviews.GetUserByID", "Reviews.GetPRsByReviewer"} =>
          rcall[q].op = "GetPRsByReviewer"

\* What a reader carries from statement to statement.
ReaderOK(q) ==
    /\ AtOwnOperation(q)
    /\ rpc[q] # "done" => rresp[q] = "none"
    /\ rpc[q] \in Unread => seen[q] = NothingSeen
    /\ \A r \in before[q] : pc[r] = "done"
    /\ PullRequestsCounted(q) =>
          /\ Cardinality(Told(q, "CreatePR") \cup Seeded) <= seen[q].total_prs
          /\ Cardinality(Told(q, "MergePR")) <= seen[q].merged_prs
    /\ UsersCounted(q) => Cardinality(Counted(q)) <= seen[q].total_users

ReadersOK == \A q \in Readers : ReaderOK(q)

-----------------------------------------------------------------------------
\* Requests that only read leave the service as it is: beside them, tables and
\* writing requests behave as they do without.
THEOREM ReadsAreHarmless == ReadsSpec => Spec
<1>1. ReadsInit => Init
  BY DEF ReadsInit
<1>2. [ReadsNext]_<<vars, readVars>> => [Next]_vars
  BY DEF ReadsNext, ReadsQuiescent, Next
<1> QED BY <1>1, <1>2, PTL DEF ReadsSpec, Spec

-----------------------------------------------------------------------------
(* Tables only grow.                                                       *)

\* No step removes a pull request that was there at the start.
SeedsStay == \A p \in Seeded : PRExists(p)

LEMMA SeedsAreKept == Spec => []SeedsStay
<1>1. Init => SeedsStay
  BY DEF Init, SeedsStay, Seeded, PRExists, GetPRByID
<1>2. ASSUME IInv, SeedsStay, [Next]_vars PROVE SeedsStay'
  BY <1>2, StepKeepsRows, NextKeeps DEF SeedsStay, Seeded, RowsKept, PRExists, GetPRByID
<1> QED BY <1>1, <1>2, Invariance, PTL DEF Spec

\* No step removes a user.
LEMMA UsersStay ==
    ASSUME IInv, [Next]_vars
    PROVE  Registered \subseteq Registered'
<1>1. Safe => Registered \subseteq Registered'
  BY DEF Safe, Grows
<1>2. CASE UNCHANGED users
  BY <1>2 DEF Registered, UserExists, GetUserByID
<1>3. ASSUME NEW r \in Requests, CreateTeam_CreateTeam(r) PROVE Registered \subseteq Registered'
  <2>1. call[r].team \in TeamNames /\ call[r].members \in TeamMembers
    BY <1>3 DEF CreateTeam_CreateTeam, CreateTeamPoints, CreateTeamCall, IInv, TypeOK
  <2> QED BY <1>1, <1>3, <2>1, ReadSafe, CreateTeamSafe DEF CreateTeam_CreateTeam
<1>4. ASSUME NEW r \in Requests, SetUserActive_SetUserActive(r)
      PROVE  Registered \subseteq Registered'
  <2>1. call[r].user \in UserIds /\ call[r].is_active \in BOOLEAN
    BY <1>4 DEF SetUserActive_SetUserActive, SetActivePoints, SetActiveCall, IInv, TypeOK
  <2> QED BY <1>1, <1>4, <2>1, ReadSafe, SetUserActiveSafe DEF SetUserActive_SetUserActive
<1>5. ASSUME NEW r \in Requests, Deactivate_DeactivateUsersByTeam(r)
      PROVE  Registered \subseteq Registered'
  <2>1. call[r].team \in TeamNames /\ call[r].user_ids \in SUBSET UserIds
    BY <1>5 DEF Deactivate_DeactivateUsersByTeam, DeactivatePoints, DeactivateCall,
                IInv, TypeOK
  <2> QED BY <1>1, <1>5, <2>1, ReadSafe, DeactivateSafe DEF Deactivate_DeactivateUsersByTeam
<1>6. ASSUME NEW r \in Requests, Step(r), ~UNCHANGED users
      PROVE  \/ CreateTeam_CreateTeam(r)
             \/ SetUserActive_SetUserActive(r)
             \/ Deactivate_DeactivateUsersByTeam(r)
  <2>1. CASE CreatePR(r)
    BY <1>6, <2>1 DEF CreatePR, CreatePR_PRExists, CreatePR_GetUserByID,
       CreatePR_GetActiveUsersByTeam, CreatePR_CreatePR, InsertPR, CreatePR_GetPRByID, tables
  <2>2. CASE MergePR(r) \/ ReassignReviewer(r)
    BY <1>6, <2>2 DEF MergePR, MergePR_GetPRByID, MergePR_UpdatePRStatusWithMergedAt,
       UpdatePRStatusWithMergedAt, ReassignReviewer, Reassign_GetPRByID,
       Reassign_GetUserByID, Reassign_GetActiveUsersByTeam, Reassign_UpdatePRReviewers,
       UpdatePRReviewers, tables
  <2>3. CASE CreateTeam(r) \/ SetActive(r)
    BY <1>6, <2>3 DEF CreateTeam, CreateTeam_TeamExists, CreateTeam_GetTeam, SetActive,
       SetUserActive_GetUserByID, tables
  <2>4. CASE DeactivateTeamUsers(r)
    BY <1>6, <2>4 DEF DeactivateTeamUsers, Deactivate_TeamExists,
       Deactivate_GetOpenPRsByReviewers, Deactivate_NextPR, Deactivate_LoopEnds,
       Deactivate_KeepReviewer, Deactivate_GetUserByID,
       Deactivate_GetActiveUsersByTeam, Deactivate_ReviewersDone,
       Deactivate_BulkUpdatePRReviewers, BulkUpdatePRReviewers, tables
  <2> QED BY <1>6, <2>1, <2>2, <2>3, <2>4 DEF Step
<1>7. ASSUME ~UNCHANGED users
      PROVE  \E r \in Requests : Step(r)
  BY <1>7 DEF Next, Submit, Restart, Quiescent, vars, tables
<1> QED BY <1>2, <1>3, <1>4, <1>5, <1>6, <1>7

\* What the statements of the readers count.
LEMMA CountsAreFinite ==
    ASSUME IInv
    PROVE  /\ IsFiniteSet(PRsWithStatus(PRStatus))
           /\ IsFiniteSet(PRsWithStatus({"OPEN"}))
           /\ IsFiniteSet(PRsWithStatus({"MERGED"}))
           /\ IsFiniteSet(Registered)
           /\ \A u \in UserIds : IsFiniteSet(Assignments(u))
           /\ IsFiniteSet({users[u].team_name : u \in Registered})
<1>1. ASSUME NEW statuses PROVE IsFiniteSet(PRsWithStatus(statuses))
  <2>1. PRsWithStatus(statuses) \in SUBSET PRIds
    BY DEF PRsWithStatus
  <2> QED BY <2>1, ReadsAssumption, FS_Subset
<1>2. IsFiniteSet(Registered)
  <2>1. Registered \in SUBSET UserIds
    BY DEF Registered
  <2> QED BY <2>1, RepositoryAssumption, FS_Subset
<1>3. ASSUME NEW u \in UserIds PROVE IsFiniteSet(Assignments(u))
  <2>1. IsFiniteSet(PRIds \X (1 .. ReviewerCap))
    <3>1. 1 \in Int /\ ReviewerCap \in Int
      BY RequestsAssumption
    <3>2. IsFiniteSet(1 .. ReviewerCap)
      BY <3>1, FS_Interval
    <3> QED BY <3>2, ReadsAssumption, FS_Product
  <2>2. ASSUME NEW p \in PRIds, PRExists(p)
        PROVE  DOMAIN pull_requests[p].assigned_reviewers \subseteq 1 .. ReviewerCap
    <3>1. /\ pull_requests[p].assigned_reviewers \in Seq(UserIds)
          /\ Len(pull_requests[p].assigned_reviewers) <= ReviewerCap
      BY <2>2 DEF IInv, TypeOK, RequestsTypeOK, TablesTypeOK, PRExists, GetPRByID,
                  PullRequest, ReviewersWellFormed, RowOK, ListOK, WellFormed
    <3> QED BY <3>1, RequestsAssumption
  <2>3. Assignments(u) \in SUBSET (PRIds \X (1 .. ReviewerCap))
    BY <2>2 DEF Assignments
  <2> QED BY <2>1, <2>3, FS_Subset
<1>4. IsFiniteSet({users[u].team_name : u \in Registered})
  <2> DEFINE T == {users[u].team_name : u \in Registered}
             f == [u \in Registered |-> users[u].team_name]
  <2>1. f \in Surjection(Registered, T)
    BY DEF Surjection
  <2> QED BY <1>2, <2>1, FS_Surjection
<1> QED BY <1>1, <1>2, <1>3, <1>4

\* Nothing that a reader has counted or shown is taken back by a step.
LEMMA TablesOnlyGrow ==
    ASSUME IInv, [Next]_vars
    PROVE  /\ PRsWithStatus(PRStatus) \subseteq PRsWithStatus(PRStatus)'
           /\ PRsWithStatus({"MERGED"}) \subseteq PRsWithStatus({"MERGED"})'
           /\ Registered \subseteq Registered'
<1>1. IInv' /\ RowsKept
  BY StepKeepsRows, NextKeeps
<1>2. \A p \in PRIds : PRExists(p)' => pull_requests'[p].status \in PRStatus
  BY <1>1 DEF IInv, TypeOK, RequestsTypeOK, TablesTypeOK, PullRequest, PRExists, GetPRByID
<1> QED BY <1>1, <1>2, UsersStay DEF PRsWithStatus, RowsKept

-----------------------------------------------------------------------------
(* Readers that a step leaves alone.                                       *)

ReaderStays(q) == /\ rpc'[q] = rpc[q]
                  /\ rcall'[q] = rcall[q]
                  /\ rresp'[q] = rresp[q]
                  /\ seen'[q] = seen[q]
                  /\ before'[q] = before[q]

\* What q has seen is true of the tables as they are.
StaysTrue(q) ==
    /\ seen[q].total_prs <= Cardinality(PRsWithStatus(PRStatus))
    /\ seen[q].merged_prs <= Cardinality(PRsWithStatus({"MERGED"}))
    /\ seen[q].total_users <= Cardinality(Registered)
    /\ seen[q].members \cup Counted(q) \subseteq Registered
    /\ \A p \in PRIds :
          LET row == seen[q].pull_requests[p]
          IN  row # Null =>
                /\ PRExists(p)
                /\ row.author_id = pull_requests[p].author_id
                /\ row.status = "MERGED" => pull_requests[p].status = "MERGED"

ReadsInv == /\ ReadsTypeOK
            /\ \A q \in Readers : StaysTrue(q) /\ ReaderOK(q)

\* The numbers that a reader answers with are numbers.
LEMMA SeenType ==
    ASSUME ReadsTypeOK, NEW q \in Readers
    PROVE  /\ seen[q] \in Seen
           /\ seen[q].total_prs \in Nat
           /\ seen[q].merged_prs \in Nat
           /\ seen[q].total_users \in Nat
           /\ seen[q].assignments_by_user \in [UserIds -> Nat]
           /\ Counted(q) \subseteq UserIds
  BY DEF ReadsTypeOK, Seen, Counted

\* A set that contains another is no smaller.
LEMMA NoSmaller ==
    ASSUME NEW S, NEW T, S \subseteq T, IsFiniteSet(T)
    PROVE  /\ Cardinality(S) \in Nat
           /\ Cardinality(T) \in Nat
           /\ Cardinality(S) <= Cardinality(T)
  BY FS_Subset, FS_CardinalityType

\* What was true of the tables when q read them is true after any step.
LEMMA StaysTrueKept ==
    ASSUME IInv, [Next]_vars, ReadsTypeOK, NEW q \in Readers, StaysTrue(q),
           seen'[q] = seen[q]
    PROVE  StaysTrue(q)'
<1>1. RowsKept /\ IInv'
  BY StepKeepsRows, NextKeeps
<1>2. /\ IsFiniteSet(PRsWithStatus(PRStatus)')
      /\ IsFiniteSet(PRsWithStatus({"MERGED"})')
      /\ IsFiniteSet(Registered')
  <2>1. /\ PRsWithStatus(PRStatus)' \in SUBSET PRIds
        /\ PRsWithStatus({"MERGED"})' \in SUBSET PRIds
        /\ Registered' \in SUBSET UserIds
    BY DEF PRsWithStatus, Registered
  <2> QED BY <2>1, ReadsAssumption, RepositoryAssumption, FS_Subset
<1>3. /\ Cardinality(PRsWithStatus(PRStatus)) <= Cardinality(PRsWithStatus(PRStatus)')
      /\ Cardinality(PRsWithStatus(PRStatus)) \in Nat
      /\ Cardinality(PRsWithStatus(PRStatus)') \in Nat
  BY <1>2, TablesOnlyGrow, NoSmaller
<1>4. /\ Cardinality(PRsWithStatus({"MERGED"})) <= Cardinality(PRsWithStatus({"MERGED"})')
      /\ Cardinality(PRsWithStatus({"MERGED"})) \in Nat
      /\ Cardinality(PRsWithStatus({"MERGED"})') \in Nat
  BY <1>2, TablesOnlyGrow, NoSmaller
<1>5. /\ Cardinality(Registered) <= Cardinality(Registered')
      /\ Cardinality(Registered) \in Nat
      /\ Cardinality(Registered') \in Nat
  BY <1>2, TablesOnlyGrow, NoSmaller
<1>6. /\ seen'[q].total_prs <= Cardinality(PRsWithStatus(PRStatus)')
      /\ seen'[q].merged_prs <= Cardinality(PRsWithStatus({"MERGED"})')
      /\ seen'[q].total_users <= Cardinality(Registered')
  BY <1>3, <1>4, <1>5, SeenType DEF StaysTrue
<1>7. Counted(q)' = Counted(q)
  BY DEF Counted
<1>8. seen'[q].members \cup Counted(q)' \subseteq Registered'
  BY <1>7, TablesOnlyGrow DEF StaysTrue
<1>9. ASSUME NEW p \in PRIds, seen'[q].pull_requests[p] # Null
      PROVE  /\ pull_requests'[p] # Null
             /\ seen'[q].pull_requests[p].author_id = pull_requests'[p].author_id
             /\ seen'[q].pull_requests[p].status = "MERGED" =>
                   pull_requests'[p].status = "MERGED"
  BY <1>1, <1>9 DEF StaysTrue, RowsKept, PRExists, GetPRByID
<1> QED BY <1>6, <1>8, <1>9 DEF StaysTrue, PRExists, GetPRByID

\* What q was told before it asked is what it was told before it asked.
LEMMA ToldKept ==
    ASSUME IInv, [Next]_vars, ReadsTypeOK, NEW q \in Readers, ReaderOK(q),
           before'[q] = before[q], NEW op
    PROVE  /\ Told(q, op)' = Told(q, op)
           /\ \A r \in before'[q] : pc'[r] = "done"
<1>1. before[q] \subseteq Requests
  BY DEF ReadsTypeOK
<1>2. \A r \in before[q] : pc'[r] = "done" /\ resp'[r] = resp[r] /\ call'[r] = call[r]
  BY <1>1, DoneStays DEF ReaderOK
<1>3. \A r \in before[q] : r \in Answered(op, "OK")' <=> r \in Answered(op, "OK")
  BY <1>1, <1>2 DEF Answered
<1> QED BY <1>2, <1>3 DEF Told

\* A reader that the step leaves alone still carries what it may carry.
LEMMA ReaderKept ==
    ASSUME IInv, [Next]_vars, ReadsTypeOK, NEW q \in Readers, ReaderOK(q), StaysTrue(q),
           ReaderStays(q)
    PROVE  ReaderOK(q)' /\ StaysTrue(q)'
<1> USE DEF ReaderStays
<1>1. /\ PullRequestsCounted(q)' <=> PullRequestsCounted(q)
      /\ UsersCounted(q)' <=> UsersCounted(q)
      /\ AtOwnOperation(q)' <=> AtOwnOperation(q)
      /\ Counted(q)' = Counted(q)
  BY DEF PullRequestsCounted, UsersCounted, AtOwnOperation, AnsweredStats, Counted
<1>2. ReaderOK(q)'
  BY <1>1, ToldKept DEF ReaderOK
<1> QED BY <1>2, StaysTrueKept

\* So do all readers beside a step of the service.
LEMMA WritesKeepReaders ==
    ASSUME IInv, [Next]_vars, ReadsInv, UNCHANGED readVars
    PROVE  ReadsInv'
<1>1. ReadsTypeOK'
  BY DEF ReadsInv, ReadsTypeOK, readVars
<1>2. \A q \in Readers : ReaderStays(q)
  BY DEF ReaderStays, readVars
<1> QED BY <1>1, <1>2, ReaderKept DEF ReadsInv

-----------------------------------------------------------------------------
(* The steps of the readers.                                               *)

\* Nothing was seen before the first statement.
LEMMA NothingSeenOK ==
    ASSUME IInv
    PROVE  /\ NothingSeen \in Seen
           /\ NothingSeen.members = {}
           /\ NothingSeen.pull_requests = [p \in PRIds |-> Null]
           /\ NothingSeen.total_prs = 0
           /\ NothingSeen.merged_prs = 0
           /\ NothingSeen.total_users = 0
           /\ NothingSeen.assignments_by_user = [u \in UserIds |-> 0]
  BY DEF NothingSeen, Seen

\* A reader that has seen nothing has seen nothing that could be taken back.
LEMMA NothingSeenStaysTrue ==
    ASSUME IInv, NEW q \in Readers, seen[q] = NothingSeen
    PROVE  StaysTrue(q)
<1>1. /\ Cardinality(PRsWithStatus(PRStatus)) \in Nat
      /\ Cardinality(PRsWithStatus({"MERGED"})) \in Nat
      /\ Cardinality(Registered) \in Nat
  BY CountsAreFinite, FS_CardinalityType
<1>2. Counted(q) = {}
  BY NothingSeenOK DEF Counted
<1> QED BY <1>1, <1>2, NothingSeenOK DEF StaysTrue

LEMMA NothingSeenAfter ==
    ASSUME IInv, UNCHANGED tables, NEW q \in Readers, seen'[q] = NothingSeen
    PROVE  StaysTrue(q)'
<1>1. /\ Cardinality(PRsWithStatus(PRStatus)) \in Nat
      /\ Cardinality(PRsWithStatus({"MERGED"})) \in Nat
      /\ Cardinality(Registered) \in Nat
  BY CountsAreFinite, FS_CardinalityType
<1>2. /\ PRsWithStatus(PRStatus)' = PRsWithStatus(PRStatus)
      /\ PRsWithStatus({"MERGED"})' = PRsWithStatus({"MERGED"})
      /\ Registered' = Registered
  BY DEF PRsWithStatus, PRExists, GetPRByID, Registered, UserExists, GetUserByID, tables
<1>3. Counted(q)' = {}
  BY NothingSeenOK DEF Counted
<1> QED BY <1>1, <1>2, <1>3, NothingSeenOK DEF StaysTrue

\* A step of reader q that ends it, or takes it to another point, is fine when
\* what q carries afterwards is.
LEMMA ReaderMoves ==
    ASSUME IInv, ReadsInv, NEW q \in Readers, UNCHANGED vars,
           NEW point \in {"done"} \cup ReadPoints, NEW answer \in ReadAnswers,
           NEW row \in Seen,
           rpc' = [rpc EXCEPT ![q] = point],
           rresp' = [rresp EXCEPT ![q] = answer],
           seen' = [seen EXCEPT ![q] = row],
           UNCHANGED <<rcall, before>>,
           rpc[q] # "idle",
           point \in StatsPoints => rcall[q].op \in {"GetStats", "Health"},
           answer \notin {"none", "OK"} => row = NothingSeen,
           ReaderOK(q)', StaysTrue(q)'
    PROVE  ReadsInv'
<1> USE DEF ReadsInv
<1>1. /\ rpc' \in [Readers -> {"idle", "done"} \cup ReadPoints]
      /\ rresp' \in [Readers -> ReadAnswers]
      /\ seen' \in [Readers -> Seen]
      /\ rcall' = rcall /\ before' = before
  BY DEF ReadsTypeOK
<1>2. \A s \in Readers \ {q} : ReaderStays(s)
  BY DEF ReadsTypeOK, ReaderStays
<1>3. rpc'[q] = point /\ rresp'[q] = answer /\ seen'[q] = row
  BY DEF ReadsTypeOK
<1>4. ReadsTypeOK'
  BY <1>1, <1>2, <1>3 DEF ReadsTypeOK, ReaderStays
<1>5. \A s \in Readers \ {q} : ReaderOK(s)' /\ StaysTrue(s)'
  BY <1>2, ReaderKept
<1> QED BY <1>4, <1>5

\* An answer names only what the reader's call is about; while a reader waits it
\* has no answer.
LEMMA ReaderAt ==
    ASSUME ReadsInv, NEW q \in Readers, rpc[q] \in ReadPoints
    PROVE  /\ rresp[q] = "none"
           /\ rpc[q] # "idle" /\ rpc[q] # "done"
           /\ q \notin AnsweredStats
           /\ rpc[q] \in StatsPoints => rcall[q].op \in {"GetStats", "Health"}
           /\ rpc[q] = "GetTeam" => rcall[q].op = "GetTeam"
           /\ rpc[q] \in {"Reviews.GetUserByID", "Reviews.GetPRsByReviewer"} =>
                 rcall[q].op = "GetPRsByReviewer"
           /\ seen[q] \in Seen
<1>1. rpc[q] # "idle" /\ rpc[q] # "done"
  BY DEF ReadPoints
<1> QED BY <1>1 DEF ReadsInv, ReadsTypeOK, ReaderOK, AtOwnOperation, AnsweredStats

\* The locals of q after a step that leaves its history alone.
LEMMA ReaderAfter ==
    ASSUME IInv, ReadsInv, NEW q \in Readers, UNCHANGED vars, UNCHANGED <<rcall, before>>
    PROVE  /\ Told(q, "CreatePR")' = Told(q, "CreatePR")
           /\ Told(q, "MergePR")' = Told(q, "MergePR")
           /\ \A r \in before'[q] : pc'[r] = "done"
  BY ToldKept DEF ReadsInv

-----------------------------------------------------------------------------
\* /team/get: the members that are shown are registered.
LEMMA ReadGetTeamKeeps ==
    ASSUME IInv, ReadsInv, NEW q \in Readers, UNCHANGED vars, ReadGetTeam(q)
    PROVE  ReadsInv'
<1> DEFINE answer == IF GetTeam(rcall[q].team) = {} THEN "ErrTeamNotFound" ELSE "OK"
           row == [seen[q] EXCEPT !.members = GetTeam(rcall[q].team)]
<1>1. /\ rpc[q] = "GetTeam" /\ rpc[q] \in ReadPoints
      /\ seen[q] = NothingSeen /\ StaysTrue(q)
  BY DEF ReadGetTeam, ReadPoints, ReadsInv, ReaderOK, Unread
<1>2. GetTeam(rcall[q].team) \subseteq Registered /\ Registered \subseteq UserIds
  BY DEF GetTeam, GetUsersByTeam, Registered
<1>3. /\ row \in Seen
      /\ row.members \subseteq Registered
      /\ row.pull_requests = seen[q].pull_requests
      /\ row.total_prs = seen[q].total_prs /\ row.merged_prs = seen[q].merged_prs
      /\ row.total_users = seen[q].total_users
      /\ row.assignments_by_user = seen[q].assignments_by_user
      /\ answer # "OK" => row = NothingSeen
  <2>1. seen[q] \in Seen
    BY <1>1, ReaderAt
  <2>2. GetTeam(rcall[q].team) \in SUBSET UserIds
    BY <1>2
  <2> HIDE DEF answer
  <2>3. row \in Seen
    BY <2>1, <2>2 DEF Seen
  <2>4. /\ row.members = GetTeam(rcall[q].team)
        /\ row.pull_requests = seen[q].pull_requests
        /\ row.total_prs = seen[q].total_prs /\ row.merged_prs = seen[q].merged_prs
        /\ row.total_users = seen[q].total_users
        /\ row.assignments_by_user = seen[q].assignments_by_user
    BY <2>1 DEF Seen
  <2>5. GetTeam(rcall[q].team) = {} => row = NothingSeen
    BY <1>1 DEF NothingSeen
  <2> HIDE DEF row
  <2> QED BY <1>2, <2>3, <2>4, <2>5 DEF answer
<1>4. answer \in ReadAnswers
  BY DEF ReadAnswers
<1>5. /\ rpc' = [rpc EXCEPT ![q] = "done"]
      /\ rresp' = [rresp EXCEPT ![q] = answer]
      /\ seen' = [seen EXCEPT ![q] = row]
      /\ UNCHANGED <<rcall, before>>
  BY DEF ReadGetTeam, ReadFinish
<1> HIDE DEF answer, row
<1>6. rpc'[q] = "done" /\ rresp'[q] = answer /\ seen'[q] = row /\ rcall'[q].op = "GetTeam"
  BY <1>1, <1>5, ReaderAt DEF ReadsInv, ReadsTypeOK
<1>7. ReaderOK(q)'
  BY <1>5, <1>6, ReaderAfter DEF ReaderOK, AtOwnOperation, Unread, PullRequestsCounted,
     UsersCounted, AnsweredStats
<1>8. StaysTrue(q)'
  <2>1. UNCHANGED tables
    BY DEF vars
  <2>2. Counted(q)' = Counted(q)
    BY <1>3, <1>6 DEF Counted
  <2> QED BY <1>1, <1>3, <1>6, <2>1, <2>2 DEF StaysTrue, PRsWithStatus, PRExists, GetPRByID,
          Registered, UserExists, GetUserByID, tables
<1>9. "done" \notin StatsPoints
  BY DEF StatsPoints
<1> QED BY <1>1, <1>3, <1>4, <1>5, <1>7, <1>8, <1>9, ReaderMoves

\* /users/getReview, first the user: nothing is read into the answer.
LEMMA Reviews_GetUserByIDKeeps ==
    ASSUME IInv, ReadsInv, NEW q \in Readers, UNCHANGED vars, Reviews_GetUserByID(q)
    PROVE  ReadsInv'
<1>1. /\ rpc[q] = "Reviews.GetUserByID" /\ rpc[q] \in ReadPoints
      /\ seen[q] = NothingSeen /\ StaysTrue(q)
      /\ rcall[q].op = "GetPRsByReviewer" /\ rresp[q] = "none"
  BY ReaderAt DEF Reviews_GetUserByID, ReadPoints, ReadsInv, ReaderOK, Unread
<1>2. PICK point \in {"done", "Reviews.GetPRsByReviewer"},
           answer \in {"none", "ErrUserNotFound"} :
         /\ rpc' = [rpc EXCEPT ![q] = point]
         /\ rresp' = [rresp EXCEPT ![q] = answer]
         /\ point = "done" \/ answer = "none"
         /\ UNCHANGED <<rcall, before, seen>>
  <2>1. rresp = [rresp EXCEPT ![q] = "none"]
    BY <1>1 DEF ReadsInv, ReadsTypeOK
  <2> QED BY <2>1 DEF Reviews_GetUserByID, ReadGoto, ReadFinish
<1>3. seen' = [seen EXCEPT ![q] = seen[q]]
  BY <1>2 DEF ReadsInv, ReadsTypeOK
<1>4. rpc'[q] = point /\ rresp'[q] = answer /\ seen'[q] = seen[q]
  BY <1>2 DEF ReadsInv, ReadsTypeOK
<1>5. ReaderOK(q)'
  BY <1>1, <1>2, <1>4, ReaderAfter DEF ReaderOK, AtOwnOperation, Unread,
     PullRequestsCounted, UsersCounted, AnsweredStats
<1>6. StaysTrue(q)'
  BY <1>1, <1>4, StaysTrueKept DEF ReadsInv
<1>7. /\ point \in {"done"} \cup ReadPoints /\ point \notin StatsPoints
      /\ answer \in ReadAnswers
  BY DEF ReadPoints, StatsPoints, ReadAnswers
<1> QED BY <1>1, <1>2, <1>3, <1>5, <1>6, <1>7, ReaderAt, ReaderMoves

\* /users/getReview, then the pull requests: copies of rows, as they are.
LEMMA Reviews_GetPRsByReviewerKeeps ==
    ASSUME IInv, ReadsInv, NEW q \in Readers, UNCHANGED vars, Reviews_GetPRsByReviewer(q)
    PROVE  ReadsInv'
<1> DEFINE found == GetPRsByReviewer(rcall[q].user)
           row == [seen[q] EXCEPT !.pull_requests = found]
<1>1. /\ rpc[q] = "Reviews.GetPRsByReviewer" /\ rpc[q] \in ReadPoints
      /\ StaysTrue(q) /\ rcall[q].op = "GetPRsByReviewer" /\ seen[q] \in Seen
      /\ AtOwnOperation(q)
  BY ReaderAt DEF Reviews_GetPRsByReviewer, ReadPoints, ReadsInv, ReaderOK
<1>2. /\ found \in [PRIds -> {Null} \cup PullRequest]
      /\ \A p \in PRIds : found[p] # Null => PRExists(p) /\ found[p] = pull_requests[p]
  BY DEF GetPRsByReviewer, IInv, TypeOK, RequestsTypeOK, TablesTypeOK
<1>3. seen' = [seen EXCEPT ![q] = row]
  BY DEF Reviews_GetPRsByReviewer
<1> HIDE DEF found
<1>4. /\ row \in Seen
      /\ row.pull_requests = found
      /\ row.members = seen[q].members
      /\ row.total_prs = seen[q].total_prs /\ row.merged_prs = seen[q].merged_prs
      /\ row.total_users = seen[q].total_users
      /\ row.assignments_by_user = seen[q].assignments_by_user
  BY <1>1, <1>2 DEF Seen
<1> HIDE DEF row
<1>5. /\ rpc' = [rpc EXCEPT ![q] = "done"]
      /\ rresp' = [rresp EXCEPT ![q] = "OK"]
      /\ UNCHANGED <<rcall, before>>
  BY DEF Reviews_GetPRsByReviewer, ReadFinish
<1>6. rpc'[q] = "done" /\ rresp'[q] = "OK" /\ seen'[q] = row
  BY <1>3, <1>5 DEF ReadsInv, ReadsTypeOK
<1>7. ReaderOK(q)'
  BY <1>1, <1>5, <1>6, ReaderAfter DEF ReaderOK, AtOwnOperation, Unread,
     PullRequestsCounted, UsersCounted, AnsweredStats
<1>8. StaysTrue(q)'
  <2>1. UNCHANGED tables
    BY DEF vars
  <2>2. Counted(q)' = Counted(q)
    BY <1>4, <1>6 DEF Counted
  <2> QED BY <1>1, <1>2, <1>4, <1>6, <2>1, <2>2 DEF StaysTrue, PRsWithStatus, PRExists,
          GetPRByID, Registered, UserExists, GetUserByID, tables
<1>9. "done" \notin StatsPoints /\ "OK" \in ReadAnswers
  BY DEF StatsPoints, ReadAnswers
<1> QED BY <1>1, <1>3, <1>4, <1>5, <1>7, <1>8, <1>9, ReaderAt, ReaderMoves

-----------------------------------------------------------------------------
(* The four statements of GetStats.                                        *)

\* The pull requests a client was told of are rows of the table, the merged ones
\* MERGED.
LEMMA ToldAreRows ==
    ASSUME IInv, AnswersInv, SeedsStay, ReadsInv, NEW q \in Readers
    PROVE  /\ Told(q, "CreatePR") \cup Seeded \subseteq PRsWithStatus(PRStatus)
           /\ Told(q, "MergePR") \subseteq PRsWithStatus({"MERGED"})
<1>1. \A p \in PRIds : PRExists(p) => pull_requests[p].status \in PRStatus
  BY DEF IInv, TypeOK, RequestsTypeOK, TablesTypeOK, PullRequest, PRExists, GetPRByID
<1>2. ASSUME NEW r \in Answered("CreatePR", "OK")
      PROVE  call[r].pr \in PRIds /\ PRExists(call[r].pr)
  BY <1>2, ClaimedId DEF Answered, AnswersInv, ClaimOK, Created, OwnsRow
<1>3. ASSUME NEW r \in Answered("MergePR", "OK")
      PROVE  /\ call[r].pr \in PRIds /\ PRExists(call[r].pr)
             /\ pull_requests[call[r].pr].status = "MERGED"
  BY <1>3, ClaimedId DEF Answered, AnswersInv, ClaimOK, ToldMerged
<1> QED BY <1>1, <1>2, <1>3 DEF Told, Seeded, SeedsStay, PRsWithStatus

\* First the pull requests: what the client was told is among what is counted.
LEMMA Stats_PullRequestsKeeps ==
    ASSUME IInv, AnswersInv, SeedsStay, ReadsInv, NEW q \in Readers, UNCHANGED vars,
           Stats_PullRequests(q)
    PROVE  ReadsInv'
<1> DEFINE total == Cardinality(PRsWithStatus(PRStatus))
           open == Cardinality(PRsWithStatus({"OPEN"}))
           merged == Cardinality(PRsWithStatus({"MERGED"}))
           row == [seen[q] EXCEPT !.total_prs = total, !.open_prs = open,
                                  !.merged_prs = merged]
<1>1. /\ rpc[q] = "Stats.pull_requests" /\ rpc[q] \in ReadPoints /\ rpc[q] \in StatsPoints
      /\ StaysTrue(q) /\ seen[q] \in Seen /\ rresp[q] = "none"
  BY ReaderAt DEF Stats_PullRequests, ReadPoints, StatsPoints, ReadsInv
<1>2. /\ total \in Nat /\ open \in Nat /\ merged \in Nat
      /\ Cardinality(Told(q, "CreatePR") \cup Seeded) <= total
      /\ Cardinality(Told(q, "MergePR")) <= merged
  BY CountsAreFinite, FS_CardinalityType, ToldAreRows, NoSmaller
<1>3. seen' = [seen EXCEPT ![q] = row]
  BY <1>1 DEF Stats_PullRequests, ReadsInv, ReadsTypeOK
<1> HIDE DEF total, open, merged
<1>4. /\ row \in Seen
      /\ row.total_prs = total /\ row.merged_prs = merged
      /\ row.members = seen[q].members
      /\ row.pull_requests = seen[q].pull_requests
      /\ row.total_users = seen[q].total_users
      /\ row.assignments_by_user = seen[q].assignments_by_user
  BY <1>1, <1>2 DEF Seen
<1> HIDE DEF row
<1>5. /\ rpc' = [rpc EXCEPT ![q] = "Stats.assignments"]
      /\ rresp' = [rresp EXCEPT ![q] = "none"]
      /\ UNCHANGED <<rcall, before>>
  BY <1>1 DEF Stats_PullRequests, ReadGoto, ReadsInv, ReadsTypeOK
<1>6. rpc'[q] = "Stats.assignments" /\ rresp'[q] = "none" /\ seen'[q] = row
  BY <1>3, <1>5 DEF ReadsInv, ReadsTypeOK
<1>7. ReaderOK(q)'
  BY <1>2, <1>4, <1>6, ReaderAfter, <1>5 DEF ReaderOK, AtOwnOperation, Unread,
     UsersCounted, AnsweredStats
<1>8. StaysTrue(q)'
  <2>1. UNCHANGED tables
    BY DEF vars
  <2>2. Counted(q)' = Counted(q)
    BY <1>4, <1>6 DEF Counted
  <2>3. total' = total /\ merged' = merged
    BY <2>1 DEF total, merged, PRsWithStatus, PRExists, GetPRByID, tables
  <2>4. /\ seen'[q].total_prs <= total' /\ seen'[q].merged_prs <= merged'
    BY <1>2, <1>4, <1>6, <2>3
  <2> QED BY <1>1, <1>4, <1>6, <2>1, <2>2, <2>4 DEF StaysTrue, total, merged, PRExists,
          GetPRByID, Registered, UserExists, GetUserByID, tables
<1>9. "Stats.assignments" \in ReadPoints /\ "none" \in ReadAnswers
  BY DEF ReadPoints, ReadAnswers
<1> QED BY <1>1, <1>3, <1>4, <1>5, <1>7, <1>8, <1>9, ReaderAt, ReaderMoves

\* Then the assignments: who is counted is named by a list, and so registered.
LEMMA Stats_AssignmentsKeeps ==
    ASSUME IInv, ReadsInv, NEW q \in Readers, UNCHANGED vars, Stats_Assignments(q)
    PROVE  ReadsInv'
<1> DEFINE counts == [u \in UserIds |-> Cardinality(Assignments(u))]
           row == [seen[q] EXCEPT !.assignments_by_user = counts]
<1>1. /\ rpc[q] = "Stats.assignments" /\ rpc[q] \in ReadPoints /\ rpc[q] \in StatsPoints
      /\ StaysTrue(q) /\ ReaderOK(q) /\ seen[q] \in Seen /\ rresp[q] = "none"
  BY ReaderAt DEF Stats_Assignments, ReadPoints, StatsPoints, ReadsInv
<1>2. counts \in [UserIds -> Nat]
  BY CountsAreFinite, FS_CardinalityType
<1>3. ASSUME NEW u \in UserIds, counts[u] > 0
      PROVE  u \in Registered
  <2>1. Assignments(u) # {}
    BY <1>3, FS_EmptySet
  <2>2. PICK p \in PRIds : PRExists(p) /\ u \in Members(pull_requests[p].assigned_reviewers)
    <3>1. PICK p \in PRIds :
             /\ PRExists(p)
             /\ \E j \in DOMAIN pull_requests[p].assigned_reviewers :
                   pull_requests[p].assigned_reviewers[j] = u
      BY <2>1 DEF Assignments
    <3>2. pull_requests[p].assigned_reviewers \in Seq(UserIds)
      BY <3>1 DEF IInv, TypeOK, RequestsTypeOK, TablesTypeOK, PullRequest, PRExists, GetPRByID
    <3> QED BY <3>1, <3>2 DEF Members
  <2> QED BY <2>2 DEF IInv, ReviewersWellFormed, RowOK, ListOK, PRExists, GetPRByID
<1>4. seen' = [seen EXCEPT ![q] = row]
  BY DEF Stats_Assignments
<1> HIDE DEF counts
<1>5. /\ row \in Seen
      /\ row.assignments_by_user = counts
      /\ row.members = seen[q].members
      /\ row.pull_requests = seen[q].pull_requests
      /\ row.total_users = seen[q].total_users
      /\ row.total_prs = seen[q].total_prs /\ row.merged_prs = seen[q].merged_prs
  BY <1>1, <1>2 DEF Seen
<1> HIDE DEF row
<1>6. /\ rpc' = [rpc EXCEPT ![q] = "Stats.users"]
      /\ rresp' = [rresp EXCEPT ![q] = "none"]
      /\ UNCHANGED <<rcall, before>>
  BY <1>1 DEF Stats_Assignments, ReadGoto, ReadsInv, ReadsTypeOK
<1>7. rpc'[q] = "Stats.users" /\ rresp'[q] = "none" /\ seen'[q] = row
  BY <1>4, <1>6 DEF ReadsInv, ReadsTypeOK
<1>8. ReaderOK(q)'
  BY <1>1, <1>5, <1>6, <1>7, ReaderAfter DEF ReaderOK, AtOwnOperation, Unread,
     PullRequestsCounted, UsersCounted, AnsweredStats
<1>9. StaysTrue(q)'
  <2>1. UNCHANGED tables
    BY DEF vars
  <2>2. Counted(q)' \subseteq Registered
    BY <1>3, <1>5, <1>7 DEF Counted
  <2> QED BY <1>1, <1>5, <1>7, <2>1, <2>2 DEF StaysTrue, PRsWithStatus, PRExists, GetPRByID,
          Registered, UserExists, GetUserByID, tables
<1>10. "Stats.users" \in ReadPoints /\ "none" \in ReadAnswers
  BY DEF ReadPoints, ReadAnswers
<1> QED BY <1>1, <1>4, <1>5, <1>6, <1>8, <1>9, <1>10, ReaderAt, ReaderMoves

\* Then the users: everyone the assignments have named is among them by now.
LEMMA Stats_UsersKeeps ==
    ASSUME IInv, ReadsInv, NEW q \in Readers, UNCHANGED vars, Stats_Users(q)
    PROVE  ReadsInv'
<1> DEFINE total == Cardinality(Registered)
           active == Cardinality({u \in Registered : users[u].is_active})
           row == [seen[q] EXCEPT !.total_users = total, !.active_users = active]
<1>1. /\ rpc[q] = "Stats.users" /\ rpc[q] \in ReadPoints /\ rpc[q] \in StatsPoints
      /\ StaysTrue(q) /\ ReaderOK(q) /\ seen[q] \in Seen /\ rresp[q] = "none"
  BY ReaderAt DEF Stats_Users, ReadPoints, StatsPoints, ReadsInv
<1>2. /\ total \in Nat /\ active \in Nat
      /\ Cardinality(Counted(q)) <= total
  <2>1. Counted(q) \subseteq Registered
    BY <1>1 DEF StaysTrue
  <2>2. {u \in Registered : users[u].is_active} \subseteq Registered
    OBVIOUS
  <2> QED BY <2>1, <2>2, CountsAreFinite, NoSmaller
<1>3. seen' = [seen EXCEPT ![q] = row]
  BY <1>1 DEF Stats_Users, ReadsInv, ReadsTypeOK
<1> HIDE DEF total, active
<1>4. /\ row \in Seen
      /\ row.total_users = total
      /\ row.members = seen[q].members
      /\ row.pull_requests = seen[q].pull_requests
      /\ row.assignments_by_user = seen[q].assignments_by_user
      /\ row.total_prs = seen[q].total_prs /\ row.merged_prs = seen[q].merged_prs
  BY <1>1, <1>2 DEF Seen
<1> HIDE DEF row
<1>5. /\ rpc' = [rpc EXCEPT ![q] = "Stats.teams"]
      /\ rresp' = [rresp EXCEPT ![q] = "none"]
      /\ UNCHANGED <<rcall, before>>
  BY <1>1 DEF Stats_Users, ReadGoto, ReadsInv, ReadsTypeOK
<1>6. rpc'[q] = "Stats.teams" /\ rresp'[q] = "none" /\ seen'[q] = row
  BY <1>3, <1>5 DEF ReadsInv, ReadsTypeOK
<1>7. Counted(q)' = Counted(q)
  BY <1>4, <1>6 DEF Counted
<1>8. ReaderOK(q)'
  BY <1>1, <1>2, <1>4, <1>5, <1>6, <1>7, ReaderAfter DEF ReaderOK, AtOwnOperation,
     Unread, PullRequestsCounted
<1>9. StaysTrue(q)'
  <2>1. UNCHANGED tables
    BY DEF vars
  <2>2. total' = total
    BY <2>1 DEF total, Registered, UserExists, GetUserByID, tables
  <2>3. seen'[q].total_users <= total'
    BY <1>2, <1>4, <1>6, <2>2
  <2> QED BY <1>1, <1>4, <1>6, <1>7, <2>1, <2>3 DEF StaysTrue, total, PRsWithStatus,
          PRExists, GetPRByID, Registered, UserExists, GetUserByID, tables
<1>10. "Stats.teams" \in ReadPoints /\ "none" \in ReadAnswers
  BY DEF ReadPoints, ReadAnswers
<1> QED BY <1>1, <1>3, <1>4, <1>5, <1>8, <1>9, <1>10, ReaderAt, ReaderMoves

\* The teams come last, and with them the answer.
LEMMA Stats_TeamsKeeps ==
    ASSUME IInv, ReadsInv, NEW q \in Readers, UNCHANGED vars, Stats_Teams(q)
    PROVE  ReadsInv'
<1> DEFINE total == Cardinality({users[u].team_name : u \in Registered})
           row == [seen[q] EXCEPT !.total_teams = total]
<1>1. /\ rpc[q] = "Stats.teams" /\ rpc[q] \in ReadPoints /\ rpc[q] \in StatsPoints
      /\ StaysTrue(q) /\ ReaderOK(q) /\ seen[q] \in Seen
  BY ReaderAt DEF Stats_Teams, ReadPoints, StatsPoints, ReadsInv
<1>2. total \in Nat
  BY CountsAreFinite, FS_CardinalityType
<1>3. seen' = [seen EXCEPT ![q] = row]
  BY DEF Stats_Teams
<1> HIDE DEF total
<1>4. /\ row \in Seen
      /\ row.total_users = seen[q].total_users
      /\ row.members = seen[q].members
      /\ row.pull_requests = seen[q].pull_requests
      /\ row.assignments_by_user = seen[q].assignments_by_user
      /\ row.total_prs = seen[q].total_prs /\ row.merged_prs = seen[q].merged_prs
  BY <1>1, <1>2 DEF Seen
<1> HIDE DEF row
<1>5. /\ rpc' = [rpc EXCEPT ![q] = "done"]
      /\ rresp' = [rresp EXCEPT ![q] = "OK"]
      /\ UNCHANGED <<rcall, before>>
  BY DEF Stats_Teams, ReadFinish
<1>6. rpc'[q] = "done" /\ rresp'[q] = "OK" /\ seen'[q] = row
  BY <1>3, <1>5 DEF ReadsInv, ReadsTypeOK
<1>7. Counted(q)' = Counted(q)
  BY <1>4, <1>6 DEF Counted
<1>8. ReaderOK(q)'
  BY <1>1, <1>4, <1>5, <1>6, <1>7, ReaderAfter DEF ReaderOK, AtOwnOperation, Unread,
     PullRequestsCounted, UsersCounted
<1>9. StaysTrue(q)'
  <2>1. UNCHANGED tables
    BY DEF vars
  <2> QED BY <1>1, <1>4, <1>6, <1>7, <2>1 DEF StaysTrue, PRsWithStatus, PRExists,
          GetPRByID, Registered, UserExists, GetUserByID, tables
<1>10. "done" \notin StatsPoints /\ "OK" \in ReadAnswers
  BY DEF StatsPoints, ReadAnswers
<1> QED BY <1>1, <1>3, <1>4, <1>5, <1>8, <1>9, <1>10, ReaderAt, ReaderMoves

-----------------------------------------------------------------------------
\* An error throws away what was read.
LEMMA ReadFailsKeeps ==
    ASSUME IInv, ReadsInv, NEW q \in Readers, UNCHANGED vars, ReadFails(q)
    PROVE  ReadsInv'
<1> DEFINE answer == IF rcall[q].op = "Health" THEN "Unhealthy" ELSE "Internal"
<1>1. answer \in ReadAnswers /\ answer # "OK"
  BY DEF ReadAnswers
<1>2. /\ rpc[q] \in ReadPoints
      /\ rpc' = [rpc EXCEPT ![q] = "done"]
      /\ rresp' = [rresp EXCEPT ![q] = answer]
      /\ seen' = [seen EXCEPT ![q] = NothingSeen]
      /\ UNCHANGED <<rcall, before>>
  BY DEF ReadFails, ReadFinish
<1> HIDE DEF answer
<1>3. rpc'[q] = "done" /\ rresp'[q] = answer /\ seen'[q] = NothingSeen
  BY <1>2 DEF ReadsInv, ReadsTypeOK
<1>4. ReaderOK(q)'
  BY <1>1, <1>2, <1>3, ReaderAfter DEF ReaderOK, AtOwnOperation, Unread,
     PullRequestsCounted, UsersCounted, AnsweredStats
<1>5. StaysTrue(q)'
  BY <1>3, NothingSeenAfter DEF vars
<1>6. "done" \notin StatsPoints
  BY DEF StatsPoints
<1> QED BY <1>1, <1>2, <1>4, <1>5, <1>6, ReaderAt, NothingSeenOK, ReaderMoves

LEMMA ReadKeeps ==
    ASSUME IInv, AnswersInv, SeedsStay, ReadsInv, NEW q \in Readers, UNCHANGED vars, Read(q)
    PROVE  ReadsInv'
  BY ReadGetTeamKeeps, Reviews_GetUserByIDKeeps, Reviews_GetPRsByReviewerKeeps,
     Stats_PullRequestsKeeps, Stats_AssignmentsKeeps, Stats_UsersKeeps,
     Stats_TeamsKeeps, ReadFailsKeeps DEF Read

\* A reader that is sent has read nothing; the requests it may look back on have
\* been answered.
LEMMA SendKeeps ==
    ASSUME IInv, ReadsInv, NEW q \in Readers, UNCHANGED vars, Send(q)
    PROVE  ReadsInv'
<1>1. PICK c \in ReadCalls : /\ rcall' = [rcall EXCEPT ![q] = c]
                             /\ rpc' = [rpc EXCEPT ![q] = ReadEntryPoint[c.op]]
  BY DEF Send
<1>2. c \in ReadCall /\ c # Null
  BY <1>1, ReadsAssumption
<1>3. /\ ReadEntryPoint[c.op] \in {"GetTeam", "Reviews.GetUserByID", "Stats.pull_requests"}
      /\ ReadEntryPoint[c.op] = "GetTeam" => c.op = "GetTeam"
      /\ ReadEntryPoint[c.op] = "Reviews.GetUserByID" => c.op = "GetPRsByReviewer"
      /\ ReadEntryPoint[c.op] = "Stats.pull_requests" => c.op \in {"GetStats", "Health"}
  BY <1>2 DEF ReadCall, ReadEntryPoint
<1> DEFINE point == ReadEntryPoint[c.op]
           answered == {r \in Requests : pc[r] = "done"}
<1>4. /\ rpc' = [rpc EXCEPT ![q] = point]
      /\ before' = [before EXCEPT ![q] = answered]
      /\ rresp' = rresp /\ seen' = seen
      /\ rpc[q] = "idle" /\ pc' = pc
  BY <1>1 DEF Send, vars
<1>5. answered \in SUBSET Requests /\ \A r \in answered : pc'[r] = "done"
  BY <1>4
<1>6. point \in ReadPoints /\ (point \in StatsPoints => c.op \in {"GetStats", "Health"})
  BY <1>3 DEF ReadPoints, StatsPoints
<1> HIDE DEF point, answered
<1>7. /\ rpc'[q] = point /\ rcall'[q] = c /\ before'[q] = answered
      /\ rresp'[q] = "none" /\ seen'[q] = NothingSeen
  BY <1>1, <1>4 DEF ReadsInv, ReadsTypeOK, ReaderOK, Unread
<1>8. \A s \in Readers \ {q} : ReaderStays(s)
  BY <1>1, <1>4 DEF ReadsInv, ReadsTypeOK, ReaderStays
<1>9. ReadsTypeOK'
  <2>1. /\ rpc' \in [Readers -> {"idle", "done"} \cup ReadPoints]
        /\ rcall' \in [Readers -> {Null} \cup ReadCall]
        /\ before' \in [Readers -> SUBSET Requests]
    BY <1>1, <1>2, <1>4, <1>5, <1>6 DEF ReadsInv, ReadsTypeOK
  <2> QED BY <1>2, <1>4, <1>6, <1>7, <1>8, <2>1 DEF ReadsInv, ReadsTypeOK, ReaderStays
<1>10. ReaderOK(q)'
  <2>1. point # "done" /\ point \notin {"idle", "Stats.assignments", "Stats.users",
          "Stats.teams", "Reviews.GetPRsByReviewer"}
    BY <1>3 DEF point
  <2> QED BY <1>3, <1>5, <1>7, <2>1 DEF ReaderOK, AtOwnOperation, PullRequestsCounted,
          UsersCounted, AnsweredStats, point
<1>11. StaysTrue(q)'
  BY <1>7, NothingSeenAfter DEF vars
<1>12. \A s \in Readers \ {q} : ReaderOK(s)' /\ StaysTrue(s)'
  BY <1>8, ReaderKept DEF ReadsInv
<1> QED BY <1>9, <1>10, <1>11, <1>12 DEF ReadsInv

\* A reader that dies with the process has told nothing.
LEMMA RestartKeepsReaders ==
    ASSUME IInv, ReadsInv, Restart, RestartReaders
    PROVE  ReadsInv'
<1>1. [Next]_vars /\ UNCHANGED tables
  BY DEF Next, Restart
<1>2. ASSUME NEW q \in Readers, rpc[q] \notin ReadPoints
      PROVE  ReaderStays(q)
  BY <1>2 DEF RestartReaders, ReaderStays
<1>3. ASSUME NEW q \in Readers, rpc[q] \in ReadPoints
      PROVE  /\ rpc'[q] = "done" /\ rresp'[q] = "ConnectionLost"
             /\ seen'[q] = NothingSeen
             /\ rcall'[q] = rcall[q] /\ before'[q] = before[q]
  BY <1>3 DEF RestartReaders
<1>4. ReadsTypeOK'
  <2>1. /\ rpc' \in [Readers -> {"idle", "done"} \cup ReadPoints]
        /\ rresp' \in [Readers -> ReadAnswers]
        /\ seen' \in [Readers -> Seen]
        /\ rcall' = rcall /\ before' = before
    BY NothingSeenOK DEF RestartReaders, ReadsInv, ReadsTypeOK, ReadAnswers
  <2>2. "done" \notin StatsPoints
    BY DEF StatsPoints
  <2>3. ASSUME NEW q \in Readers
        PROVE  /\ rpc'[q] # "idle" => rcall'[q] # Null
               /\ rpc'[q] \in StatsPoints => rcall'[q].op \in {"GetStats", "Health"}
               /\ rresp'[q] \notin {"none", "OK"} => seen'[q] = NothingSeen
    <3>1. CASE rpc[q] \in ReadPoints
      BY <1>3, <2>2, <3>1, ReaderAt DEF ReadsInv, ReadsTypeOK
    <3>2. CASE rpc[q] \notin ReadPoints
      BY <1>2, <3>2 DEF ReadsInv, ReadsTypeOK, ReaderStays
    <3> QED BY <3>1, <3>2
  <2> QED BY <2>1, <2>3 DEF ReadsInv, ReadsTypeOK
<1>5. ASSUME NEW q \in Readers PROVE ReaderOK(q)' /\ StaysTrue(q)'
  <2>1. CASE rpc[q] \notin ReadPoints
    BY <1>1, <1>2, <2>1, ReaderKept DEF ReadsInv
  <2>2. CASE rpc[q] \in ReadPoints
    <3>1. StaysTrue(q)'
      BY <1>1, <1>3, <2>2, NothingSeenAfter
    <3>2. \A r \in before'[q] : pc'[r] = "done"
      BY <1>1, <1>3, <2>2, ToldKept DEF ReadsInv
    <3> QED BY <1>3, <2>2, <3>1, <3>2 DEF ReaderOK, AtOwnOperation, Unread,
            PullRequestsCounted, UsersCounted, AnsweredStats
  <2> QED BY <2>1, <2>2
<1> QED BY <1>4, <1>5 DEF ReadsInv

-----------------------------------------------------------------------------
\* What readers carry and have answered is right in every reachable state.
THEOREM ReadsInvariance == ReadsSpec => []ReadsInv
<1>1. ASSUME ReadsInit, IInv PROVE ReadsInv
  <2> USE DEF ReadsInit
  <2>1. ReadsTypeOK
    BY <1>1, NothingSeenOK DEF ReadsTypeOK, ReadAnswers, StatsPoints
  <2>2. ASSUME NEW q \in Readers PROVE StaysTrue(q) /\ ReaderOK(q)
    BY <1>1, NothingSeenStaysTrue DEF ReaderOK, AtOwnOperation, PullRequestsCounted,
       UsersCounted, AnsweredStats
  <2> QED BY <2>1, <2>2 DEF ReadsInv
<1>2. ASSUME IInv, AnswersInv, SeedsStay, ReadsInv, [ReadsNext]_<<vars, readVars>>
      PROVE  ReadsInv'
  <2>1. CASE UNCHANGED <<vars, readVars>>
    BY <1>2, <2>1, WritesKeepReaders
  <2>2. CASE \E r \in Requests : (Submit(r) \/ Step(r)) /\ UNCHANGED readVars
    BY <1>2, <2>2, WritesKeepReaders DEF Next
  <2>3. CASE Restart /\ RestartReaders
    BY <1>2, <2>3, RestartKeepsReaders
  <2>4. CASE \E q \in Readers : (Send(q) \/ Read(q)) /\ UNCHANGED vars
    BY <1>2, <2>4, SendKeeps, ReadKeeps
  <2> QED BY <1>2, <2>1, <2>2, <2>3, <2>4 DEF ReadsNext, ReadsQuiescent
<1> QED BY <1>1, <1>2, ReadsAreHarmless, Invariance, ClaimsHold, SeedsAreKept, PTL
        DEF ReadsSpec

\* Requests that read are at a point of their own operation, their numbers are
\* numbers, and an error carries none of them.
THEOREM ReadsTypeCorrect == ReadsSpec => []ReadsTypeOK
<1>1. ReadsInv => ReadsTypeOK
  BY DEF ReadsInv
<1> QED BY <1>1, ReadsInvariance, PTL

\* Pull requests, merges and users that were counted or shown once are there for
\* good, whatever is written after the read.
THEOREM NothingReadIsTakenBack == ReadsSpec => []ReadsStayTrue
<1>1. ReadsInv => ReadsStayTrue
  BY DEF ReadsInv, StaysTrue, ReadsStayTrue
<1> QED BY <1>1, ReadsInvariance, PTL

\* No interleaving of writers between the statements of /stats makes it name more
\* reviewers than users.
THEOREM StatsAlwaysCoverReviewers == ReadsSpec => []StatsCoverReviewers
<1>1. ReadsInv => StatsCoverReviewers
  BY DEF ReadsInv, ReaderOK, UsersCounted, StatsCoverReviewers, AnsweredStats
<1> QED BY <1>1, ReadsInvariance, PTL

\* However long a client's /stats takes, it counts what that client had been told
\* before asking.
THEOREM StatsAlwaysIncludeAnswered == ReadsSpec => []StatsIncludeAnswered
<1>1. ReadsInv => StatsIncludeAnswered
  BY DEF ReadsInv, ReaderOK, PullRequestsCounted, StatsIncludeAnswered, AnsweredStats
<1> QED BY <1>1, ReadsInvariance, PTL
=============================================================================
