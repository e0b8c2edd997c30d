------------------------ MODULE ReviewServiceProofs -------------------------
(***************************************************************************)
(* Proofs that the review service keeps its types and well-formed lists of *)
(* reviewers in every behaviour.                                           *)
(*                                                                         *)
(* Neither is inductive by itself: a list is computed from rows read some  *)
(* statements earlier and written without a condition.  IInv adds what the *)
(* requests carry from statement to statement (LocalsOK).  It survives the *)
(* steps of other requests because tables only ever grow: a user, a pull   *)
(* request and its author stay what they are once they exist.              *)
(***************************************************************************)
EXTENDS ReviewService, FiniteSetTheorems, TLAPS

IInv == TypeOK /\ ReviewersWellFormed /\ LocalsOK

-----------------------------------------------------------------------------
(* Lists of reviewers.                                                     *)

\* The empty list is well-formed.
LEMMA EmptyList ==
    ASSUME NEW author
    PROVE  /\ <<>> \in Seq(UserIds)
           /\ Members(<<>>) = {}
           /\ WellFormed(<<>>, author)
  BY RequestsAssumption DEF WellFormed, Distinct, Members

\* The ids in a list of users are users.
LEMMA MembersType ==
    ASSUME NEW list \in Seq(UserIds)
    PROVE  Members(list) \subseteq UserIds
  BY DEF Members

\* Appending a user that is not in the list keeps it distinct.
LEMMA AppendOne ==
    ASSUME NEW list \in Seq(UserIds), NEW u \in UserIds
    PROVE  /\ Append(list, u) \in Seq(UserIds)
           /\ Len(Append(list, u)) = Len(list) + 1
           /\ Members(Append(list, u)) = Members(list) \cup {u}
           /\ Distinct(list) /\ u \notin Members(list) => Distinct(Append(list, u))
<1>1. /\ Append(list, u) \in Seq(UserIds)
      /\ Len(Append(list, u)) = Len(list) + 1
      /\ \A i \in 1 .. Len(list) : Append(list, u)[i] = list[i]
      /\ Append(list, u)[Len(list) + 1] = u
      /\ Len(list) \in Nat
  OBVIOUS
<1>2. Members(Append(list, u)) = Members(list) \cup {u}
  BY <1>1 DEF Members
<1>3. Distinct(list) /\ u \notin Members(list) => Distinct(Append(list, u))
  BY <1>1 DEF Distinct, Members
<1> QED BY <1>1, <1>2, <1>3

\* A prefix of a well-formed list is well-formed.
LEMMA Prefix ==
    ASSUME NEW list \in Seq(UserIds), NEW n \in Nat, n <= Len(list)
    PROVE  /\ SubSeq(list, 1, n) \in Seq(UserIds)
           /\ Members(SubSeq(list, 1, n)) \subseteq Members(list)
           /\ Len(SubSeq(list, 1, n)) = n
           /\ Distinct(list) => Distinct(SubSeq(list, 1, n))
<1>1. /\ SubSeq(list, 1, n) \in Seq(UserIds)
      /\ Len(SubSeq(list, 1, n)) = n
      /\ \A i \in 1 .. n : SubSeq(list, 1, n)[i] = list[i]
      /\ Len(list) \in Nat
  OBVIOUS
<1> QED BY <1>1 DEF Members, Distinct

\* Putting a newcomer in the place of a member keeps a list distinct.
LEMMA ReplaceOne ==
    ASSUME NEW list \in Seq(UserIds), Distinct(list),
           NEW old \in Members(list), NEW new \in UserIds, new \notin Members(list)
    PROVE  /\ Replace(list, old, new) \in Seq(UserIds)
           /\ Members(Replace(list, old, new)) \subseteq Members(list) \cup {new}
           /\ Len(Replace(list, old, new)) = Len(list)
           /\ Distinct(Replace(list, old, new))
<1> DEFINE P(i) == list[i] = old /\ \A j \in 1 .. i - 1 : list[j] # old
           at == CHOOSE i \in 1 .. Len(list) : P(i)
<1>1. PICK i \in 1 .. Len(list) : list[i] = old
  BY DEF Members
<1>2. P(i)
  BY <1>1 DEF Distinct
<1>3. at \in 1 .. Len(list)
  BY <1>2
<1>4. Replace(list, old, new) = [list EXCEPT ![at] = new]
  BY DEF Replace
<1> HIDE DEF at
<1>5. /\ Replace(list, old, new) \in Seq(UserIds)
      /\ Len(Replace(list, old, new)) = Len(list)
      /\ Len(list) \in Nat
      /\ \A j \in 1 .. Len(list) :
            Replace(list, old, new)[j] = IF j = at THEN new ELSE list[j]
  BY <1>3, <1>4
<1>6. Members(Replace(list, old, new)) \subseteq Members(list) \cup {new}
  BY <1>5 DEF Members
<1>7. Distinct(Replace(list, old, new))
  BY <1>5 DEF Distinct, Members
<1> QED BY <1>5, <1>6, <1>7

\* Whatever the random source does, the chosen reviewers are candidates, no
\* more than the limit.
LEMMA Selection ==
    ASSUME NEW candidates \in SUBSET UserIds, maxReviewers \in Limits,
           candidates = {} \/ maxReviewers >= 0,
           NEW list \in selectRandomReviewers(candidates)
    PROVE  /\ list \in Seq(UserIds)
           /\ Members(list) \subseteq candidates
           /\ Distinct(list)
           /\ Len(list) <= ReviewerCap
<1>1. IsFiniteSet(candidates) /\ Cardinality(candidates) \in Nat
  BY RepositoryAssumption, FS_Subset, FS_CardinalityType
<1>2. candidates = {} => Cardinality(candidates) = 0
  BY FS_EmptySet
<1>3. maxReviewers \in Int /\ maxReviewers <= ReviewerCap /\ ReviewerCap \in Nat
  BY RequestsAssumption
<1>4. SelectionSize(candidates) \in Nat /\ SelectionSize(candidates) <= ReviewerCap
  BY <1>1, <1>2, <1>3 DEF SelectionSize
<1>5. list \in [1 .. SelectionSize(candidates) -> candidates] /\ Distinct(list)
  BY DEF selectRandomReviewers
<1>6. list \in Seq(UserIds) /\ Len(list) = SelectionSize(candidates)
  BY <1>4, <1>5
<1>7. Members(list) \subseteq candidates
  BY <1>4, <1>5, <1>6 DEF Members
<1> QED BY <1>4, <1>5, <1>6, <1>7

-----------------------------------------------------------------------------
(* Steps on the tables.                                                    *)

\* What a step has to leave alone for the copies in flight to stay usable.
Grows ==
    /\ Registered \subseteq Registered'
    /\ \A p \in PRIds : PRExists(p) =>
          /\ PRExists(p)'
          /\ pull_requests'[p].author_id = pull_requests[p].author_id

Safe == TablesTypeOK' /\ Grows /\ ReviewersWellFormed'

\* A list that may be stored may be stored later as well.
LEMMA ListGrows ==
    ASSUME Grows, NEW list, NEW author, ListOK(list, author)
    PROVE  ListOK(list, author)'
  BY DEF Grows, ListOK

\* A copy of a row stays usable.
LEMMA CopyGrows ==
    ASSUME Grows, NEW row, NEW p \in PRIds, CopyOK(row, p)
    PROVE  CopyOK(row, p)'
  BY DEF Grows, ListOK, CopyOK

\* A step that leaves the tables alone is safe.
LEMMA ReadSafe ==
    ASSUME IInv, UNCHANGED tables
    PROVE  Safe
  BY DEF IInv, TypeOK, RequestsTypeOK, tables, Safe, Grows, TablesTypeOK,
         ReviewersWellFormed, RowOK, ListOK, Registered, UserExists, PRExists,
         GetUserByID, GetPRByID

\* A statement that leaves pull_requests alone and deletes no user is safe.
LEMMA UsersSafe ==
    ASSUME IInv, UNCHANGED pull_requests,
           users' \in [UserIds -> {Null} \cup User],
           \A u \in UserIds : UserExists(u) => users'[u] # Null
    PROVE  Safe
<1>1. TablesTypeOK'
  BY DEF IInv, TypeOK, RequestsTypeOK, TablesTypeOK
<1>2. Registered \subseteq Registered'
  BY DEF Registered, UserExists, GetUserByID
<1>3. Grows
  BY <1>2 DEF Grows, PRExists, GetPRByID
<1>4. ReviewersWellFormed'
  BY <1>2 DEF IInv, ReviewersWellFormed, RowOK, ListOK, PRExists, GetPRByID
<1> QED BY <1>1, <1>3, <1>4 DEF Safe

\* A statement on pull_requests is safe when every row it leaves is
\* well-formed and belongs to the author it belonged to.
LEMMA PullRequestsSafe ==
    ASSUME IInv, UNCHANGED users,
           pull_requests' \in [PRIds -> {Null} \cup PullRequest],
           \A p \in PRIds :
              /\ PRExists(p) => /\ pull_requests'[p] # Null
                                /\ pull_requests'[p].author_id = pull_requests[p].author_id
              /\ pull_requests'[p] # Null => RowOK(pull_requests'[p])
    PROVE  Safe
<1>1. TablesTypeOK'
  BY DEF IInv, TypeOK, RequestsTypeOK, TablesTypeOK
<1>2. Registered' = Registered
  BY DEF Registered, UserExists, GetUserByID
<1>3. Grows
  BY <1>2 DEF Grows, PRExists, GetPRByID
<1>4. ReviewersWellFormed'
  BY <1>2 DEF ReviewersWellFormed, RowOK, ListOK, PRExists, GetPRByID
<1> QED BY <1>1, <1>3, <1>4 DEF Safe

\* Switching a user on or off removes nobody.
LEMMA SetUserActiveSafe ==
    ASSUME IInv, NEW u \in UserIds, NEW active \in BOOLEAN, UserExists(u),
           SetUserActive(u, active)
    PROVE  Safe
<1> USE DEF IInv, TypeOK, RequestsTypeOK, TablesTypeOK
<1>1. users[u] \in User
  BY DEF UserExists, GetUserByID
<1>2. users' = [users EXCEPT ![u] = [users[u] EXCEPT !.is_active = active]]
  BY DEF SetUserActive
<1>3. [users[u] EXCEPT !.is_active = active] \in User
  BY <1>1 DEF User
<1>4. users' \in [UserIds -> {Null} \cup User]
  BY <1>2, <1>3
<1>5. \A v \in UserIds : UserExists(v) => users'[v] # Null
  BY <1>2, <1>3, RepositoryAssumption DEF UserExists, GetUserByID
<1> QED BY <1>4, <1>5, UsersSafe DEF SetUserActive

\* Deactivating members of a team removes nobody.
LEMMA DeactivateSafe ==
    ASSUME IInv, NEW t \in TeamNames, NEW ids \in SUBSET UserIds,
           DeactivateUsersByTeam(t, ids)
    PROVE  Safe
<1> USE DEF IInv, TypeOK, RequestsTypeOK, TablesTypeOK
<1>1. \A u \in UsersToDeactivate(t, ids) :
         u \in UserIds /\ users[u] \in User /\ [users[u] EXCEPT !.is_active = FALSE] \in User
  BY DEF UsersToDeactivate, GetUsersByTeam, UserExists, GetUserByID, User
<1>2. users' \in [UserIds -> {Null} \cup User]
  BY <1>1 DEF DeactivateUsersByTeam
<1>3. \A u \in UserIds : UserExists(u) => users'[u] # Null
  BY <1>1, RepositoryAssumption DEF DeactivateUsersByTeam, UserExists, GetUserByID
<1> QED BY <1>2, <1>3, UsersSafe DEF DeactivateUsersByTeam

\* Adding a team moves and adds users, and removes nobody.
LEMMA CreateTeamSafe ==
    ASSUME IInv, NEW t \in TeamNames, NEW members \in TeamMembers,
           CreateTeamTx(t, members)
    PROVE  Safe
<1> USE DEF IInv, TypeOK, RequestsTypeOK, TablesTypeOK
<1>1. PICK ids \in SUBSET UserIds : members \in [ids -> BOOLEAN]
  BY DEF TeamMembers
<1>2. \A u \in DOMAIN members : [team_name |-> t, is_active |-> members[u]] \in User
  BY <1>1 DEF User
<1>3. users' \in [UserIds -> {Null} \cup User]
  BY <1>2 DEF CreateTeamTx
<1>4. \A u \in UserIds : UserExists(u) => users'[u] # Null
  BY <1>2, RepositoryAssumption DEF CreateTeamTx, UserExists, GetUserByID
<1> QED BY <1>3, <1>4, UsersSafe DEF CreateTeamTx

\* Inserting a row with a fit list leaves every row well-formed.
LEMMA InsertSafe ==
    ASSUME IInv, NEW p \in PRIds, NEW author \in Registered,
           NEW list \in Seq(UserIds), ListOK(list, author),
           InsertPR(p, author, list)
    PROVE  Safe
<1> USE DEF IInv, TypeOK, RequestsTypeOK, TablesTypeOK
<1> DEFINE row == [author_id |-> author, status |-> "OPEN",
                   assigned_reviewers |-> list, merged_at |-> 0]
<1>1. row \in PullRequest /\ RowOK(row)
  BY DEF PullRequest, PRStatus, RowOK, Registered
<1>2. pull_requests' = [pull_requests EXCEPT ![p] = row]
  BY DEF InsertPR
<1> HIDE DEF row
<1>3. pull_requests' \in [PRIds -> {Null} \cup PullRequest]
  BY <1>1, <1>2
<1>4. \A q \in PRIds :
         /\ PRExists(q) => /\ pull_requests'[q] # Null
                           /\ pull_requests'[q].author_id = pull_requests[q].author_id
         /\ pull_requests'[q] # Null => RowOK(pull_requests'[q])
  BY <1>1, <1>2 DEF InsertPR, PRExists, GetPRByID, ReviewersWellFormed
<1> QED BY <1>3, <1>4, PullRequestsSafe DEF InsertPR

\* A merged row is a row of the same author and reviewers.
LEMMA MergedRow ==
    ASSUME NEW old \in PullRequest
    PROVE  LET new == [old EXCEPT !.status = "MERGED", !.merged_at = old.merged_at + 1]
           IN  /\ new \in PullRequest
               /\ new.author_id = old.author_id
               /\ new.assigned_reviewers = old.assigned_reviewers
               /\ new.status = "MERGED"
<1>1. old.merged_at + 1 \in Nat /\ "MERGED" \in PRStatus
  BY DEF PullRequest, PRStatus
<1> QED BY <1>1 DEF PullRequest

\* A row with another list is a row of the same author and status.
LEMMA ListedRow ==
    ASSUME NEW old \in PullRequest, NEW list \in Seq(UserIds)
    PROVE  LET new == [old EXCEPT !.assigned_reviewers = list]
           IN  /\ new \in PullRequest
               /\ new.author_id = old.author_id
               /\ new.assigned_reviewers = list
               /\ new.status = old.status
  BY DEF PullRequest

\* Merging a row leaves its author and list alone.
LEMMA MergeSafe ==
    ASSUME IInv, NEW p \in PRIds, PRExists(p), UpdatePRStatusWithMergedAt(p)
    PROVE  Safe
<1> USE DEF IInv, TypeOK, RequestsTypeOK, TablesTypeOK
<1> DEFINE row == [pull_requests[p] EXCEPT !.status = "MERGED", !.merged_at = @ + 1]
<1>1. pull_requests[p] \in PullRequest /\ RowOK(pull_requests[p])
  BY DEF PRExists, GetPRByID, ReviewersWellFormed
<1>2. /\ row \in PullRequest
      /\ row.author_id = pull_requests[p].author_id
      /\ row.assigned_reviewers = pull_requests[p].assigned_reviewers
  BY <1>1, MergedRow
<1>3. pull_requests' = [pull_requests EXCEPT ![p] = row]
  BY DEF UpdatePRStatusWithMergedAt
<1> HIDE DEF row
<1>4. RowOK(row)
  BY <1>1, <1>2 DEF RowOK
<1>5. pull_requests' \in [PRIds -> {Null} \cup PullRequest]
  BY <1>2, <1>3
<1>6. \A q \in PRIds :
         /\ PRExists(q) => /\ pull_requests'[q] # Null
                           /\ pull_requests'[q].author_id = pull_requests[q].author_id
         /\ pull_requests'[q] # Null => RowOK(pull_requests'[q])
  BY <1>2, <1>3, <1>4, RepositoryAssumption DEF PRExists, GetPRByID, ReviewersWellFormed
<1> QED BY <1>5, <1>6, PullRequestsSafe DEF UpdatePRStatusWithMergedAt

\* Writing a fit list into an existing row leaves it well-formed.
LEMMA ReassignSafe ==
    ASSUME IInv, NEW p \in PRIds, PRExists(p), NEW list \in Seq(UserIds),
           ListOK(list, pull_requests[p].author_id), UpdatePRReviewers(p, list)
    PROVE  Safe
<1> USE DEF IInv, TypeOK, RequestsTypeOK, TablesTypeOK
<1> DEFINE row == [pull_requests[p] EXCEPT !.assigned_reviewers = list]
<1>1. pull_requests[p] \in PullRequest /\ RowOK(pull_requests[p])
  BY DEF PRExists, GetPRByID, ReviewersWellFormed
<1>2. /\ row \in PullRequest
      /\ row.author_id = pull_requests[p].author_id
      /\ row.assigned_reviewers = list
  BY <1>1, ListedRow
<1>3. pull_requests' = [pull_requests EXCEPT ![p] = row]
  BY DEF UpdatePRReviewers
<1> HIDE DEF row
<1>4. RowOK(row)
  BY <1>1, <1>2 DEF RowOK
<1>5. pull_requests' \in [PRIds -> {Null} \cup PullRequest]
  BY <1>2, <1>3
<1>6. \A q \in PRIds :
         /\ PRExists(q) => /\ pull_requests'[q] # Null
                           /\ pull_requests'[q].author_id = pull_requests[q].author_id
         /\ pull_requests'[q] # Null => RowOK(pull_requests'[q])
  BY <1>2, <1>3, <1>4, RepositoryAssumption DEF PRExists, GetPRByID, ReviewersWellFormed
<1> QED BY <1>5, <1>6, PullRequestsSafe DEF UpdatePRReviewers

\* Writing fit lists into existing rows leaves them well-formed.
LEMMA BulkUpdateSafe ==
    ASSUME IInv, NEW updates \in [PRIds -> {Null} \cup Seq(UserIds)],
           \A p \in PRIds : updates[p] # Null =>
              PRExists(p) /\ ListOK(updates[p], pull_requests[p].author_id),
           BulkUpdatePRReviewers(updates)
    PROVE  Safe
<1> USE DEF IInv, TypeOK, RequestsTypeOK, TablesTypeOK
<1> DEFINE row(p) == [pull_requests[p] EXCEPT !.assigned_reviewers = updates[p]]
<1>1. ASSUME NEW p \in PRIds, updates[p] # Null
      PROVE  /\ row(p) \in PullRequest
             /\ row(p).author_id = pull_requests[p].author_id
             /\ RowOK(row(p))
  <2>1. pull_requests[p] \in PullRequest /\ RowOK(pull_requests[p])
    BY <1>1 DEF PRExists, GetPRByID, ReviewersWellFormed
  <2>2. updates[p] \in Seq(UserIds) /\ ListOK(updates[p], pull_requests[p].author_id)
    BY <1>1
  <2>3. /\ row(p) \in PullRequest
        /\ row(p).author_id = pull_requests[p].author_id
        /\ row(p).assigned_reviewers = updates[p]
    BY <2>1, <2>2 DEF PullRequest
  <2> QED BY <2>1, <2>2, <2>3 DEF RowOK
<1>2. pull_requests' = [p \in PRIds |-> IF updates[p] = Null THEN pull_requests[p]
                                                            ELSE row(p)]
  BY DEF BulkUpdatePRReviewers
<1> HIDE DEF row
<1>3. pull_requests' \in [PRIds -> {Null} \cup PullRequest]
  BY <1>1, <1>2
<1>4. \A q \in PRIds :
         /\ PRExists(q) => /\ pull_requests'[q] # Null
                           /\ pull_requests'[q].author_id = pull_requests[q].author_id
         /\ pull_requests'[q] # Null => RowOK(pull_requests'[q])
  BY <1>1, <1>2, RepositoryAssumption DEF PRExists, GetPRByID, ReviewersWellFormed
<1> QED BY <1>3, <1>4, PullRequestsSafe DEF BulkUpdatePRReviewers

-----------------------------------------------------------------------------
(* Steps on the state of requests.                                         *)

\* The step does not touch what request s carries.
Stays(s) == /\ pc'[s] = pc[s]
            /\ call'[s] = call[s]
            /\ pr'[s] = pr[s]
            /\ reviewers'[s] = reviewers[s]
            /\ sweep'[s] = sweep[s]

\* Rows, lists and candidates that a sweep may hold now it may hold after a step
\* of any request.
LEMMA SweepMayHold ==
    ASSUME Grows, NEW s \in Requests, NEW STATE rows, NEW STATE lists, NEW STATE cached,
           \A p \in PRIds : rows[p] # Null => CopyOK(rows[p], p),
           \A p \in PRIds : lists[p] # Null =>
              PRExists(p) /\ ListOK(lists[p], pull_requests[p].author_id),
           \A t \in TeamNames : cached[t] # Null => cached[t] \subseteq Registered,
           sweep'[s].open = rows, sweep'[s].updates = lists, sweep'[s].cache = cached
    PROVE  SweepOK(s)'
<1>1. ASSUME NEW p \in PRIds, sweep'[s].open[p] # Null
      PROVE  CopyOK(sweep[s].open[p], p)'
  <2>1. CopyOK(rows[p], p) /\ sweep'[s].open[p] = rows[p]
    BY <1>1
  <2> QED BY <2>1 DEF CopyOK, ListOK, Grows
<1>2. ASSUME NEW p \in PRIds, sweep'[s].updates[p] # Null
      PROVE  PRExists(p)' /\ ListOK(sweep[s].updates[p], pull_requests[p].author_id)'
  <2>1. /\ PRExists(p) /\ ListOK(lists[p], pull_requests[p].author_id)
        /\ sweep'[s].updates[p] = lists[p]
    BY <1>2
  <2> QED BY <2>1 DEF ListOK, Grows
<1>3. \A t \in TeamNames : sweep'[s].cache[t] # Null =>
         sweep'[s].cache[t] \subseteq Registered'
  BY DEF Grows
<1> QED BY <1>1, <1>2, <1>3 DEF SweepOK

\* What the sweep of a request has collected is usable.
LEMMA SweepHolds ==
    ASSUME IInv, NEW s \in Requests
    PROVE  /\ \A p \in PRIds : sweep[s].open[p] # Null => CopyOK(sweep[s].open[p], p)
           /\ \A p \in PRIds : sweep[s].updates[p] # Null =>
                 PRExists(p) /\ ListOK(sweep[s].updates[p], pull_requests[p].author_id)
           /\ \A t \in TeamNames : sweep[s].cache[t] # Null =>
                 sweep[s].cache[t] \subseteq Registered
  BY DEF IInv, LocalsOK, LocalOK, SweepOK

\* What the sweep of a request has collected stays usable.
LEMMA SweepStays ==
    ASSUME IInv, Grows, NEW s \in Requests, sweep'[s] = sweep[s]
    PROVE  SweepOK(s)'
  BY SweepHolds, SweepMayHold

\* What a request carries survives the steps of the others.
LEMMA LocalStays ==
    ASSUME IInv, Grows, NEW s \in Requests, Stays(s)
    PROVE  LocalOK(s)'
<1>1. LocalOK(s)
  BY DEF IInv, LocalsOK
<1>2. SweepOK(s)'
  BY SweepStays DEF Stays
<1>3. pc[s] \in {"CreatePR.GetActiveUsersByTeam", "CreatePR.CreatePR"} =>
         call'[s].user \in Registered'
  BY <1>1 DEF LocalOK, Stays, Grows
<1>4. pc[s] = "CreatePR.CreatePR" => ListOK(reviewers[s], call[s].user)'
  BY <1>1 DEF LocalOK, Stays, Grows, ListOK
<1>5. pc[s] = "MergePR.UpdatePRStatusWithMergedAt" => PRExists(call[s].pr)'
  <2>1. pc[s] \in MergePRPoints => call[s].pr \in PRIds
    BY DEF IInv, TypeOK, MergePRCall
  <2> QED BY <1>1, <2>1 DEF LocalOK, Stays, Grows, MergePRPoints, PRExists, GetPRByID
<1>6. pc[s] \in ReassignPoints \ {"Reassign.GetPRByID"} =>
         /\ pr'[s] # Null
         /\ CopyOK(pr[s], call[s].pr)'
         /\ call'[s].user \in Members(pr'[s].assigned_reviewers)
  <2>1. pc[s] \in ReassignPoints => call[s].pr \in PRIds
    BY DEF IInv, TypeOK, ReassignCall
  <2> QED BY <1>1, <2>1 DEF LocalOK, Stays, Grows, CopyOK, ListOK, PRExists, GetPRByID
<1>7. pc[s] = "Reassign.UpdatePRReviewers" => ListOK(reviewers[s], pr[s].author_id)'
  BY <1>1 DEF LocalOK, Stays, Grows, ListOK
<1>8. ASSUME pc[s] \in {"Deactivate.NextReviewer", "Deactivate.GetActiveUsersByTeam"}
      PROVE  /\ pr'[s] # Null
             /\ sweep'[s].target \in PRIds
             /\ CopyOK(pr[s], sweep[s].target)'
             /\ ListInProgress(s)'
  <2>1. /\ pr[s] # Null
        /\ sweep[s].target \in PRIds
        /\ CopyOK(pr[s], sweep[s].target)
        /\ ListInProgress(s)
    BY <1>1, <1>8 DEF LocalOK
  <2>2. CopyOK(pr[s], sweep[s].target)'
    BY <2>1 DEF Stays, Grows, CopyOK, ListOK, PRExists, GetPRByID
  <2>3. ListInProgress(s)'
    BY <2>1 DEF Stays, Grows, ListInProgress, ListOK
  <2> QED BY <2>1, <2>2, <2>3 DEF Stays
<1>9. pc[s] = "Deactivate.GetActiveUsersByTeam" =>
         sweep'[s].next <= Len(pr'[s].assigned_reviewers)
  BY <1>1 DEF LocalOK, Stays
<1>10. pc'[s] = pc[s]
  BY DEF Stays
<1> QED BY <1>2, <1>3, <1>4, <1>5, <1>6, <1>7, <1>8, <1>9, <1>10 DEF LocalOK

\* The locals of a request that has been answered.
LEMMA NoSweepType ==
    NoSweep \in Sweep
<1>1. /\ NoSweep.deactivated \in SUBSET UserIds /\ NoSweep.next \in Nat
  BY DEF NoSweep
<1> QED BY DEF NoSweep, Sweep

\* A request that is not under way carries nothing.
LEMMA IdleOK ==
    ASSUME NEW s \in Requests, pc'[s] \in {"idle", "done"}, sweep'[s] = NoSweep
    PROVE  LocalOK(s)'
<1>1. SweepOK(s)'
  BY DEF SweepOK, NoSweep
<1> QED BY <1>1 DEF LocalOK, ReassignPoints

\* Answering a request keeps the invariant.
LEMMA FinishKeeps ==
    ASSUME IInv, NEW r \in Requests, NEW answer \in Answers, Finish(r, answer), Safe
    PROVE  IInv'
<1> USE DEF IInv, TypeOK, RequestsTypeOK
<1>1. /\ pc' = [pc EXCEPT ![r] = "done"] /\ pc' \in [Requests -> {"idle", "done"} \cup Points]
      /\ resp' \in [Requests -> Answers]
      /\ pr' = [pr EXCEPT ![r] = Null] /\ pr' \in [Requests -> {Null} \cup PullRequest]
      /\ team' \in [Requests -> {Null} \cup TeamNames]
      /\ call' = call /\ maxReviewers' = maxReviewers
  BY DEF Finish
<1>2. /\ reviewers' = [reviewers EXCEPT ![r] = <<>>] /\ reviewers' \in [Requests -> Seq(UserIds)]
      /\ sweep' = [sweep EXCEPT ![r] = NoSweep] /\ sweep' \in [Requests -> Sweep]
  BY EmptyList, NoSweepType DEF Finish
<1>3. RequestsTypeOK'
  BY <1>1, <1>2 DEF Safe
<1>4. "done" \notin Points
  BY DEF Points, CreatePRPoints, MergePRPoints, ReassignPoints, SetActivePoints,
         CreateTeamPoints, DeactivatePoints
<1>5. TypeOK'
  BY <1>1, <1>3, <1>4 DEF Points
<1>6. ASSUME NEW s \in Requests PROVE LocalOK(s)'
  <2>1. CASE s = r
    BY <2>1, <1>1, <1>2, IdleOK
  <2>2. CASE s # r
    <3>1. Stays(s)
      BY <2>2, <1>1, <1>2 DEF Stays
    <3> QED BY <3>1, LocalStays DEF Safe
  <2> QED BY <2>1, <2>2
<1> QED BY <1>5, <1>6 DEF Safe, LocalsOK

\* The operation a point belongs to.
SameOperation(a, b) ==
    \E points \in {CreatePRPoints, MergePRPoints, ReassignPoints, SetActivePoints,
                   CreateTeamPoints, DeactivatePoints} : a \in points /\ b \in points

\* The step touches the locals of r only, and leaves them typed.
LocalsOf(r) ==
    /\ pr' \in [Requests -> {Null} \cup PullRequest]
    /\ team' \in [Requests -> {Null} \cup TeamNames]
    /\ reviewers' \in [Requests -> Seq(UserIds)]
    /\ sweep' \in [Requests -> Sweep]
    /\ \A s \in Requests \ {r} : /\ pr'[s] = pr[s]
                                 /\ reviewers'[s] = reviewers[s]
                                 /\ sweep'[s] = sweep[s]

\* Points have one operation each.
LEMMA OneOperation ==
    ASSUME NEW a, NEW b, SameOperation(a, b)
    PROVE  /\ b \in Points
           /\ b \in CreatePRPoints => a \in CreatePRPoints
           /\ b \in MergePRPoints => a \in MergePRPoints
           /\ b \in ReassignPoints => a \in ReassignPoints
           /\ b \in SetActivePoints => a \in SetActivePoints
           /\ b \in CreateTeamPoints => a \in CreateTeamPoints
           /\ b \in DeactivatePoints => a \in DeactivatePoints
  BY DEF SameOperation, Points, CreatePRPoints, MergePRPoints, ReassignPoints,
         SetActivePoints, CreateTeamPoints, DeactivatePoints

\* Going on to the next statement keeps the invariant, if what the request
\* carries is fit for it.
LEMMA GotoKeeps ==
    ASSUME IInv, NEW r \in Requests, NEW point, Goto(r, point),
           SameOperation(pc[r], point), LocalsOf(r), Safe, LocalOK(r)'
    PROVE  IInv'
<1> USE DEF IInv, TypeOK, RequestsTypeOK
<1>1. point \in Points
  BY OneOperation
<1>2. /\ pc' = [pc EXCEPT ![r] = point] /\ call' = call /\ resp' = resp
      /\ maxReviewers' = maxReviewers
  BY DEF Goto
<1>3. RequestsTypeOK'
  BY <1>1, <1>2 DEF Safe, LocalsOf
<1>4. TypeOK'
  BY <1>2, <1>3, OneOperation
<1>5. ASSUME NEW s \in Requests PROVE LocalOK(s)'
  <2>1. CASE s = r
    BY <2>1
  <2>2. CASE s # r
    <3>1. Stays(s)
      BY <2>2, <1>2 DEF Stays, LocalsOf
    <3> QED BY <3>1, LocalStays DEF Safe
  <2> QED BY <2>1, <2>2
<1> QED BY <1>4, <1>5 DEF Safe, LocalsOK

\* A statement that fails or a method that panics ends the request.
LEMMA FailsKeeps ==
    ASSUME IInv, NEW r \in Requests, Fails(r) \/ Panics(r), Safe
    PROVE  IInv'
<1>1. Finish(r, "Internal")
  BY DEF Fails, Panics
<1>2. "Internal" \in Answers
  BY DEF Answers
<1> QED BY <1>1, <1>2, FinishKeeps

\* The points that ask nothing of the locals but of those of a sweep.
Plain == {"CreatePR.GetUserByID", "CreatePR.GetPRByID",
          "SetUserActive.GetUserByID", "CreateTeam.CreateTeam",
          "CreateTeam.GetTeam", "Deactivate.DeactivateUsersByTeam",
          "Deactivate.GetOpenPRsByReviewers", "Deactivate.NextPR",
          "Deactivate.BulkUpdatePRReviewers"}

\* What a request carries is fit at a point that asks only for its sweep.
LEMMA PlainOK ==
    ASSUME NEW r \in Requests, pc'[r] \in Plain, SweepOK(r)'
    PROVE  LocalOK(r)'
  BY DEF Plain, LocalOK, ReassignPoints

\* Going on with untouched locals to a point that asks nothing of them.
LEMMA PlainKeeps ==
    ASSUME IInv, NEW r \in Requests, NEW point \in Plain, Goto(r, point),
           SameOperation(pc[r], point), UNCHANGED locals, Safe
    PROVE  IInv'
<1>1. LocalsOf(r)
  BY DEF IInv, TypeOK, RequestsTypeOK, LocalsOf, locals
<1>2. SweepOK(r)'
  BY SweepStays DEF Safe, locals
<1>3. pc'[r] = point
  BY DEF Goto, IInv, TypeOK, RequestsTypeOK
<1> QED BY <1>1, <1>2, <1>3, PlainOK, GotoKeeps

-----------------------------------------------------------------------------
(* CreatePR.                                                               *)

\* Asking whether the pull request exists keeps the invariant.
LEMMA CreatePR_PRExistsKeeps ==
    ASSUME IInv, NEW r \in Requests, CreatePR_PRExists(r)
    PROVE  IInv'
<1>1. Safe
  BY ReadSafe DEF CreatePR_PRExists
<1>2. CASE Fails(r)
  BY <1>1, <1>2, FailsKeeps
<1>3. CASE Finish(r, "ErrPRExists")
  BY <1>1, <1>3, FinishKeeps DEF Answers
<1>4. CASE Goto(r, "CreatePR.GetUserByID") /\ UNCHANGED locals
  <2>1. SameOperation(pc[r], "CreatePR.GetUserByID")
    BY DEF CreatePR_PRExists, SameOperation, CreatePRPoints
  <2> QED BY <1>1, <1>4, <2>1, PlainKeeps DEF Plain
<1> QED BY <1>2, <1>3, <1>4 DEF CreatePR_PRExists

\* Reading the author keeps the invariant: an author that was found stays.
LEMMA CreatePR_GetUserByIDKeeps ==
    ASSUME IInv, NEW r \in Requests, CreatePR_GetUserByID(r)
    PROVE  IInv'
<1> USE DEF IInv, TypeOK, RequestsTypeOK
<1>1. Safe
  BY ReadSafe DEF CreatePR_GetUserByID
<1>2. CASE Fails(r)
  BY <1>1, <1>2, FailsKeeps
<1>3. CASE Finish(r, "ErrUserNotFound")
  BY <1>1, <1>3, FinishKeeps DEF Answers
<1>4. CASE /\ UserExists(call[r].user)
           /\ team' = [team EXCEPT ![r] = GetUserByID(call[r].user).team_name]
           /\ Goto(r, "CreatePR.GetActiveUsersByTeam")
           /\ UNCHANGED <<pr, reviewers, sweep>>
  <2>1. /\ pc[r] \in CreatePRPoints
        /\ SameOperation(pc[r], "CreatePR.GetActiveUsersByTeam")
    BY DEF CreatePR_GetUserByID, SameOperation, CreatePRPoints
  <2>2. call[r].user \in UserIds
    BY <2>1 DEF CreatePRCall
  <2>3. GetUserByID(call[r].user).team_name \in TeamNames
    BY <1>4, <2>2 DEF TablesTypeOK, UserExists, GetUserByID, User
  <2>4. LocalsOf(r)
    BY <1>4, <2>3 DEF LocalsOf
  <2>5. call'[r].user \in Registered'
    BY <1>1, <1>4, <2>2 DEF Goto, Safe, Grows, Registered
  <2>6. SweepOK(r)'
    BY <1>1, <1>4, SweepStays DEF Safe
  <2>7. LocalOK(r)'
    BY <1>4, <2>5, <2>6 DEF LocalOK, Goto, ReassignPoints
  <2> QED BY <1>1, <1>4, <2>1, <2>4, <2>7, GotoKeeps
<1> QED BY <1>2, <1>3, <1>4 DEF CreatePR_GetUserByID

\* Choosing the reviewers keeps the invariant: the list can be stored.
LEMMA CreatePR_GetActiveUsersByTeamKeeps ==
    ASSUME IInv, NEW r \in Requests, CreatePR_GetActiveUsersByTeam(r)
    PROVE  IInv'
<1> USE DEF IInv, TypeOK, RequestsTypeOK
<1> DEFINE candidates == GetActiveUsersByTeam(team[r], call[r].user)
<1>1. Safe
  BY ReadSafe DEF CreatePR_GetActiveUsersByTeam
<1>2. CASE Fails(r) \/ Panics(r)
  BY <1>1, <1>2, FailsKeeps
<1>3. ASSUME candidates = {} \/ maxReviewers >= 0,
             NEW list \in selectRandomReviewers(candidates),
             reviewers' = [reviewers EXCEPT ![r] = list],
             Goto(r, "CreatePR.CreatePR"),
             UNCHANGED <<pr, team, sweep>>
      PROVE  IInv'
  <2>1. /\ pc[r] = "CreatePR.GetActiveUsersByTeam"
        /\ pc[r] \in CreatePRPoints
        /\ SameOperation(pc[r], "CreatePR.CreatePR")
    BY DEF CreatePR_GetActiveUsersByTeam, SameOperation, CreatePRPoints
  <2>2. /\ candidates \in SUBSET UserIds
        /\ candidates \subseteq Registered
        /\ call[r].user \notin candidates
    BY DEF GetActiveUsersByTeam, GetUsersByTeam, Registered
  <2>3. /\ list \in Seq(UserIds)
        /\ Distinct(list)
        /\ Members(list) \subseteq candidates
        /\ Len(list) <= ReviewerCap
    BY <1>3, <2>2, Selection
  <2>4. ListOK(list, call[r].user)
    BY <2>2, <2>3 DEF ListOK, WellFormed
  <2>5. LocalsOf(r)
    BY <1>3, <2>3 DEF LocalsOf
  <2>6. /\ reviewers'[r] = list /\ call'[r] = call[r] /\ pc'[r] = "CreatePR.CreatePR"
    BY <1>3 DEF Goto
  <2>7. ListOK(reviewers[r], call[r].user)'
    BY <1>1, <2>4, <2>6 DEF ListOK, Safe, Grows
  <2>8. call'[r].user \in Registered'
    BY <1>1, <2>1, <2>6 DEF LocalsOK, LocalOK, Safe, Grows
  <2>9. SweepOK(r)'
    BY <1>1, <1>3, SweepStays DEF Safe
  <2>10. LocalOK(r)'
    BY <2>6, <2>7, <2>8, <2>9 DEF LocalOK, ReassignPoints
  <2> QED BY <1>1, <1>3, <2>1, <2>5, <2>10, GotoKeeps
<1> QED BY <1>2, <1>3 DEF CreatePR_GetActiveUsersByTeam

\* The INSERT keeps the invariant, although author and list are older reads.
LEMMA CreatePR_CreatePRKeeps ==
    ASSUME IInv, NEW r \in Requests, CreatePR_CreatePR(r)
    PROVE  IInv'
<1> USE DEF IInv, TypeOK, RequestsTypeOK
<1>1. /\ pc[r] \in CreatePRPoints /\ pc[r] = "CreatePR.CreatePR"
      /\ SameOperation(pc[r], "CreatePR.GetPRByID")
  BY DEF CreatePR_CreatePR, SameOperation, CreatePRPoints
<1>2. CASE (Fails(r) \/ Finish(r, "ErrPRExists")) /\ UNCHANGED tables
  BY <1>2, ReadSafe, FailsKeeps, FinishKeeps DEF Answers
<1>3. CASE /\ InsertPR(call[r].pr, call[r].user, reviewers[r])
           /\ \/ Fails(r)
              \/ Goto(r, "CreatePR.GetPRByID") /\ UNCHANGED locals
  <2>1. call[r].pr \in PRIds
    BY <1>1 DEF CreatePRCall
  <2>2. call[r].user \in Registered /\ ListOK(reviewers[r], call[r].user)
    BY <1>1 DEF LocalsOK, LocalOK
  <2>3. Safe
    BY <1>3, <2>1, <2>2, InsertSafe
  <2> QED BY <1>1, <1>3, <2>3, FailsKeeps, PlainKeeps DEF Plain
<1> QED BY <1>2, <1>3 DEF CreatePR_CreatePR

\* Reading the new row back keeps the invariant.
LEMMA CreatePR_GetPRByIDKeeps ==
    ASSUME IInv, NEW r \in Requests, CreatePR_GetPRByID(r)
    PROVE  IInv'
<1>1. Safe
  BY ReadSafe DEF CreatePR_GetPRByID
<1>2. {"OK", "ErrPRNotFound"} \subseteq Answers
  BY DEF Answers
<1> QED BY <1>1, <1>2, FailsKeeps, FinishKeeps DEF CreatePR_GetPRByID

-----------------------------------------------------------------------------
(* MergePR.                                                                *)

\* Reading the pull request to merge keeps the invariant.
LEMMA MergePR_GetPRByIDKeeps ==
    ASSUME IInv, NEW r \in Requests, MergePR_GetPRByID(r)
    PROVE  IInv'
<1> USE DEF IInv, TypeOK, RequestsTypeOK
<1>1. Safe
  BY ReadSafe DEF MergePR_GetPRByID
<1>2. CASE Fails(r)
  BY <1>1, <1>2, FailsKeeps
<1>3. CASE Finish(r, "ErrPRNotFound") \/ Finish(r, "OK")
  BY <1>1, <1>3, FinishKeeps DEF Answers
<1>4. CASE /\ GetPRByID(call[r].pr) # Null
           /\ pr' = [pr EXCEPT ![r] = GetPRByID(call[r].pr)]
           /\ Goto(r, "MergePR.UpdatePRStatusWithMergedAt")
           /\ UNCHANGED <<team, reviewers, sweep>>
  <2>1. /\ pc[r] \in MergePRPoints
        /\ SameOperation(pc[r], "MergePR.UpdatePRStatusWithMergedAt")
    BY DEF MergePR_GetPRByID, SameOperation, MergePRPoints
  <2>2. call[r].pr \in PRIds
    BY <2>1 DEF MergePRCall
  <2>3. GetPRByID(call[r].pr) \in PullRequest
    BY <1>4, <2>2 DEF GetPRByID, TablesTypeOK
  <2>4. LocalsOf(r)
    BY <1>4, <2>3 DEF LocalsOf
  <2>5. pc'[r] = "MergePR.UpdatePRStatusWithMergedAt" /\ call'[r] = call[r]
    BY <1>4 DEF Goto
  <2>6. PRExists(call[r].pr)'
    BY <1>1, <1>4, <2>2, <2>5 DEF PRExists, GetPRByID, Safe, Grows
  <2>7. SweepOK(r)'
    BY <1>1, <1>4, SweepStays DEF Safe
  <2>8. LocalOK(r)'
    BY <2>5, <2>6, <2>7 DEF LocalOK, ReassignPoints
  <2> QED BY <1>1, <1>4, <2>1, <2>4, <2>8, GotoKeeps
<1> QED BY <1>2, <1>3, <1>4 DEF MergePR_GetPRByID

\* Marking the pull request MERGED keeps the invariant.
LEMMA MergePR_UpdatePRStatusWithMergedAtKeeps ==
    ASSUME IInv, NEW r \in Requests, MergePR_UpdatePRStatusWithMergedAt(r)
    PROVE  IInv'
<1> USE DEF IInv, TypeOK, RequestsTypeOK
<1>1. pc[r] \in MergePRPoints /\ pc[r] = "MergePR.UpdatePRStatusWithMergedAt"
  BY DEF MergePR_UpdatePRStatusWithMergedAt, MergePRPoints
<1>2. call[r].pr \in PRIds /\ PRExists(call[r].pr)
  BY <1>1 DEF MergePRCall, LocalsOK, LocalOK
<1>3. Safe
  BY <1>2, ReadSafe, MergeSafe DEF MergePR_UpdatePRStatusWithMergedAt
<1>4. "OK" \in Answers
  BY DEF Answers
<1> QED BY <1>3, <1>4, FailsKeeps, FinishKeeps DEF MergePR_UpdatePRStatusWithMergedAt

-----------------------------------------------------------------------------
(* ReassignReviewer.                                                       *)

\* Reading the pull request keeps the invariant: the old reviewer is in the
\* copy that was read, and the copy is well-formed.
LEMMA Reassign_GetPRByIDKeeps ==
    ASSUME IInv, NEW r \in Requests, Reassign_GetPRByID(r)
    PROVE  IInv'
<1> USE DEF IInv, TypeOK, RequestsTypeOK
<1>1. Safe
  BY ReadSafe DEF Reassign_GetPRByID
<1>2. CASE Fails(r)
  BY <1>1, <1>2, FailsKeeps
<1>3. CASE \/ Finish(r, "ErrPRNotFound")
           \/ Finish(r, "ErrPRMerged")
           \/ Finish(r, "ErrReviewerNotAssigned")
  BY <1>1, <1>3, FinishKeeps DEF Answers
<1>4. CASE /\ GetPRByID(call[r].pr) # Null
           /\ call[r].user \in Members(GetPRByID(call[r].pr).assigned_reviewers)
           /\ pr' = [pr EXCEPT ![r] = GetPRByID(call[r].pr)]
           /\ Goto(r, "Reassign.GetUserByID")
           /\ UNCHANGED <<team, reviewers, sweep>>
  <2>1. /\ pc[r] \in ReassignPoints
        /\ SameOperation(pc[r], "Reassign.GetUserByID")
    BY DEF Reassign_GetPRByID, SameOperation, ReassignPoints
  <2>2. call[r].pr \in PRIds
    BY <2>1 DEF ReassignCall
  <2>3. /\ GetPRByID(call[r].pr) \in PullRequest
        /\ CopyOK(GetPRByID(call[r].pr), call[r].pr)
    BY <1>4, <2>2 DEF GetPRByID, TablesTypeOK, ReviewersWellFormed, RowOK, CopyOK, PRExists
  <2>4. LocalsOf(r)
    BY <1>4, <2>3 DEF LocalsOf
  <2>5. /\ pc'[r] = "Reassign.GetUserByID"
        /\ call'[r] = call[r]
        /\ pr'[r] = GetPRByID(call[r].pr)
        /\ pr'[r] # Null
    BY <1>4 DEF Goto
  <2>6. CopyOK(pr[r], call[r].pr)'
    BY <1>1, <2>2, <2>3, <2>5 DEF CopyOK, ListOK, Safe, Grows
  <2>7. SweepOK(r)'
    BY <1>1, <1>4, SweepStays DEF Safe
  <2>8. LocalOK(r)'
    BY <1>4, <2>5, <2>6, <2>7 DEF LocalOK
  <2> QED BY <1>1, <1>4, <2>1, <2>4, <2>8, GotoKeeps
<1> QED BY <1>2, <1>3, <1>4 DEF Reassign_GetPRByID

\* The copy a reassignment holds on to outlives its own reads.
LEMMA ReassignCopyStays ==
    ASSUME IInv, Safe, NEW r \in Requests, UNCHANGED <<pr, call>>,
           pc[r] \in ReassignPoints \ {"Reassign.GetPRByID"}
    PROVE  /\ call[r].pr \in PRIds
           /\ pr'[r] # Null
           /\ CopyOK(pr[r], call[r].pr)'
           /\ call'[r].user \in Members(pr'[r].assigned_reviewers)
<1>1. call[r].pr \in PRIds
  BY DEF IInv, TypeOK, ReassignCall
<1>2. /\ pr[r] # Null
      /\ CopyOK(pr[r], call[r].pr)
      /\ call[r].user \in Members(pr[r].assigned_reviewers)
  BY DEF IInv, LocalsOK, LocalOK
<1> QED BY <1>1, <1>2 DEF CopyOK, ListOK, Safe, Grows

\* Reading the old reviewer keeps the invariant.
LEMMA Reassign_GetUserByIDKeeps ==
    ASSUME IInv, NEW r \in Requests, Reassign_GetUserByID(r)
    PROVE  IInv'
<1> USE DEF IInv, TypeOK, RequestsTypeOK
<1>1. Safe
  BY ReadSafe DEF Reassign_GetUserByID
<1>2. CASE Fails(r)
  BY <1>1, <1>2, FailsKeeps
<1>3. CASE Finish(r, "ErrUserNotFound")
  BY <1>1, <1>3, FinishKeeps DEF Answers
<1>4. CASE /\ UserExists(call[r].user)
           /\ team' = [team EXCEPT ![r] = GetUserByID(call[r].user).team_name]
           /\ Goto(r, "Reassign.GetActiveUsersByTeam")
           /\ UNCHANGED <<pr, reviewers, sweep>>
  <2>1. /\ pc[r] \in ReassignPoints \ {"Reassign.GetPRByID"}
        /\ SameOperation(pc[r], "Reassign.GetActiveUsersByTeam")
    BY DEF Reassign_GetUserByID, SameOperation, ReassignPoints
  <2>2. call[r].user \in UserIds
    BY <2>1 DEF ReassignCall
  <2>3. GetUserByID(call[r].user).team_name \in TeamNames
    BY <1>4, <2>2 DEF TablesTypeOK, UserExists, GetUserByID, User
  <2>4. LocalsOf(r)
    BY <1>4, <2>3 DEF LocalsOf
  <2>5. UNCHANGED call /\ pc'[r] = "Reassign.GetActiveUsersByTeam"
    BY <1>4 DEF Goto
  <2>6. SweepOK(r)'
    BY <1>1, <1>4, SweepStays DEF Safe
  <2>7. LocalOK(r)'
    BY <1>1, <1>4, <2>1, <2>5, <2>6, ReassignCopyStays DEF LocalOK
  <2> QED BY <1>1, <1>4, <2>1, <2>4, <2>7, GotoKeeps
<1> QED BY <1>2, <1>3, <1>4 DEF Reassign_GetUserByID

\* Choosing the new reviewer keeps the invariant: exchanging one reviewer of a
\* well-formed list for a candidate leaves it well-formed.
LEMMA Reassign_GetActiveUsersByTeamKeeps ==
    ASSUME IInv, NEW r \in Requests, Reassign_GetActiveUsersByTeam(r)
    PROVE  IInv'
<1> USE DEF IInv, TypeOK, RequestsTypeOK
<1>1. Safe
  BY ReadSafe DEF Reassign_GetActiveUsersByTeam
<1>2. CASE Fails(r)
  BY <1>1, <1>2, FailsKeeps
<1>3. CASE Finish(r, "ErrNoCandidate")
  BY <1>1, <1>3, FinishKeeps DEF Answers
<1>4. ASSUME NEW new \in ReassignCandidates(r),
             reviewers' = [reviewers EXCEPT ![r] =
                 Replace(pr[r].assigned_reviewers, call[r].user, new)],
             Goto(r, "Reassign.UpdatePRReviewers"),
             UNCHANGED <<pr, team, sweep>>
      PROVE  IInv'
  <2> DEFINE old == pr[r].assigned_reviewers
             list == Replace(old, call[r].user, new)
  <2>1. /\ pc[r] = "Reassign.GetActiveUsersByTeam"
        /\ pc[r] \in ReassignPoints \ {"Reassign.GetPRByID"}
        /\ SameOperation(pc[r], "Reassign.UpdatePRReviewers")
    BY DEF Reassign_GetActiveUsersByTeam, SameOperation, ReassignPoints
  <2>2. /\ pr[r] \in PullRequest
        /\ CopyOK(pr[r], call[r].pr)
        /\ call[r].user \in Members(old)
    BY <2>1 DEF LocalsOK, LocalOK
  <2>3. /\ old \in Seq(UserIds)
        /\ ListOK(old, pr[r].author_id)
    BY <2>2 DEF CopyOK, PullRequest
  <2>4. /\ new \in UserIds /\ new \in Registered
        /\ new \notin Members(old) /\ new # pr[r].author_id
    BY DEF ReassignCandidates, GetActiveUsersByTeam, GetUsersByTeam, Registered
  <2>5. /\ list \in Seq(UserIds)
        /\ ListOK(list, pr[r].author_id)
    BY <2>2, <2>3, <2>4, ReplaceOne DEF ListOK, WellFormed
  <2>6. LocalsOf(r)
    BY <1>4, <2>5 DEF LocalsOf
  <2>7. /\ reviewers'[r] = list /\ UNCHANGED call /\ pr'[r] = pr[r]
        /\ pc'[r] = "Reassign.UpdatePRReviewers"
    BY <1>4 DEF Goto
  <2>8. ListOK(reviewers[r], pr[r].author_id)'
    BY <1>1, <2>5, <2>7 DEF ListOK, Safe, Grows
  <2>9. SweepOK(r)'
    BY <1>1, <1>4, SweepStays DEF Safe
  <2>10. LocalOK(r)'
    BY <1>1, <1>4, <2>1, <2>7, <2>8, <2>9, ReassignCopyStays DEF LocalOK
  <2> QED BY <1>1, <1>4, <2>1, <2>6, <2>10, GotoKeeps
<1> QED BY <1>2, <1>3, <1>4 DEF Reassign_GetActiveUsersByTeam

\* Writing the list keeps the invariant, whatever the row holds by now: its
\* author is still the one the list was computed for.
LEMMA Reassign_UpdatePRReviewersKeeps ==
    ASSUME IInv, NEW r \in Requests, Reassign_UpdatePRReviewers(r)
    PROVE  IInv'
<1> USE DEF IInv, TypeOK, RequestsTypeOK
<1>1. pc[r] \in ReassignPoints /\ pc[r] = "Reassign.UpdatePRReviewers"
  BY DEF Reassign_UpdatePRReviewers, ReassignPoints
<1>2. /\ call[r].pr \in PRIds
      /\ PRExists(call[r].pr)
      /\ ListOK(reviewers[r], pull_requests[call[r].pr].author_id)
  BY <1>1 DEF ReassignCall, LocalsOK, LocalOK, CopyOK
<1>3. Safe
  BY <1>2, ReadSafe, ReassignSafe DEF Reassign_UpdatePRReviewers
<1>4. "OK" \in Answers
  BY DEF Answers
<1> QED BY <1>3, <1>4, FailsKeeps, FinishKeeps DEF Reassign_UpdatePRReviewers

-----------------------------------------------------------------------------
(* CreateTeam and SetUserActive.                                           *)

\* Asking whether the team exists keeps the invariant.
LEMMA CreateTeam_TeamExistsKeeps ==
    ASSUME IInv, NEW r \in Requests, CreateTeam_TeamExists(r)
    PROVE  IInv'
<1>1. Safe
  BY ReadSafe DEF CreateTeam_TeamExists
<1>2. SameOperation(pc[r], "CreateTeam.CreateTeam")
  BY DEF CreateTeam_TeamExists, SameOperation, CreateTeamPoints
<1>3. "ErrTeamExists" \in Answers /\ "CreateTeam.CreateTeam" \in Plain
  BY DEF Answers, Plain
<1> QED BY <1>1, <1>2, <1>3, FailsKeeps, FinishKeeps, PlainKeeps
        DEF CreateTeam_TeamExists

\* The transaction that inserts and moves the members keeps the invariant.
LEMMA CreateTeam_CreateTeamKeeps ==
    ASSUME IInv, NEW r \in Requests, CreateTeam_CreateTeam(r)
    PROVE  IInv'
<1>1. /\ pc[r] \in CreateTeamPoints
      /\ SameOperation(pc[r], "CreateTeam.GetTeam")
  BY DEF CreateTeam_CreateTeam, SameOperation, CreateTeamPoints
<1>2. call[r].team \in TeamNames /\ call[r].members \in TeamMembers
  BY <1>1 DEF IInv, TypeOK, CreateTeamCall
<1>3. Safe
  BY <1>2, ReadSafe, CreateTeamSafe DEF CreateTeam_CreateTeam
<1>4. "CreateTeam.GetTeam" \in Plain
  BY DEF Plain
<1> QED BY <1>1, <1>3, <1>4, FailsKeeps, PlainKeeps DEF CreateTeam_CreateTeam

\* Reading the team back keeps the invariant.
LEMMA CreateTeam_GetTeamKeeps ==
    ASSUME IInv, NEW r \in Requests, CreateTeam_GetTeam(r)
    PROVE  IInv'
<1>1. Safe
  BY ReadSafe DEF CreateTeam_GetTeam
<1>2. {"OK", "ErrTeamNotFound"} \subseteq Answers
  BY DEF Answers
<1> QED BY <1>1, <1>2, FailsKeeps, FinishKeeps DEF CreateTeam_GetTeam

\* Setting the flag of a user keeps the invariant.
LEMMA SetUserActive_SetUserActiveKeeps ==
    ASSUME IInv, NEW r \in Requests, SetUserActive_SetUserActive(r)
    PROVE  IInv'
<1>1. /\ pc[r] \in SetActivePoints
      /\ SameOperation(pc[r], "SetUserActive.GetUserByID")
  BY DEF SetUserActive_SetUserActive, SameOperation, SetActivePoints
<1>2. call[r].user \in UserIds /\ call[r].is_active \in BOOLEAN
  BY <1>1 DEF IInv, TypeOK, SetActiveCall
<1>3. Safe
  BY <1>2, ReadSafe, SetUserActiveSafe DEF SetUserActive_SetUserActive
<1>4. "ErrUserNotFound" \in Answers /\ "SetUserActive.GetUserByID" \in Plain
  BY DEF Answers, Plain
<1> QED BY <1>1, <1>3, <1>4, FailsKeeps, FinishKeeps, PlainKeeps
        DEF SetUserActive_SetUserActive

\* Reading the user back keeps the invariant.
LEMMA SetUserActive_GetUserByIDKeeps ==
    ASSUME IInv, NEW r \in Requests, SetUserActive_GetUserByID(r)
    PROVE  IInv'
<1>1. Safe
  BY ReadSafe DEF SetUserActive_GetUserByID
<1>2. {"OK", "ErrUserNotFound"} \subseteq Answers
  BY DEF Answers
<1> QED BY <1>1, <1>2, FailsKeeps, FinishKeeps DEF SetUserActive_GetUserByID

-----------------------------------------------------------------------------
(* DeactivateTeamUsers: around the loops.                                  *)

\* Asking whether the team exists keeps the invariant.
LEMMA Deactivate_TeamExistsKeeps ==
    ASSUME IInv, NEW r \in Requests, Deactivate_TeamExists(r)
    PROVE  IInv'
<1>1. Safe
  BY ReadSafe DEF Deactivate_TeamExists
<1>2. SameOperation(pc[r], "Deactivate.DeactivateUsersByTeam")
  BY DEF Deactivate_TeamExists, SameOperation, DeactivatePoints
<1>3. "ErrTeamNotFound" \in Answers /\ "Deactivate.DeactivateUsersByTeam" \in Plain
  BY DEF Answers, Plain
<1> QED BY <1>1, <1>2, <1>3, FailsKeeps, FinishKeeps, PlainKeeps
        DEF Deactivate_TeamExists

\* The UPDATE of the users keeps the invariant, and so does remembering them.
LEMMA Deactivate_DeactivateUsersByTeamKeeps ==
    ASSUME IInv, NEW r \in Requests, Deactivate_DeactivateUsersByTeam(r)
    PROVE  IInv'
<1> USE DEF IInv, TypeOK, RequestsTypeOK
<1> DEFINE ids == UsersToDeactivate(call[r].team, call[r].user_ids)
<1>1. /\ pc[r] \in DeactivatePoints
      /\ SameOperation(pc[r], "Deactivate.GetOpenPRsByReviewers")
  BY DEF Deactivate_DeactivateUsersByTeam, SameOperation, DeactivatePoints
<1>2. call[r].team \in TeamNames /\ call[r].user_ids \in SUBSET UserIds
  BY <1>1 DEF DeactivateCall
<1>3. Safe
  BY <1>2, ReadSafe, DeactivateSafe DEF Deactivate_DeactivateUsersByTeam
<1>4. CASE Fails(r) \/ Finish(r, "OK")
  BY <1>3, <1>4, FailsKeeps, FinishKeeps DEF Answers
<1>5. CASE /\ sweep' = [sweep EXCEPT ![r].deactivated = ids]
           /\ Goto(r, "Deactivate.GetOpenPRsByReviewers")
           /\ UNCHANGED <<pr, team, reviewers>>
  <2>1. ids \in SUBSET UserIds
    BY DEF UsersToDeactivate, GetUsersByTeam
  <2>2. LocalsOf(r)
    BY <1>5, <2>1 DEF LocalsOf, Sweep
  <2>3. pc'[r] = "Deactivate.GetOpenPRsByReviewers"
    BY <1>5 DEF Goto
  <2>4. /\ sweep'[r].open = sweep[r].open
        /\ sweep'[r].updates = sweep[r].updates
        /\ sweep'[r].cache = sweep[r].cache
    BY <1>5 DEF Sweep
  <2>5. SweepOK(r)'
    BY <1>3, <2>4, SweepHolds, SweepMayHold DEF Safe
  <2>6. LocalOK(r)'
    BY <2>3, <2>5, PlainOK DEF Plain
  <2> QED BY <1>1, <1>3, <1>5, <2>2, <2>6, GotoKeeps
<1> QED BY <1>4, <1>5 DEF Deactivate_DeactivateUsersByTeam

\* Reading the open pull requests keeps the invariant: the rows that are kept
\* for the loop are well-formed copies.
LEMMA Deactivate_GetOpenPRsByReviewersKeeps ==
    ASSUME IInv, NEW r \in Requests, Deactivate_GetOpenPRsByReviewers(r)
    PROVE  IInv'
<1> USE DEF IInv, TypeOK, RequestsTypeOK
<1> DEFINE found == GetOpenPRsByReviewers(sweep[r].deactivated)
           rows == [p \in PRIds |-> IF p \in found THEN pull_requests[p] ELSE Null]
<1>1. Safe
  BY ReadSafe DEF Deactivate_GetOpenPRsByReviewers
<1>2. CASE Fails(r) \/ Finish(r, "OK")
  BY <1>1, <1>2, FailsKeeps, FinishKeeps DEF Answers
<1>3. CASE /\ sweep' = [sweep EXCEPT ![r].open = rows]
           /\ Goto(r, "Deactivate.NextPR")
           /\ UNCHANGED <<pr, team, reviewers>>
  <2>1. SameOperation(pc[r], "Deactivate.NextPR")
    BY DEF Deactivate_GetOpenPRsByReviewers, SameOperation, DeactivatePoints
  <2>2. rows \in [PRIds -> {Null} \cup PullRequest]
    BY DEF TablesTypeOK
  <2>3. LocalsOf(r)
    BY <1>3, <2>2 DEF LocalsOf, Sweep
  <2>4. /\ sweep'[r].open = rows
        /\ sweep'[r].updates = sweep[r].updates
        /\ sweep'[r].cache = sweep[r].cache
    BY <1>3 DEF Sweep
  <2>5. ASSUME NEW p \in PRIds, rows[p] # Null
        PROVE  CopyOK(rows[p], p)
    BY <2>5 DEF ReviewersWellFormed, RowOK, CopyOK, PRExists, GetPRByID
  <2>6. SweepOK(r)'
    BY <1>1, <2>4, <2>5, SweepHolds, SweepMayHold DEF Safe
  <2>7. pc'[r] = "Deactivate.NextPR"
    BY <1>3 DEF Goto
  <2>8. LocalOK(r)'
    BY <2>6, <2>7, PlainOK DEF Plain
  <2> QED BY <1>1, <1>3, <2>1, <2>3, <2>8, GotoKeeps
<1> QED BY <1>2, <1>3 DEF Deactivate_GetOpenPRsByReviewers

\* Leaving the loop keeps the invariant.
LEMMA Deactivate_LoopEndsKeeps ==
    ASSUME IInv, NEW r \in Requests, Deactivate_LoopEnds(r)
    PROVE  IInv'
<1>1. Safe
  BY ReadSafe DEF Deactivate_LoopEnds
<1>2. SameOperation(pc[r], "Deactivate.BulkUpdatePRReviewers")
  BY DEF Deactivate_LoopEnds, SameOperation, DeactivatePoints
<1>3. "OK" \in Answers /\ "Deactivate.BulkUpdatePRReviewers" \in Plain
  BY DEF Answers, Plain
<1> QED BY <1>1, <1>2, <1>3, FinishKeeps, PlainKeeps DEF Deactivate_LoopEnds

\* Writing the new lists keeps the invariant: each is fit for the pull request
\* it was computed for, whatever its row holds by now.
LEMMA Deactivate_BulkUpdatePRReviewersKeeps ==
    ASSUME IInv, NEW r \in Requests, Deactivate_BulkUpdatePRReviewers(r)
    PROVE  IInv'
<1>1. /\ sweep[r].updates \in [PRIds -> {Null} \cup Seq(UserIds)]
      /\ \A p \in PRIds : sweep[r].updates[p] # Null =>
            PRExists(p) /\ ListOK(sweep[r].updates[p], pull_requests[p].author_id)
  BY DEF IInv, TypeOK, RequestsTypeOK, Sweep, LocalsOK, LocalOK, SweepOK
<1>2. Safe
  BY <1>1, ReadSafe, BulkUpdateSafe DEF Deactivate_BulkUpdatePRReviewers
<1>3. "OK" \in Answers
  BY DEF Answers
<1> QED BY <1>2, <1>3, FailsKeeps, FinishKeeps DEF Deactivate_BulkUpdatePRReviewers

-----------------------------------------------------------------------------
(* DeactivateTeamUsers: inside the loops.                                  *)

\* Taking the next pull request keeps the invariant: its new list starts empty.
LEMMA Deactivate_NextPRKeeps ==
    ASSUME IInv, NEW r \in Requests, Deactivate_NextPR(r)
    PROVE  IInv'
<1> USE DEF IInv, TypeOK, RequestsTypeOK
<1>1. Safe
  BY ReadSafe DEF Deactivate_NextPR
<1>2. /\ SameOperation(pc[r], "Deactivate.NextReviewer")
      /\ Goto(r, "Deactivate.NextReviewer")
      /\ UNCHANGED team
      /\ reviewers' = [reviewers EXCEPT ![r] = <<>>]
  BY DEF Deactivate_NextPR, SameOperation, DeactivatePoints
<1>3. PICK p \in Remaining(r) :
         /\ pr' = [pr EXCEPT ![r] = sweep[r].open[p]]
         /\ sweep' = [sweep EXCEPT ![r].open[p] = Null, ![r].target = p, ![r].next = 1]
  BY DEF Deactivate_NextPR
<1>4. p \in PRIds /\ sweep[r].open[p] # Null
  BY DEF Remaining
<1> DEFINE rest == [sweep[r].open EXCEPT ![p] = Null]
<1>5. /\ sweep[r] \in Sweep
      /\ sweep[r].open \in [PRIds -> {Null} \cup PullRequest]
      /\ rest \in [PRIds -> {Null} \cup PullRequest]
  BY <1>4 DEF Sweep
<1>6. /\ sweep[r].open[p] \in PullRequest
      /\ CopyOK(sweep[r].open[p], p)
  BY <1>4, <1>5 DEF LocalsOK, LocalOK, SweepOK
<1>7. /\ sweep'[r] = [sweep[r] EXCEPT !.open = rest, !.target = p, !.next = 1]
      /\ \A s \in Requests \ {r} : sweep'[s] = sweep[s]
      /\ DOMAIN sweep' = Requests
  BY <1>3
<1>8. /\ sweep'[r].open = rest
      /\ sweep'[r].updates = sweep[r].updates
      /\ sweep'[r].cache = sweep[r].cache
      /\ sweep'[r].target = p
      /\ sweep'[r].next = 1
      /\ sweep'[r] \in Sweep
  <2> HIDE DEF rest, IInv
  <2>1. sweep'[r] = [deactivated |-> sweep[r].deactivated, open |-> rest,
                     target |-> p, next |-> 1, cache |-> sweep[r].cache,
                     updates |-> sweep[r].updates]
    BY <1>5, <1>7, Zenon DEF Sweep
  <2> QED BY <1>4, <1>5, <2>1 DEF Sweep
<1>9. sweep' \in [Requests -> Sweep]
  BY <1>3, <1>7, <1>8
<1>10. reviewers'[r] = <<>> /\ reviewers' \in [Requests -> Seq(UserIds)]
  BY <1>2, EmptyList
<1>11. LocalsOf(r)
  BY <1>2, <1>3, <1>6, <1>7, <1>9, <1>10 DEF LocalsOf
<1>12. pc'[r] = "Deactivate.NextReviewer" /\ pr'[r] = sweep[r].open[p]
  BY <1>2, <1>3 DEF Goto
<1>13. SweepOK(r)'
  <2>1. \A q \in PRIds : sweep'[r].open[q] # Null => CopyOK(sweep[r].open[q], q)
    BY <1>4, <1>5, <1>8, SweepHolds
  <2>2. \A q \in PRIds : sweep'[r].open[q] # Null => sweep'[r].open[q] = sweep[r].open[q]
    BY <1>4, <1>5, <1>8
  <2>3. \A q \in PRIds : rest[q] # Null => CopyOK(rest[q], q)
    BY <1>8, <2>1, <2>2
  <2> HIDE DEF rest, IInv
  <2> QED BY <1>1, <1>8, <2>3, SweepHolds, SweepMayHold DEF Safe
<1>14. CopyOK(pr[r], sweep[r].target)'
  BY <1>1, <1>4, <1>6, <1>8, <1>12 DEF CopyOK, ListOK, Safe, Grows
<1>15. ListInProgress(r)'
  <2>1. Len(pr'[r].assigned_reviewers) \in Nat
    BY <1>6, <1>12 DEF PullRequest
  <2>2. ListOK(reviewers[r], pr[r].author_id)'
    BY <1>10, EmptyList DEF ListOK
  <2>3. Members(reviewers[r])' = {} /\ Len(reviewers'[r]) = 0
    BY <1>10, EmptyList
  <2> QED BY <1>8, <2>1, <2>2, <2>3 DEF ListInProgress
<1>16. LocalOK(r)'
  BY <1>4, <1>6, <1>8, <1>12, <1>13, <1>14, <1>15, RepositoryAssumption
     DEF LocalOK, ReassignPoints
<1> QED BY <1>1, <1>2, <1>11, <1>16, GotoKeeps

\* The list the loop is working on and the list it has built so far.
LEMMA LoopHolds ==
    ASSUME IInv, NEW r \in Requests,
           pc[r] \in {"Deactivate.NextReviewer", "Deactivate.GetActiveUsersByTeam"}
    PROVE  /\ pr[r] \in PullRequest
           /\ pr[r].assigned_reviewers \in Seq(UserIds)
           /\ pr[r].author_id \in UserIds
           /\ reviewers[r] \in Seq(UserIds)
           /\ sweep[r].target \in PRIds
           /\ CopyOK(pr[r], sweep[r].target)
           /\ ListInProgress(r)
           /\ ListOK(pr[r].assigned_reviewers, pr[r].author_id)
<1>1. /\ pr[r] # Null
      /\ sweep[r].target \in PRIds
      /\ CopyOK(pr[r], sweep[r].target)
      /\ ListInProgress(r)
  BY DEF IInv, LocalsOK, LocalOK
<1>2. pr[r] \in PullRequest /\ reviewers[r] \in Seq(UserIds)
  BY <1>1 DEF IInv, TypeOK, RequestsTypeOK
<1> QED BY <1>1, <1>2 DEF PullRequest, CopyOK

\* The copy of the pull request the loop is at outlives its reads.
LEMMA LoopCopyStays ==
    ASSUME IInv, Safe, NEW r \in Requests, pr'[r] = pr[r],
           sweep'[r].target = sweep[r].target,
           pc[r] \in {"Deactivate.NextReviewer", "Deactivate.GetActiveUsersByTeam"}
    PROVE  /\ pr'[r] # Null
           /\ sweep'[r].target \in PRIds
           /\ CopyOK(pr[r], sweep[r].target)'
<1>1. /\ pr[r] \in PullRequest
      /\ sweep[r].target \in PRIds
      /\ CopyOK(pr[r], sweep[r].target)
  BY LoopHolds
<1> QED BY <1>1, RepositoryAssumption DEF CopyOK, ListOK, Safe, Grows

\* The list has grown by no one, or by a user who is neither in it, nor the
\* author, nor still to come.
Grown(r, list) ==
    \/ list = reviewers[r]
    \/ \E u \in Registered :
          /\ list = Append(reviewers[r], u)
          /\ u # pr[r].author_id
          /\ u \notin Members(reviewers[r])
          /\ \A i \in sweep[r].next + 1 .. Len(pr[r].assigned_reviewers) :
                pr[r].assigned_reviewers[i] # u

\* Going on with the next reviewer keeps the invariant.
LEMMA ContinueKeeps ==
    ASSUME IInv, Safe, NEW r \in Requests, NEW STATE list, NEW STATE cache,
           pc[r] \in {"Deactivate.NextReviewer", "Deactivate.GetActiveUsersByTeam"},
           sweep[r].next <= Len(pr[r].assigned_reviewers),
           Grown(r, list),
           cache \in [TeamNames -> {Null} \cup SUBSET UserIds],
           \A t \in TeamNames : cache[t] # Null => cache[t] \subseteq Registered,
           Continue(r, list, cache)
    PROVE  IInv'
<1> DEFINE old == pr[r].assigned_reviewers
           next == sweep[r].next
<1>1. SameOperation(pc[r], "Deactivate.NextReviewer")
  BY DEF SameOperation, DeactivatePoints
<1>2. /\ old \in Seq(UserIds) /\ reviewers[r] \in Seq(UserIds)
      /\ ListOK(old, pr[r].author_id)
      /\ next \in 1 .. Len(old) + 1
      /\ Len(reviewers[r]) < next
      /\ ListOK(reviewers[r], pr[r].author_id)
      /\ \A i \in next .. Len(old) : old[i] \notin Members(reviewers[r])
      /\ Len(old) \in Nat /\ Len(reviewers[r]) \in Nat /\ next \in Nat
  BY LoopHolds DEF ListInProgress
<1>3. /\ sweep[r] \in Sweep
      /\ reviewers \in [Requests -> Seq(UserIds)]
      /\ sweep \in [Requests -> Sweep]
      /\ pc \in [Requests -> {"idle", "done"} \cup Points]
  BY DEF IInv, TypeOK, RequestsTypeOK
<1>4. /\ list \in Seq(UserIds)
      /\ Distinct(list)
      /\ pr[r].author_id \notin Members(list)
      /\ Members(list) \subseteq Registered
      /\ Len(list) <= Len(reviewers[r]) + 1
      /\ \A i \in next + 1 .. Len(old) : old[i] \notin Members(list)
  <2>1. CASE list = reviewers[r]
    BY <1>2, <2>1 DEF ListOK, WellFormed
  <2>2. ASSUME NEW u \in Registered,
               list = Append(reviewers[r], u),
               u # pr[r].author_id,
               u \notin Members(reviewers[r]),
               \A i \in next + 1 .. Len(old) : old[i] # u
        PROVE  <1>4!:
    <3>1. u \in UserIds
      BY DEF Registered
    <3>2. /\ list \in Seq(UserIds)
          /\ Len(list) = Len(reviewers[r]) + 1
          /\ Members(list) = Members(reviewers[r]) \cup {u}
          /\ Distinct(list)
      BY <1>2, <2>2, <3>1, AppendOne DEF ListOK, WellFormed
    <3>3. /\ pr[r].author_id \notin Members(list)
          /\ Members(list) \subseteq Registered
      BY <1>2, <2>2, <3>2 DEF ListOK, WellFormed
    <3>4. ASSUME NEW i \in next + 1 .. Len(old)
          PROVE  old[i] \notin Members(list)
      <4>1. i \in next .. Len(old)
        BY <1>2
      <4> QED BY <1>2, <2>2, <3>2, <4>1
    <3>5. Len(list) <= Len(reviewers[r]) + 1
      BY <1>2, <3>2
    <3> QED BY <3>2, <3>3, <3>4, <3>5
  <2> QED BY <2>1, <2>2 DEF Grown
<1>5. ListOK(list, pr[r].author_id)
  <2>1. Len(list) <= ReviewerCap
    BY <1>2, <1>4, RequestsAssumption DEF ListOK, WellFormed
  <2> QED BY <1>4, <2>1 DEF ListOK, WellFormed
<1>6. /\ reviewers' = [reviewers EXCEPT ![r] = list]
      /\ sweep' = [sweep EXCEPT ![r].next = @ + 1, ![r].cache = cache]
      /\ Goto(r, "Deactivate.NextReviewer")
      /\ pr' = pr /\ team' = team
  BY DEF Continue
<1>7. /\ sweep'[r] = [deactivated |-> sweep[r].deactivated, open |-> sweep[r].open,
                      target |-> sweep[r].target, next |-> next + 1, cache |-> cache,
                      updates |-> sweep[r].updates]
      /\ \A s \in Requests \ {r} : sweep'[s] = sweep[s]
      /\ DOMAIN sweep' = Requests
  BY <1>3, <1>6 DEF Sweep
<1>8. sweep'[r] \in Sweep
  BY <1>2, <1>3, <1>7 DEF Sweep
<1>9. sweep' \in [Requests -> Sweep]
  BY <1>3, <1>6, <1>7, <1>8
<1>10. LocalsOf(r)
  BY <1>3, <1>4, <1>6, <1>7, <1>9 DEF LocalsOf, IInv, TypeOK, RequestsTypeOK
<1>11. /\ pc'[r] = "Deactivate.NextReviewer" /\ pr'[r] = pr[r]
       /\ reviewers'[r] = list
       /\ sweep'[r].next = next + 1 /\ sweep'[r].target = sweep[r].target
  BY <1>3, <1>6, <1>7 DEF Goto
<1>12. SweepOK(r)'
  BY <1>7, SweepHolds, SweepMayHold DEF Safe
<1>13. ListInProgress(r)'
  <2>1. ListOK(reviewers[r], pr[r].author_id)'
    BY <1>5, <1>11 DEF ListOK, Safe, Grows
  <2>2. /\ next + 1 \in 1 .. Len(old) + 1
        /\ Len(list) < next + 1
    BY <1>2, <1>4
  <2>3. \A i \in next + 1 .. Len(old) : old[i] \notin Members(reviewers[r])'
    BY <1>4, <1>11 DEF Members
  <2> QED BY <1>11, <2>1, <2>2, <2>3 DEF ListInProgress
<1>14. LocalOK(r)'
  BY <1>11, <1>12, <1>13, LoopCopyStays DEF LocalOK, ReassignPoints
<1> QED BY <1>1, <1>6, <1>10, <1>14, GotoKeeps

\* A reviewer that cannot be replaced, because a statement failed or the user is
\* gone, is left out, which keeps the invariant.
LEMMA LeaveOutKeeps ==
    ASSUME IInv, Safe, NEW r \in Requests,
           pc[r] \in {"Deactivate.NextReviewer", "Deactivate.GetActiveUsersByTeam"},
           sweep[r].next <= Len(pr[r].assigned_reviewers),
           Continue(r, reviewers[r], sweep[r].cache)
    PROVE  IInv'
<1>1. sweep[r].cache \in [TeamNames -> {Null} \cup SUBSET UserIds]
  BY DEF IInv, TypeOK, RequestsTypeOK, Sweep
<1>2. Grown(r, reviewers[r])
  BY DEF Grown
<1> QED BY <1>1, <1>2, SweepHolds, ContinueKeeps

\* Replacing a reviewer by an eligible candidate keeps the invariant.
LEMMA ReplaceCurrentKeeps ==
    ASSUME IInv, Safe, NEW r \in Requests, NEW STATE candidates, NEW STATE cache,
           pc[r] \in {"Deactivate.NextReviewer", "Deactivate.GetActiveUsersByTeam"},
           sweep[r].next <= Len(pr[r].assigned_reviewers),
           candidates \subseteq Registered,
           cache \in [TeamNames -> {Null} \cup SUBSET UserIds],
           \A t \in TeamNames : cache[t] # Null => cache[t] \subseteq Registered,
           ReplaceCurrent(r, candidates, cache)
    PROVE  IInv'
<1>1. ASSUME NEW new \in Eligible(r, candidates),
             Continue(r, Append(reviewers[r], new), cache)
      PROVE  IInv'
  <2> DEFINE list == Append(reviewers[r], new)
  <2>1. /\ new \in Registered
        /\ new # pr[r].author_id
        /\ new \notin Members(pr[r].assigned_reviewers)
        /\ new \notin Members(reviewers[r])
    BY DEF Eligible
  <2>2. sweep[r].next \in Nat
    BY LoopHolds DEF ListInProgress
  <2>3. \A i \in sweep[r].next + 1 .. Len(pr[r].assigned_reviewers) :
           pr[r].assigned_reviewers[i] # new
    <3>1. ListInProgress(r) /\ pr[r].assigned_reviewers \in Seq(UserIds)
      BY LoopHolds
    <3>2. sweep[r].next >= 1
      BY <3>1 DEF ListInProgress
    <3> QED BY <2>1, <2>2, <3>1, <3>2 DEF Members
  <2>4. Grown(r, list) /\ Continue(r, list, cache)
    BY <1>1, <2>1, <2>3 DEF Grown
  <2> HIDE DEF list
  <2> QED BY <2>4, ContinueKeeps
<1>2. CASE Continue(r, reviewers[r], cache)
  <2>1. Grown(r, reviewers[r])
    BY DEF Grown
  <2> QED BY <1>2, <2>1, ContinueKeeps
<1> QED BY <1>1, <1>2 DEF ReplaceCurrent

\* Keeping a reviewer that was not deactivated keeps the invariant: the old list
\* names each reviewer once and not the author.
LEMMA Deactivate_KeepReviewerKeeps ==
    ASSUME IInv, NEW r \in Requests, Deactivate_KeepReviewer(r)
    PROVE  IInv'
<1> DEFINE old == pr[r].assigned_reviewers
           next == sweep[r].next
           u == old[next]
           list == Append(reviewers[r], u)
           cache == sweep[r].cache
<1>1. Safe
  BY ReadSafe DEF Deactivate_KeepReviewer
<1>2. /\ pc[r] = "Deactivate.NextReviewer"
      /\ next <= Len(old)
      /\ Continue(r, list, cache)
  BY DEF Deactivate_KeepReviewer, AtReviewer, CurrentReviewer
<1>3. /\ ListInProgress(r)
      /\ old \in Seq(UserIds)
      /\ ListOK(old, pr[r].author_id)
  BY <1>2, LoopHolds
<1>4. /\ next \in 1 .. Len(old) /\ Len(old) \in Nat /\ next \in Nat
      /\ u \notin Members(reviewers[r])
  BY <1>2, <1>3 DEF ListInProgress
<1>5. u \in Members(old)
  BY <1>4 DEF Members
<1>6. u \in Registered /\ u # pr[r].author_id
  BY <1>3, <1>5 DEF ListOK, WellFormed
<1>7. \A i \in next + 1 .. Len(old) : old[i] # u
  BY <1>3, <1>4 DEF ListOK, WellFormed, Distinct
<1>8. /\ cache \in [TeamNames -> {Null} \cup SUBSET UserIds]
      /\ \A t \in TeamNames : cache[t] # Null => cache[t] \subseteq Registered
  BY SweepHolds DEF IInv, TypeOK, RequestsTypeOK, Sweep
<1>9. Grown(r, list)
  BY <1>4, <1>6, <1>7 DEF Grown
<1> HIDE DEF list, cache
<1> QED BY <1>1, <1>2, <1>8, <1>9, ContinueKeeps

\* Reading a deactivated reviewer keeps the invariant, also when the candidates
\* are those of an earlier read.
LEMMA Deactivate_GetUserByIDKeeps ==
    ASSUME IInv, NEW r \in Requests, Deactivate_GetUserByID(r)
    PROVE  IInv'
<1> DEFINE t == GetUserByID(CurrentReviewer(r)).team_name
           cache == sweep[r].cache
           candidates == cache[t]
<1>1. Safe
  BY ReadSafe DEF Deactivate_GetUserByID
<1>2. /\ pc[r] = "Deactivate.NextReviewer"
      /\ sweep[r].next <= Len(pr[r].assigned_reviewers)
  BY DEF Deactivate_GetUserByID, AtReviewer
<1>3. CurrentReviewer(r) \in UserIds
  BY <1>2, LoopHolds DEF ListInProgress, CurrentReviewer
<1>4. UserExists(CurrentReviewer(r)) => t \in TeamNames
  BY <1>3 DEF IInv, TypeOK, RequestsTypeOK, TablesTypeOK, UserExists, GetUserByID, User
<1>5. /\ cache \in [TeamNames -> {Null} \cup SUBSET UserIds]
      /\ \A name \in TeamNames : cache[name] # Null => cache[name] \subseteq Registered
  BY SweepHolds DEF IInv, TypeOK, RequestsTypeOK, Sweep
<1>6. CASE Continue(r, reviewers[r], sweep[r].cache)
  BY <1>1, <1>2, <1>6, LeaveOutKeeps
<1>7. CASE /\ UserExists(CurrentReviewer(r))
           /\ candidates # Null
           /\ ReplaceCurrent(r, candidates, cache)
  <2>1. candidates \subseteq Registered
    BY <1>4, <1>5, <1>7
  <2> HIDE DEF candidates, cache
  <2> QED BY <1>1, <1>2, <1>5, <1>7, <2>1, ReplaceCurrentKeeps
<1>8. CASE /\ UserExists(CurrentReviewer(r))
           /\ team' = [team EXCEPT ![r] = t]
           /\ Goto(r, "Deactivate.GetActiveUsersByTeam")
           /\ UNCHANGED <<pr, reviewers, sweep>>
  <2>1. SameOperation(pc[r], "Deactivate.GetActiveUsersByTeam")
    BY <1>2 DEF SameOperation, DeactivatePoints
  <2>2. LocalsOf(r)
    BY <1>4, <1>8 DEF LocalsOf, IInv, TypeOK, RequestsTypeOK
  <2>3. pc'[r] = "Deactivate.GetActiveUsersByTeam"
    BY <1>8 DEF Goto, IInv, TypeOK, RequestsTypeOK
  <2>4. SweepOK(r)'
    BY <1>1, <1>8, SweepStays DEF Safe
  <2>5. ListInProgress(r)'
    <3>1. ListInProgress(r)
      BY <1>2, LoopHolds
    <3> QED BY <1>1, <1>8, <3>1 DEF ListInProgress, ListOK, Safe, Grows
  <2>6. LocalOK(r)'
    BY <1>1, <1>2, <1>8, <2>3, <2>4, <2>5, LoopCopyStays DEF LocalOK, ReassignPoints
  <2> QED BY <1>1, <1>8, <2>1, <2>2, <2>6, GotoKeeps
<1> QED BY <1>6, <1>7, <1>8 DEF Deactivate_GetUserByID, Skips

\* Reading and caching the candidates keeps the invariant.
LEMMA Deactivate_GetActiveUsersByTeamKeeps ==
    ASSUME IInv, NEW r \in Requests, Deactivate_GetActiveUsersByTeam(r)
    PROVE  IInv'
<1> DEFINE candidates == GetActiveUsersByTeam(team[r], Null)
           cache == [sweep[r].cache EXCEPT ![team[r]] = candidates]
<1>1. Safe
  BY ReadSafe DEF Deactivate_GetActiveUsersByTeam
<1>2. pc[r] = "Deactivate.GetActiveUsersByTeam"
  BY DEF Deactivate_GetActiveUsersByTeam
<1>3. sweep[r].next <= Len(pr[r].assigned_reviewers)
  BY <1>2 DEF IInv, LocalsOK, LocalOK
<1>4. candidates \subseteq Registered /\ candidates \in SUBSET UserIds
  BY DEF GetActiveUsersByTeam, GetUsersByTeam, Registered
<1>5. sweep[r].cache \in [TeamNames -> {Null} \cup SUBSET UserIds]
  BY DEF IInv, TypeOK, RequestsTypeOK, Sweep
<1>6. /\ cache \in [TeamNames -> {Null} \cup SUBSET UserIds]
      /\ \A t \in TeamNames : cache[t] # Null => cache[t] \subseteq Registered
  BY <1>4, <1>5, SweepHolds
<1>7. CASE Skips(r)
  BY <1>1, <1>2, <1>3, <1>7, LeaveOutKeeps DEF Skips
<1>8. CASE ReplaceCurrent(r, candidates, cache)
  <2> HIDE DEF candidates, cache
  <2> QED BY <1>1, <1>2, <1>3, <1>4, <1>6, <1>8, ReplaceCurrentKeeps
<1> QED BY <1>7, <1>8 DEF Deactivate_GetActiveUsersByTeam

\* Cutting a list to the limit leaves it well-formed.
LEMMA TruncateOK ==
    ASSUME IInv, maxReviewers >= 0, NEW STATE author,
           NEW STATE list, list \in Seq(UserIds), ListOK(list, author)
    PROVE  Truncate(list) \in Seq(UserIds) /\ ListOK(Truncate(list), author)
<1>1. maxReviewers \in Nat
  BY RequestsAssumption DEF IInv, TypeOK, RequestsTypeOK
<1>2. CASE Len(list) <= maxReviewers
  <2>1. Truncate(list) = list
    BY <1>1, <1>2 DEF Truncate
  <2> QED BY <2>1
<1>3. CASE Len(list) > maxReviewers
  <2>1. Truncate(list) = SubSeq(list, 1, maxReviewers)
    BY <1>3 DEF Truncate
  <2>2. /\ SubSeq(list, 1, maxReviewers) \in Seq(UserIds)
        /\ Members(SubSeq(list, 1, maxReviewers)) \subseteq Members(list)
        /\ Len(SubSeq(list, 1, maxReviewers)) = maxReviewers
        /\ Distinct(list) => Distinct(SubSeq(list, 1, maxReviewers))
    BY <1>1, <1>3, Prefix
  <2> QED BY <1>1, <1>3, <2>1, <2>2, RequestsAssumption DEF ListOK, WellFormed
<1> QED BY <1>1, <1>2, <1>3

\* Finishing the list of a pull request keeps the invariant: what is remembered
\* for the update is fit for that pull request.
LEMMA Deactivate_ReviewersDoneKeeps ==
    ASSUME IInv, NEW r \in Requests, Deactivate_ReviewersDone(r)
    PROVE  IInv'
<1> DEFINE new == Truncate(reviewers[r])
           p == sweep[r].target
           lists == [sweep[r].updates EXCEPT ![p] = new]
<1>1. Safe
  BY ReadSafe DEF Deactivate_ReviewersDone
<1>2. /\ pc[r] = "Deactivate.NextReviewer"
      /\ SameOperation(pc[r], "Deactivate.NextPR")
  BY DEF Deactivate_ReviewersDone, SameOperation, DeactivatePoints
<1>3. CASE Panics(r)
  BY <1>1, <1>3, FailsKeeps
<1>4. CASE /\ maxReviewers >= 0
           /\ sweep' = IF new = pr[r].assigned_reviewers THEN sweep
                       ELSE [sweep EXCEPT ![r].updates[p] = new]
           /\ Goto(r, "Deactivate.NextPR")
           /\ UNCHANGED <<pr, team, reviewers>>
  <2>1. /\ p \in PRIds /\ PRExists(p)
        /\ pr[r].author_id = pull_requests[p].author_id
        /\ reviewers[r] \in Seq(UserIds)
        /\ ListOK(reviewers[r], pr[r].author_id)
    BY <1>2, LoopHolds DEF CopyOK, ListInProgress
  <2>2. new \in Seq(UserIds) /\ ListOK(new, pull_requests[p].author_id)
    BY <1>4, <2>1, TruncateOK
  <2>3. /\ sweep[r] \in Sweep
        /\ sweep \in [Requests -> Sweep]
        /\ sweep[r].updates \in [PRIds -> {Null} \cup Seq(UserIds)]
        /\ pc \in [Requests -> {"idle", "done"} \cup Points]
    BY DEF IInv, TypeOK, RequestsTypeOK, Sweep
  <2>4. pc'[r] = "Deactivate.NextPR"
    BY <1>4, <2>3 DEF Goto
  <2>5. SweepOK(r)' /\ sweep' \in [Requests -> Sweep]
                    /\ \A s \in Requests \ {r} : sweep'[s] = sweep[s]
    <3>1. CASE sweep' = sweep
      BY <1>1, <2>3, <3>1, SweepStays DEF Safe
    <3>2. CASE sweep' = [sweep EXCEPT ![r].updates[p] = new]
      <4>1. /\ lists \in [PRIds -> {Null} \cup Seq(UserIds)]
            /\ \A q \in PRIds : lists[q] # Null =>
                  PRExists(q) /\ ListOK(lists[q], pull_requests[q].author_id)
        <5> HIDE DEF new, p
        <5> QED BY <2>1, <2>2, <2>3, SweepHolds
      <4>2. /\ sweep'[r] = [sweep[r] EXCEPT !.updates = lists]
            /\ \A s \in Requests \ {r} : sweep'[s] = sweep[s]
            /\ DOMAIN sweep' = Requests
        BY <2>3, <3>2
      <4> HIDE DEF lists
      <4>3. sweep'[r] = [deactivated |-> sweep[r].deactivated, open |-> sweep[r].open,
                         target |-> sweep[r].target, next |-> sweep[r].next,
                         cache |-> sweep[r].cache, updates |-> lists]
        BY <2>3, <4>2, Zenon DEF Sweep
      <4>4. sweep'[r] \in Sweep
        BY <2>3, <4>1, <4>3 DEF Sweep
      <4>5. sweep' \in [Requests -> Sweep]
        BY <2>3, <3>2, <4>2, <4>4
      <4>6. SweepOK(r)'
        BY <1>1, <4>1, <4>3, SweepHolds, SweepMayHold DEF Safe
      <4> QED BY <4>2, <4>5, <4>6
    <3> QED BY <1>4, <3>1, <3>2
  <2>6. LocalOK(r)'
    BY <2>4, <2>5, PlainOK DEF Plain
  <2>7. LocalsOf(r)
    BY <1>4, <2>5 DEF LocalsOf, IInv, TypeOK, RequestsTypeOK
  <2> QED BY <1>1, <1>2, <1>4, <2>6, <2>7, GotoKeeps
<1> QED BY <1>3, <1>4 DEF Deactivate_ReviewersDone

-----------------------------------------------------------------------------
(* The process.                                                            *)

\* A request that arrives starts at the entry of its operation.
LEMMA SubmitKeeps ==
    ASSUME IInv, NEW r \in Requests, Submit(r)
    PROVE  IInv'
<1> USE DEF IInv, TypeOK, RequestsTypeOK
<1> DEFINE entry(c) == EntryPoint[c.op]
<1>1. PICK c \in Calls : /\ call' = [call EXCEPT ![r] = c]
                         /\ pc' = [pc EXCEPT ![r] = entry(c)]
  BY DEF Submit
<1>2. UNCHANGED <<tables, maxReviewers, resp, pr, team, reviewers, sweep>>
  BY DEF Submit, locals
<1>3. Safe
  BY <1>2, ReadSafe
<1>4. \/ c \in CreatePRCall /\ entry(c) = "CreatePR.PRExists"
      \/ c \in MergePRCall /\ entry(c) = "MergePR.GetPRByID"
      \/ c \in ReassignCall /\ entry(c) = "Reassign.GetPRByID"
      \/ c \in SetActiveCall /\ entry(c) = "SetUserActive.SetUserActive"
      \/ c \in CreateTeamCall /\ entry(c) = "CreateTeam.TeamExists"
      \/ c \in DeactivateCall /\ entry(c) = "Deactivate.TeamExists"
  <2>1. \/ c \in CreatePRCall /\ c.op = "CreatePR"
        \/ c \in MergePRCall /\ c.op = "MergePR"
        \/ c \in ReassignCall /\ c.op = "ReassignReviewer"
        \/ c \in SetActiveCall /\ c.op = "SetUserActive"
        \/ c \in CreateTeamCall /\ c.op = "CreateTeam"
        \/ c \in DeactivateCall /\ c.op = "DeactivateTeamUsers"
    <3>1. c \in Call
      BY RequestsAssumption
    <3> QED BY <3>1 DEF Call, CreatePRCall, MergePRCall, ReassignCall, SetActiveCall,
                        CreateTeamCall, DeactivateCall
  <2> QED BY <2>1 DEF EntryPoint
<1> HIDE DEF entry
<1>5. /\ c \in Call
      /\ entry(c) \in Points
      /\ entry(c) \in CreatePRPoints => c \in CreatePRCall
      /\ entry(c) \in MergePRPoints => c \in MergePRCall
      /\ entry(c) \in ReassignPoints => c \in ReassignCall
      /\ entry(c) \in SetActivePoints => c \in SetActiveCall
      /\ entry(c) \in CreateTeamPoints => c \in CreateTeamCall
      /\ entry(c) \in DeactivatePoints => c \in DeactivateCall
  BY <1>4 DEF Call, Points, CreatePRPoints, MergePRPoints, ReassignPoints,
     SetActivePoints, CreateTeamPoints, DeactivatePoints
<1>6. RequestsTypeOK'
  BY <1>1, <1>2, <1>3, <1>5 DEF Safe
<1>7. TypeOK'
  BY <1>1, <1>5, <1>6
<1>8. ASSUME NEW s \in Requests PROVE LocalOK(s)'
  <2>1. CASE s = r
    <3>1. SweepOK(r)'
      BY <1>2, <1>3, SweepStays DEF Safe
    <3>2. pc'[r] \in {"CreatePR.PRExists", "MergePR.GetPRByID", "Reassign.GetPRByID",
                      "SetUserActive.SetUserActive", "CreateTeam.TeamExists",
                      "Deactivate.TeamExists"}
      BY <1>1, <1>4
    <3> QED BY <2>1, <3>1, <3>2 DEF LocalOK, ReassignPoints
  <2>2. CASE s # r
    <3>1. Stays(s)
      BY <1>1, <1>2, <2>2 DEF Stays
    <3> QED BY <1>3, <3>1, LocalStays DEF Safe
  <2> QED BY <2>1, <2>2
<1> QED BY <1>3, <1>7, <1>8 DEF Safe, LocalsOK

\* A restart keeps the invariant: no request is left that carries anything.
LEMMA RestartKeeps ==
    ASSUME IInv, Restart
    PROVE  IInv'
<1> USE DEF IInv, TypeOK, RequestsTypeOK
<1>1. Safe
  BY ReadSafe DEF Restart
<1>2. \A s \in Requests : /\ pc'[s] \in {"idle", "done"}
                          /\ sweep'[s] = NoSweep
  BY DEF Restart, InFlight
<1>3. /\ pc' \in [Requests -> {"idle", "done"} \cup Points]
      /\ resp' \in [Requests -> Answers]
      /\ call' = call
  BY DEF Restart, Answers
<1>4. /\ maxReviewers' \in Limits
      /\ pr' \in [Requests -> {Null} \cup PullRequest]
      /\ team' \in [Requests -> {Null} \cup TeamNames]
      /\ reviewers' \in [Requests -> Seq(UserIds)]
      /\ sweep' \in [Requests -> Sweep]
  BY EmptyList, NoSweepType DEF Restart
<1>5. "idle" \notin Points /\ "done" \notin Points
  BY DEF Points, CreatePRPoints, MergePRPoints, ReassignPoints, SetActivePoints,
         CreateTeamPoints, DeactivatePoints
<1>6. TypeOK'
  BY <1>1, <1>2, <1>3, <1>4, <1>5 DEF Safe, Points
<1>7. LocalsOK'
  BY <1>2, IdleOK DEF LocalsOK
<1> QED BY <1>1, <1>6, <1>7 DEF Safe

\* Nothing changes, the invariant with it.
LEMMA StutterKeeps ==
    ASSUME IInv, UNCHANGED vars
    PROVE  IInv'
<1>1. Safe
  BY ReadSafe DEF vars
<1>2. TypeOK'
  BY <1>1 DEF IInv, TypeOK, RequestsTypeOK, Safe, vars, locals
<1>3. ASSUME NEW s \in Requests PROVE LocalOK(s)'
  BY <1>1, LocalStays DEF Stays, Safe, vars, locals
<1> QED BY <1>1, <1>2, <1>3 DEF IInv, Safe, LocalsOK

\* Every step of a request keeps the invariant.
LEMMA StepKeeps ==
    ASSUME IInv, NEW r \in Requests, Step(r)
    PROVE  IInv'
<1>1. CASE CreatePR(r)
  BY <1>1, CreatePR_PRExistsKeeps, CreatePR_GetUserByIDKeeps,
     CreatePR_GetActiveUsersByTeamKeeps, CreatePR_CreatePRKeeps,
     CreatePR_GetPRByIDKeeps DEF CreatePR
<1>2. CASE MergePR(r)
  BY <1>2, MergePR_GetPRByIDKeeps, MergePR_UpdatePRStatusWithMergedAtKeeps
     DEF MergePR
<1>3. CASE ReassignReviewer(r)
  BY <1>3, Reassign_GetPRByIDKeeps, Reassign_GetUserByIDKeeps,
     Reassign_GetActiveUsersByTeamKeeps, Reassign_UpdatePRReviewersKeeps
     DEF ReassignReviewer
<1>4. CASE CreateTeam(r)
  BY <1>4, CreateTeam_TeamExistsKeeps, CreateTeam_CreateTeamKeeps,
     CreateTeam_GetTeamKeeps DEF CreateTeam
<1>5. CASE SetActive(r)
  BY <1>5, SetUserActive_SetUserActiveKeeps, SetUserActive_GetUserByIDKeeps
     DEF SetActive
<1>6. CASE DeactivateTeamUsers(r)
  BY <1>6, Deactivate_TeamExistsKeeps, Deactivate_DeactivateUsersByTeamKeeps,
     Deactivate_GetOpenPRsByReviewersKeeps, Deactivate_NextPRKeeps,
     Deactivate_LoopEndsKeeps, Deactivate_KeepReviewerKeeps,
     Deactivate_GetUserByIDKeeps, Deactivate_GetActiveUsersByTeamKeeps,
     Deactivate_ReviewersDoneKeeps, Deactivate_BulkUpdatePRReviewersKeeps
     DEF DeactivateTeamUsers
<1> QED BY <1>1, <1>2, <1>3, <1>4, <1>5, <1>6 DEF Step

\* A step of r goes on to a point of the method or ends it with an answer; either
\* way it leaves the other requests, and every call, alone.
LEMMA StepEnds ==
    ASSUME NEW r \in Requests, Step(r)
    PROVE  /\ pc[r] \in Points
           /\ \/ \E point \in Points : Goto(r, point)
              \/ \E answer \in Answers : Finish(r, answer)
<1> USE DEF Fails, Panics, Points, Answers
<1>1. CASE CreatePR(r)
  BY <1>1 DEF CreatePR, CreatePR_PRExists, CreatePR_GetUserByID,
     CreatePR_GetActiveUsersByTeam, CreatePR_CreatePR, CreatePR_GetPRByID, CreatePRPoints
<1>2. CASE MergePR(r)
  BY <1>2 DEF MergePR, MergePR_GetPRByID, MergePR_UpdatePRStatusWithMergedAt, MergePRPoints
<1>3. CASE ReassignReviewer(r)
  BY <1>3 DEF ReassignReviewer, Reassign_GetPRByID, Reassign_GetUserByID,
     Reassign_GetActiveUsersByTeam, Reassign_UpdatePRReviewers, ReassignPoints
<1>4. CASE CreateTeam(r)
  BY <1>4 DEF CreateTeam, CreateTeam_TeamExists, CreateTeam_CreateTeam,
     CreateTeam_GetTeam, CreateTeamPoints
<1>5. CASE SetActive(r)
  BY <1>5 DEF SetActive, SetUserActive_SetUserActive, SetUserActive_GetUserByID,
     SetActivePoints
<1>6. CASE DeactivateTeamUsers(r)
  BY <1>6 DEF DeactivateTeamUsers, Deactivate_TeamExists,
     Deactivate_DeactivateUsersByTeam, Deactivate_GetOpenPRsByReviewers,
     Deactivate_NextPR, Deactivate_LoopEnds, Deactivate_KeepReviewer,
     Deactivate_GetUserByID, Deactivate_GetActiveUsersByTeam,
     Deactivate_ReviewersDone, Deactivate_BulkUpdatePRReviewers, AtReviewer,
     Skips, ReplaceCurrent, Continue, DeactivatePoints
<1> QED BY <1>1, <1>2, <1>3, <1>4, <1>5, <1>6 DEF Step

\* An answered request is over: no step touches it again.
LEMMA DoneStays ==
    ASSUME IInv, [Next]_vars, NEW r \in Requests, pc[r] = "done"
    PROVE  pc'[r] = "done" /\ resp'[r] = resp[r] /\ call'[r] = call[r]
<1> USE DEF IInv, TypeOK, RequestsTypeOK
<1>1. "done" \notin Points /\ "done" # "idle"
  BY DEF Points, CreatePRPoints, MergePRPoints, ReassignPoints, SetActivePoints,
         CreateTeamPoints, DeactivatePoints
<1>2. ASSUME NEW s \in Requests, Step(s)
      PROVE  pc'[r] = "done" /\ resp'[r] = resp[r] /\ call'[r] = call[r]
  <2>1. s # r
    BY <1>1, <1>2, StepEnds
  <2> QED BY <1>2, <2>1, StepEnds DEF Goto, Finish
<1>3. ASSUME NEW s \in Requests, Submit(s)
      PROVE  pc'[r] = "done" /\ resp'[r] = resp[r] /\ call'[r] = call[r]
  BY <1>1, <1>3 DEF Submit
<1>4. CASE Restart
  BY <1>1, <1>4 DEF Restart, InFlight
<1>5. CASE UNCHANGED vars
  BY <1>5 DEF vars
<1> QED BY <1>2, <1>3, <1>4, <1>5 DEF Next, Quiescent

\* The tables a behaviour starts from satisfy the invariant, with no request yet.
LEMMA InitHolds ==
    ASSUME Init
    PROVE  IInv
<1> USE DEF Init
<1>1. TablesTypeOK
  BY SeedAssumption DEF TablesTypeOK
<1>2. /\ pc \in [Requests -> {"idle", "done"} \cup Points]
      /\ call \in [Requests -> {Null} \cup Call]
      /\ resp \in [Requests -> Answers]
      /\ pr \in [Requests -> {Null} \cup PullRequest]
      /\ team \in [Requests -> {Null} \cup TeamNames]
      /\ maxReviewers \in Limits
  BY DEF Answers
<1>3. /\ reviewers \in [Requests -> Seq(UserIds)]
      /\ sweep \in [Requests -> Sweep]
  BY EmptyList, NoSweepType
<1>4. "idle" \notin Points
  BY DEF Points, CreatePRPoints, MergePRPoints, ReassignPoints, SetActivePoints,
         CreateTeamPoints, DeactivatePoints
<1>5. TypeOK
  BY <1>1, <1>2, <1>3, <1>4 DEF TypeOK, RequestsTypeOK, Points
<1>6. ASSUME NEW p \in PRIds, PRExists(p) PROVE RowOK(GetPRByID(p))
  <2>1. SeedRowOK(pull_requests[p]) /\ pull_requests[p] \in PullRequest
    BY <1>6, SeedAssumption DEF PRExists, GetPRByID
  <2>2. /\ pull_requests[p].assigned_reviewers \in Seq(UserIds)
        /\ pull_requests[p].author_id \in UserIds
    BY <2>1 DEF PullRequest
  <2>3. Members(pull_requests[p].assigned_reviewers) \subseteq UserIds
    BY <2>2, MembersType
  <2> QED BY <2>1, <2>2, <2>3 DEF SeedRowOK, RowOK, ListOK, Registered, UserExists,
                                  GetUserByID, GetPRByID
<1>7. LocalsOK
  BY DEF LocalsOK, LocalOK, SweepOK, NoSweep, ReassignPoints
<1> QED BY <1>5, <1>6, <1>7 DEF IInv, ReviewersWellFormed

\* Every step keeps the invariant.
LEMMA NextKeeps ==
    ASSUME IInv, [Next]_vars
    PROVE  IInv'
  BY SubmitKeeps, StepKeeps, RestartKeeps, StutterKeeps DEF Next, Quiescent

\* The invariant holds in every reachable state.
THEOREM Invariance == Spec => []IInv
  BY InitHolds, NextKeeps, PTL DEF Spec

\* Whatever requests run side by side, fail or die with the process, tables and
\* locals keep their types and a request is at a point of its own operation.
THEOREM TypeCorrect == Spec => []TypeOK
<1>1. IInv => TypeOK
  BY DEF IInv
<1> QED BY <1>1, Invariance, PTL

\* Whatever requests run side by side, fail or die with the process, no pull
\* request ever lists a reviewer twice, its author, an unknown user or more
\* reviewers than any MAX_REVIEWERS allows.
THEOREM ReviewersStayWellFormed == Spec => []ReviewersWellFormed
<1>1. IInv => ReviewersWellFormed
  BY DEF IInv
<1> QED BY <1>1, Invariance, PTL

\* Lists in flight are as well-formed as stored ones, so that no statement has
\* to look at the row again before it writes.
THEOREM LocalsStayOK == Spec => []LocalsOK
<1>1. IInv => LocalsOK
  BY DEF IInv
<1> QED BY <1>1, Invariance, PTL

-----------------------------------------------------------------------------
(* Merged pull requests.                                                   *)

\* The step keeps every row, its author and MERGED.
RowsKept ==
    \A p \in PRIds : PRExists(p) =>
       /\ PRExists(p)'
       /\ pull_requests'[p].author_id = pull_requests[p].author_id
       /\ pull_requests[p].status = "MERGED" => pull_requests'[p].status = "MERGED"

\* No statement of the repository deletes a row or takes MERGED back.
LEMMA StatementsKeepRows ==
    ASSUME TablesTypeOK,
           \/ UNCHANGED pull_requests
           \/ \E p \in PRIds, author \in UserIds, list \in Seq(UserIds) :
                 InsertPR(p, author, list)
           \/ \E p \in PRIds : PRExists(p) /\ UpdatePRStatusWithMergedAt(p)
           \/ \E p \in PRIds, list \in Seq(UserIds) :
                 PRExists(p) /\ UpdatePRReviewers(p, list)
           \/ \E updates \in [PRIds -> {Null} \cup Seq(UserIds)] :
                 /\ \A p \in PRIds : updates[p] # Null => PRExists(p)
                 /\ BulkUpdatePRReviewers(updates)
    PROVE  RowsKept
<1> USE DEF RowsKept, PRExists, GetPRByID, TablesTypeOK
<1>1. CASE UNCHANGED pull_requests
  BY <1>1
<1>2. CASE \E p \in PRIds, author \in UserIds, list \in Seq(UserIds) :
              InsertPR(p, author, list)
  BY <1>2 DEF InsertPR
<1>3. CASE \E p \in PRIds : PRExists(p) /\ UpdatePRStatusWithMergedAt(p)
  <2>1. PICK p \in PRIds : PRExists(p) /\ UpdatePRStatusWithMergedAt(p)
    BY <1>3
  <2> DEFINE row == [pull_requests[p] EXCEPT !.status = "MERGED", !.merged_at = @ + 1]
  <2>2. row \in PullRequest /\ row.author_id = pull_requests[p].author_id
                            /\ row.status = "MERGED"
    BY <2>1, MergedRow
  <2>3. pull_requests' = [pull_requests EXCEPT ![p] = row]
    BY <2>1 DEF UpdatePRStatusWithMergedAt
  <2> HIDE DEF row
  <2> QED BY <2>2, <2>3, RepositoryAssumption
<1>4. CASE \E p \in PRIds, list \in Seq(UserIds) :
              PRExists(p) /\ UpdatePRReviewers(p, list)
  <2>1. PICK p \in PRIds, list \in Seq(UserIds) :
           PRExists(p) /\ UpdatePRReviewers(p, list)
    BY <1>4
  <2> DEFINE row == [pull_requests[p] EXCEPT !.assigned_reviewers = list]
  <2>2. row \in PullRequest /\ row.author_id = pull_requests[p].author_id
                            /\ row.status = pull_requests[p].status
    BY <2>1, ListedRow
  <2>3. pull_requests' = [pull_requests EXCEPT ![p] = row]
    BY <2>1 DEF UpdatePRReviewers
  <2> HIDE DEF row
  <2> QED BY <2>2, <2>3, RepositoryAssumption
<1>5. CASE \E updates \in [PRIds -> {Null} \cup Seq(UserIds)] :
              /\ \A p \in PRIds : updates[p] # Null => PRExists(p)
              /\ BulkUpdatePRReviewers(updates)
  <2>1. PICK updates \in [PRIds -> {Null} \cup Seq(UserIds)] :
           /\ \A p \in PRIds : updates[p] # Null => PRExists(p)
           /\ BulkUpdatePRReviewers(updates)
    BY <1>5
  <2>2. ASSUME NEW p \in PRIds, PRExists(p)
        PROVE  /\ PRExists(p)'
               /\ pull_requests'[p].author_id = pull_requests[p].author_id
               /\ pull_requests[p].status = "MERGED" => pull_requests'[p].status = "MERGED"
    <3> DEFINE row == [pull_requests[p] EXCEPT !.assigned_reviewers = updates[p]]
    <3>1. CASE updates[p] = Null
      BY <2>1, <2>2, <3>1 DEF BulkUpdatePRReviewers
    <3>2. CASE updates[p] # Null
      <4>1. row \in PullRequest /\ row.author_id = pull_requests[p].author_id
                                /\ row.status = pull_requests[p].status
        BY <2>2, <3>2, ListedRow
      <4>2. pull_requests'[p] = row
        BY <2>1, <3>2 DEF BulkUpdatePRReviewers
      <4> HIDE DEF row
      <4> QED BY <4>1, <4>2, RepositoryAssumption
    <3> QED BY <3>1, <3>2
  <2> QED BY <2>2
<1> QED BY <1>1, <1>2, <1>3, <1>4, <1>5

\* Every step is one of those statements, or leaves pull_requests alone.
LEMMA StepKeepsRows ==
    ASSUME IInv, [Next]_vars
    PROVE  RowsKept
<1>1. TablesTypeOK
  BY DEF IInv, TypeOK, RequestsTypeOK
<1>2. ASSUME NEW r \in Requests, CreatePR_CreatePR(r), ~UNCHANGED pull_requests
      PROVE  \E p \in PRIds, author \in UserIds, list \in Seq(UserIds) :
                InsertPR(p, author, list)
  <2>1. /\ call[r].pr \in PRIds /\ call[r].user \in UserIds
        /\ reviewers[r] \in Seq(UserIds)
    BY <1>2 DEF CreatePR_CreatePR, CreatePRPoints, CreatePRCall, IInv, TypeOK, RequestsTypeOK
  <2> QED BY <1>2, <2>1 DEF CreatePR_CreatePR, tables
<1>3. ASSUME NEW r \in Requests, MergePR_UpdatePRStatusWithMergedAt(r),
             ~UNCHANGED pull_requests
      PROVE  \E p \in PRIds : PRExists(p) /\ UpdatePRStatusWithMergedAt(p)
  <2>1. pc[r] \in MergePRPoints /\ pc[r] = "MergePR.UpdatePRStatusWithMergedAt"
    BY <1>3 DEF MergePR_UpdatePRStatusWithMergedAt, MergePRPoints
  <2>2. call[r].pr \in PRIds /\ PRExists(call[r].pr)
    BY <2>1 DEF MergePRCall, IInv, TypeOK, LocalsOK, LocalOK
  <2> QED BY <1>3, <2>2 DEF MergePR_UpdatePRStatusWithMergedAt, tables
<1>4. ASSUME NEW r \in Requests, Reassign_UpdatePRReviewers(r),
             ~UNCHANGED pull_requests
      PROVE  \E p \in PRIds, list \in Seq(UserIds) : PRExists(p) /\ UpdatePRReviewers(p, list)
  <2>1. pc[r] \in ReassignPoints /\ pc[r] = "Reassign.UpdatePRReviewers"
    BY <1>4 DEF Reassign_UpdatePRReviewers, ReassignPoints
  <2>2. /\ call[r].pr \in PRIds /\ PRExists(call[r].pr)
        /\ reviewers[r] \in Seq(UserIds)
    BY <2>1 DEF ReassignCall, IInv, TypeOK, RequestsTypeOK, LocalsOK, LocalOK, CopyOK
  <2> QED BY <1>4, <2>2 DEF Reassign_UpdatePRReviewers, tables
<1>5. ASSUME NEW r \in Requests, Deactivate_BulkUpdatePRReviewers(r),
             ~UNCHANGED pull_requests
      PROVE  \E updates \in [PRIds -> {Null} \cup Seq(UserIds)] :
                /\ \A p \in PRIds : updates[p] # Null => PRExists(p)
                /\ BulkUpdatePRReviewers(updates)
  <2>1. /\ \A p \in PRIds : sweep[r].updates[p] # Null => PRExists(p)
        /\ sweep[r].updates \in [PRIds -> {Null} \cup Seq(UserIds)]
    BY SweepHolds DEF IInv, TypeOK, RequestsTypeOK, Sweep
  <2> QED BY <1>5, <2>1 DEF Deactivate_BulkUpdatePRReviewers, tables
<1>6. ASSUME NEW r \in Requests, Step(r), ~UNCHANGED pull_requests
      PROVE  \/ CreatePR_CreatePR(r)
             \/ MergePR_UpdatePRStatusWithMergedAt(r)
             \/ Reassign_UpdatePRReviewers(r)
             \/ Deactivate_BulkUpdatePRReviewers(r)
  <2>1. CASE CreatePR(r)
    BY <1>6, <2>1 DEF CreatePR, CreatePR_PRExists, CreatePR_GetUserByID,
       CreatePR_GetActiveUsersByTeam, CreatePR_GetPRByID, tables
  <2>2. CASE MergePR(r) \/ ReassignReviewer(r)
    BY <1>6, <2>2 DEF MergePR, MergePR_GetPRByID, ReassignReviewer, Reassign_GetPRByID,
       Reassign_GetUserByID, Reassign_GetActiveUsersByTeam, tables
  <2>3. CASE CreateTeam(r) \/ SetActive(r)
    BY <1>6, <2>3 DEF CreateTeam, CreateTeam_TeamExists, CreateTeam_CreateTeam,
       CreateTeamTx, CreateTeam_GetTeam, SetActive, SetUserActive_SetUserActive,
       SetUserActive, SetUserActive_GetUserByID, tables
  <2>4. CASE DeactivateTeamUsers(r)
    BY <1>6, <2>4 DEF DeactivateTeamUsers, Deactivate_TeamExists,
       Deactivate_DeactivateUsersByTeam, DeactivateUsersByTeam,
       Deactivate_GetOpenPRsByReviewers, Deactivate_NextPR, Deactivate_LoopEnds,
       Deactivate_KeepReviewer, Deactivate_GetUserByID,
       Deactivate_GetActiveUsersByTeam, Deactivate_ReviewersDone, tables
  <2> QED BY <1>6, <2>1, <2>2, <2>3, <2>4 DEF Step
<1>7. ASSUME ~UNCHANGED pull_requests
      PROVE  \E r \in Requests : Step(r)
  BY <1>7 DEF Next, Submit, Restart, Quiescent, vars, tables
<1> QED BY <1>1, <1>2, <1>3, <1>4, <1>5, <1>6, <1>7, StatementsKeepRows

\* MERGED is final and authorship fixed, whichever reassignments and sweeps that
\* read the pull request as OPEN are still under way when it is merged.
THEOREM MergeIsFinal == Spec => MergedIsFinal
<1>1. ASSUME IInv, [Next]_vars
      PROVE  [\A p \in PRIds : PRExists(p) =>
                 /\ PRExists(p)'
                 /\ pull_requests'[p].author_id = pull_requests[p].author_id
                 /\ pull_requests[p].status = "MERGED" =>
                       pull_requests'[p].status = "MERGED"]_vars
  BY <1>1, StepKeepsRows DEF RowsKept
<1> QED BY <1>1, Invariance, PTL DEF Spec, MergedIsFinal
=============================================================================
