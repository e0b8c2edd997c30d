--------------------------- MODULE RowLocksProofs ---------------------------
(***************************************************************************)
(* Proofs about RowLocks, for every pool size, any number of transactions, *)
(* any writes and any tables:                                              *)
(*   - the types and LocksProtect are an inductive invariant;              *)
(*   - the writes of single rows never fall victim to a deadlock;          *)
(*   - RowLocks implements AtomicWrites.                                   *)
(***************************************************************************)
EXTENDS RowLocks, FiniteSetTheorems, TLAPS

\* The row exists and is one that w may write.
MayWrite(w, row) ==
    CASE w.op = "CreateTeam" -> row \in Members(w.order)
      [] w.op = "DeactivateUsersByTeam" -> row \in UserIds /\ users[row] # Null
      [] w.op = "SetUserActive" -> row = w.user /\ users[row] # Null
      [] w.op = "CreatePR" -> row = w.pr
      [] w.op = "BulkUpdatePRReviewers" ->
           row \in PRIds /\ w.updates[row] # Null /\ pull_requests[row] # Null
      [] OTHER -> row = w.pr /\ pull_requests[row] # Null

HolderOK(row) ==
    /\ Running(holder[row])
    /\ row \in matched[holder[row]] \ todo[holder[row]]
    /\ version[row] = NewVersion(write[holder[row]], row, Row(row))

TransactionOK(x) ==
    /\ phase[x] # "idle" => write[x] # Null
    /\ todo[x] \subseteq matched[x]
    /\ want[x] # Null => want[x] \in todo[x]
    /\ ~Running(x) => want[x] = Null
    /\ Running(x) =>
          /\ \A row \in matched[x] : MayWrite(write[x], row)
          /\ \A row \in matched[x] \ todo[x] : holder[row] = x
          /\ write[x].op = "CreateTeam" => matched[x] = Members(write[x].order)
          /\ write[x].op = "CreatePR" => matched[x] = {write[x].pr}

\* What the locks of the server guarantee, on which the refinement rests: a
\* transaction under way holds exactly the rows it has been through, and the
\* version it is going to commit is computed from the one that is committed
\* now, not from one it has read before another transaction changed the row.
\* It holds or waits for rows that its write is about and that exist still.
LocksProtect ==
    /\ \A row \in Rows : holder[row] # Null => HolderOK(row)
    /\ \A x \in Txns : TransactionOK(x)

\* Together the types and the lock protocol are inductive.
LocksInv == RowLocksTypeOK /\ LocksProtect

-----------------------------------------------------------------------------
(* What is known of the arguments of a write.                              *)

\* The arguments a write carries, by the method that was called.
LEMMA WriteArguments ==
    ASSUME NEW w \in WriteCalls
    PROVE  /\ w.op \in {"CreateTeam", "DeactivateUsersByTeam", "SetUserActive",
                        "CreatePR", "UpdatePRStatusWithMergedAt",
                        "UpdatePRReviewers", "BulkUpdatePRReviewers"}
           /\ w.op = "CreateTeam" =>
                /\ w.team \in TeamNames
                /\ w.order \in Seq(UserIds)
                /\ w.members \in [Members(w.order) -> BOOLEAN]
           /\ w.op = "DeactivateUsersByTeam" => w.team \in TeamNames
           /\ w.op = "SetUserActive" =>
                w.user \in UserIds /\ w.is_active \in BOOLEAN
           /\ w.op = "CreatePR" =>
                w.pr \in PRIds /\ w.author \in UserIds /\ w.list \in Seq(UserIds)
           /\ w.op = "UpdatePRStatusWithMergedAt" => w.pr \in PRIds
           /\ w.op = "UpdatePRReviewers" => w.pr \in PRIds /\ w.list \in Seq(UserIds)
           /\ w.op = "BulkUpdatePRReviewers" =>
                w.updates \in [PRIds -> {Null} \cup Seq(UserIds)]
<1>1. WriteOK(w)
  BY WritesAssumption
<1>2. CASE w \in CreateTeamWrite /\ Distinct(w.order) /\ DOMAIN w.members = Members(w.order)
  <2>1. /\ w.op = "CreateTeam" /\ w.team \in TeamNames /\ w.order \in Seq(UserIds)
        /\ \E ids \in SUBSET UserIds : w.members \in [ids -> BOOLEAN]
    BY <1>2 DEF CreateTeamWrite
  <2>2. w.members \in [DOMAIN w.members -> BOOLEAN]
    BY <2>1
  <2>3. QED
    BY <1>2, <2>1, <2>2
<1>3. CASE w \in DeactivateWrite
  BY <1>3 DEF DeactivateWrite
<1>4. CASE w \in SetUserActiveWrite
  BY <1>4 DEF SetUserActiveWrite
<1>5. CASE w \in CreatePRWrite
  BY <1>5 DEF CreatePRWrite
<1>6. CASE w \in MergeWrite
  BY <1>6 DEF MergeWrite
<1>7. CASE w \in ReviewersWrite
  BY <1>7 DEF ReviewersWrite
<1>8. CASE w \in BulkWrite
  BY <1>8 DEF BulkWrite
<1>9. QED
  BY <1>1, <1>2, <1>3, <1>4, <1>5, <1>6, <1>7, <1>8 DEF WriteOK

\* The members of a team are users.
LEMMA MembersAreUsers ==
    ASSUME NEW w \in WriteCalls, w.op = "CreateTeam"
    PROVE  Members(w.order) \subseteq UserIds
<1>1. w.order \in Seq(UserIds)
  BY WriteArguments
<1>2. QED
  BY <1>1 DEF Members

-----------------------------------------------------------------------------
(* Versions and matched rows.                                              *)

\* A write that finds a row it may write leaves a row of the same table.
LEMMA VersionOfRow ==
    ASSUME TablesTypeOK, NEW w \in WriteCalls, NEW row \in Rows, MayWrite(w, row)
    PROVE  /\ row \in UserIds => NewVersion(w, row, Row(row)) \in User
           /\ row \in PRIds => NewVersion(w, row, Row(row)) \in PullRequest
<1>1. UserIds \cap PRIds = {}
  BY WritesAssumption
<1>2. row \in UserIds => Row(row) = users[row] /\ users[row] \in {Null} \cup User
  BY DEF Row, TablesTypeOK
<1>3. row \in PRIds => /\ Row(row) = pull_requests[row]
                       /\ pull_requests[row] \in {Null} \cup PullRequest
  BY <1>1 DEF Row, TablesTypeOK
<1>4. CASE w.op = "CreateTeam"
  <2>1. row \in DOMAIN w.members /\ row \in UserIds /\ w.members[row] \in BOOLEAN
    <3>1. row \in Members(w.order)
      BY <1>4 DEF MayWrite
    <3>2. QED
      BY <1>4, <3>1, WriteArguments, MembersAreUsers
  <2>2. NewVersion(w, row, Row(row)) = [team_name |-> w.team, is_active |-> w.members[row]]
    BY <1>4 DEF NewVersion
  <2>3. QED
    BY <1>1, <1>4, <2>1, <2>2, WriteArguments DEF User
<1>5. CASE w.op = "DeactivateUsersByTeam"
  <2>1. row \in UserIds /\ users[row] \in User
    BY <1>2, <1>5 DEF MayWrite
  <2>2. NewVersion(w, row, Row(row)) \in
          {users[row], [users[row] EXCEPT !.is_active = FALSE]}
    BY <1>2, <1>5, <2>1 DEF NewVersion
  <2>3. QED
    BY <1>1, <2>1, <2>2 DEF User
<1>6. CASE w.op = "SetUserActive"
  <2>1. row \in UserIds /\ users[row] \in User
    BY <1>2, <1>6, WriteArguments DEF MayWrite
  <2>2. NewVersion(w, row, Row(row)) = [users[row] EXCEPT !.is_active = w.is_active]
    BY <1>2, <1>6, <2>1 DEF NewVersion
  <2>3. QED
    BY <1>1, <1>6, <2>1, <2>2, WriteArguments DEF User
<1>7. CASE w.op = "CreatePR"
  <2>1. row \in PRIds
    BY <1>7, WriteArguments DEF MayWrite
  <2>2. CASE pull_requests[row] = Null
    <3>1. NewVersion(w, row, Row(row)) =
            [author_id |-> w.author, status |-> "OPEN",
             assigned_reviewers |-> w.list, merged_at |-> 0]
      BY <1>3, <1>7, <2>1, <2>2 DEF NewVersion
    <3>2. QED
      BY <1>1, <1>7, <2>1, <3>1, WriteArguments DEF PullRequest, PRStatus
  <2>3. CASE pull_requests[row] # Null
    <3>1. NewVersion(w, row, Row(row)) = pull_requests[row]
      BY <1>3, <1>7, <2>1, <2>3 DEF NewVersion
    <3>2. QED
      BY <1>1, <1>3, <2>1, <2>3, <3>1
  <2>4. QED
    BY <2>2, <2>3
<1>8. CASE w.op = "UpdatePRStatusWithMergedAt"
  <2>1. row \in PRIds /\ pull_requests[row] \in PullRequest
    BY <1>3, <1>8, WriteArguments DEF MayWrite
  <2>2. NewVersion(w, row, Row(row)) =
          [pull_requests[row] EXCEPT !.status = "MERGED", !.merged_at = @ + 1]
    BY <1>3, <1>8, <2>1 DEF NewVersion
  <2>3. NewVersion(w, row, Row(row)) =
          [author_id |-> pull_requests[row].author_id, status |-> "MERGED",
           assigned_reviewers |-> pull_requests[row].assigned_reviewers,
           merged_at |-> pull_requests[row].merged_at + 1]
    BY <2>1, <2>2 DEF PullRequest
  <2>4. NewVersion(w, row, Row(row)) \in PullRequest
    BY <2>1, <2>3 DEF PullRequest, PRStatus
  <2>5. QED
    BY <1>1, <2>1, <2>4
<1>9. CASE w.op = "UpdatePRReviewers"
  <2>1. row \in PRIds /\ pull_requests[row] \in PullRequest
    BY <1>3, <1>9, WriteArguments DEF MayWrite
  <2>2. NewVersion(w, row, Row(row)) =
          [pull_requests[row] EXCEPT !.assigned_reviewers = w.list]
    BY <1>3, <1>9, <2>1 DEF NewVersion
  <2>3. QED
    BY <1>1, <1>9, <2>1, <2>2, WriteArguments DEF PullRequest
<1>10. CASE w.op = "BulkUpdatePRReviewers"
  <2>1. row \in PRIds /\ pull_requests[row] \in PullRequest
        /\ w.updates[row] \in Seq(UserIds)
    BY <1>3, <1>10, WriteArguments DEF MayWrite
  <2>2. NewVersion(w, row, Row(row)) =
          [pull_requests[row] EXCEPT !.assigned_reviewers = w.updates[row]]
    BY <1>3, <1>10, <2>1 DEF NewVersion
  <2>3. QED
    BY <1>1, <2>1, <2>2 DEF PullRequest
<1>11. QED
  BY <1>4, <1>5, <1>6, <1>7, <1>8, <1>9, <1>10, WriteArguments

\* The rows a write finds are rows it may write.
LEMMA TargetsMayBeWritten ==
    ASSUME TablesTypeOK, NEW w \in WriteCalls
    PROVE  /\ Targets(w) \subseteq Rows
           /\ \A row \in Targets(w) : MayWrite(w, row)
           /\ w.op = "CreateTeam" => Targets(w) = Members(w.order)
           /\ w.op = "CreatePR" => Targets(w) = {w.pr}
<1>1. CASE w.op = "CreateTeam"
  <2>1. Targets(w) = Members(w.order)
    BY <1>1 DEF Targets
  <2>2. \A row \in Members(w.order) : MayWrite(w, row)
    BY <1>1 DEF MayWrite
  <2>3. QED
    BY <1>1, <2>1, <2>2, MembersAreUsers DEF Rows
<1>2. CASE w.op = "DeactivateUsersByTeam"
  BY <1>2 DEF Targets, MayWrite, UsersToDeactivate, GetUsersByTeam, UserExists,
              GetUserByID, Rows
<1>3. CASE w.op = "SetUserActive"
  BY <1>3, WriteArguments DEF Targets, MayWrite, UserExists, GetUserByID, Rows
<1>4. CASE w.op = "CreatePR"
  BY <1>4, WriteArguments DEF Targets, MayWrite, Rows
<1>5. CASE w.op = "BulkUpdatePRReviewers"
  BY <1>5 DEF Targets, MayWrite, PRExists, GetPRByID, Rows
<1>6. CASE w.op \in {"UpdatePRStatusWithMergedAt", "UpdatePRReviewers"}
  BY <1>6, WriteArguments DEF Targets, MayWrite, PRExists, GetPRByID, Rows
<1>7. QED
  BY <1>1, <1>2, <1>3, <1>4, <1>5, <1>6, WriteArguments
\* What is known of a locked row and of the transaction that has the lock.
LEMMA LockedRow ==
    ASSUME LocksInv, NEW row \in Rows, holder[row] # Null
    PROVE  /\ holder[row] \in Txns
           /\ Running(holder[row])
           /\ write[holder[row]] \in WriteCalls
           /\ row \in matched[holder[row]] \ todo[holder[row]]
           /\ MayWrite(write[holder[row]], row)
           /\ version[row] = NewVersion(write[holder[row]], row, Row(row))
           /\ row \in UserIds => version[row] \in User
           /\ row \in PRIds => version[row] \in PullRequest
<1>1. holder[row] \in Txns /\ HolderOK(row)
  BY DEF LocksInv, RowLocksTypeOK, LocksProtect
<1>2. TransactionOK(holder[row]) /\ Running(holder[row])
  BY <1>1 DEF LocksInv, LocksProtect, HolderOK
<1>3. write[holder[row]] \in WriteCalls
  BY <1>1, <1>2 DEF TransactionOK, Running, GivenUp, LocksInv, RowLocksTypeOK
<1>4. row \in matched[holder[row]] \ todo[holder[row]] /\ MayWrite(write[holder[row]], row)
  BY <1>1, <1>2 DEF HolderOK, TransactionOK
<1>5. version[row] = NewVersion(write[holder[row]], row, Row(row))
  BY <1>1 DEF HolderOK
<1>6. QED
  BY <1>1, <1>2, <1>3, <1>4, <1>5, VersionOfRow DEF LocksInv, RowLocksTypeOK

-----------------------------------------------------------------------------
(* One lemma per action.                                                   *)

LEMMA InitLocks == ASSUME Init PROVE LocksInv
<1>1. RowLocksTypeOK
  BY WritesAssumption, RowLocksAssumption
  DEF Init, RowLocksTypeOK, TablesTypeOK, Phases
<1>2. \A row \in Rows : holder[row] = Null
  BY DEF Init
<1>3. \A x \in Txns : TransactionOK(x)
  BY DEF Init, TransactionOK, Running, GivenUp
<1>4. QED
  BY <1>1, <1>2, <1>3 DEF LocksInv, LocksProtect

\* Nothing about the transactions and their locks changes.
LEMMA StutterKeepsLocks == ASSUME LocksInv, UNCHANGED vars PROVE LocksInv'
<1> USE DEF vars, lockVars, tables
<1>1. RowLocksTypeOK'
  BY DEF LocksInv, RowLocksTypeOK, TablesTypeOK
<1>2. ASSUME NEW row \in Rows, holder'[row] # Null PROVE HolderOK(row)'
  BY <1>2 DEF LocksInv, LocksProtect, HolderOK, Running, GivenUp, NewVersion, Row
<1>3. ASSUME NEW x \in Txns PROVE TransactionOK(x)'
  BY DEF LocksInv, LocksProtect, TransactionOK, Running, GivenUp, MayWrite
<1>4. QED
  BY <1>1, <1>2, <1>3 DEF LocksInv, LocksProtect

LEMMA IssueKeepsLocks == ASSUME LocksInv, NEW x \in Txns, Issue(x) PROVE LocksInv'
<1> USE DEF lockVars, tables
<1>1. PICK w \in WriteCalls : write' = [write EXCEPT ![x] = w]
  BY DEF Issue
<1>2. RowLocksTypeOK'
  BY <1>1 DEF Issue, LocksInv, RowLocksTypeOK, TablesTypeOK, Phases
<1>3. ASSUME NEW row \in Rows, holder'[row] # Null PROVE HolderOK(row)'
  <2>1. holder[row] # x /\ holder[row] \in Txns /\ HolderOK(row)
    BY <1>3, LockedRow DEF Issue, Running, GivenUp, LocksInv, LocksProtect
  <2>2. write'[holder[row]] = write[holder[row]] /\ phase'[holder[row]] = phase[holder[row]]
    BY <1>1, <2>1 DEF Issue, LocksInv, RowLocksTypeOK
  <2>3. QED
    BY <2>1, <2>2 DEF Issue, HolderOK, Running, GivenUp, NewVersion, Row
<1>4. ASSUME NEW y \in Txns PROVE TransactionOK(y)'
  <2>1. TransactionOK(y)
    BY DEF LocksInv, LocksProtect
  <2>2. CASE y = x
    <3>1. phase'[x] = "queued" /\ write'[x] = w /\ want[x] = Null
      BY <1>1, <2>1, <2>2 DEF Issue, LocksInv, RowLocksTypeOK, TransactionOK, Running, GivenUp
    <3>2. QED
      BY <2>1, <2>2, <3>1, WritesAssumption DEF Issue, TransactionOK, Running, GivenUp
  <2>3. CASE y # x
    <3>1. phase'[y] = phase[y] /\ write'[y] = write[y]
      BY <1>1, <2>3 DEF Issue, LocksInv, RowLocksTypeOK
    <3>2. QED
      BY <2>1, <3>1 DEF Issue, TransactionOK, Running, GivenUp, MayWrite
  <2>4. QED
    BY <2>2, <2>3
<1>5. QED
  BY <1>2, <1>3, <1>4 DEF LocksInv, LocksProtect

LEMMA BeginKeepsLocks == ASSUME LocksInv, NEW x \in Txns, Begin(x) PROVE LocksInv'
<1> DEFINE rows == Targets(write[x])
<1> USE DEF tables
<1>1. write[x] \in WriteCalls /\ want[x] = Null /\ ~Running(x)
  BY DEF Begin, LocksInv, RowLocksTypeOK, LocksProtect, TransactionOK, Running, GivenUp
<1>2. /\ rows \subseteq Rows
      /\ \A row \in rows : MayWrite(write[x], row)
      /\ write[x].op = "CreateTeam" => rows = Members(write[x].order)
      /\ write[x].op = "CreatePR" => rows = {write[x].pr}
  BY <1>1, TargetsMayBeWritten DEF LocksInv, RowLocksTypeOK
<1> HIDE DEF rows
<1>3. /\ matched' = [matched EXCEPT ![x] = rows]
      /\ todo' = [todo EXCEPT ![x] = rows]
      /\ phase' = [phase EXCEPT ![x] = "active"]
      /\ free' = free - 1 /\ free > 0
      /\ UNCHANGED <<users, pull_requests, write, want, holder, version>>
  BY DEF Begin, rows
<1>4. RowLocksTypeOK'
  BY <1>2, <1>3 DEF LocksInv, RowLocksTypeOK, TablesTypeOK, Phases
<1>5. ASSUME NEW row \in Rows, holder'[row] # Null PROVE HolderOK(row)'
  <2>1. holder[row] # x /\ holder[row] \in Txns /\ HolderOK(row)
    BY <1>1, <1>3, <1>5, LockedRow DEF LocksInv, LocksProtect
  <2>2. /\ matched'[holder[row]] = matched[holder[row]]
        /\ todo'[holder[row]] = todo[holder[row]]
        /\ phase'[holder[row]] = phase[holder[row]]
    BY <1>3, <2>1 DEF LocksInv, RowLocksTypeOK
  <2>3. QED
    BY <1>3, <2>1, <2>2 DEF HolderOK, Running, GivenUp, NewVersion, Row
<1>6. ASSUME NEW y \in Txns PROVE TransactionOK(y)'
  <2>1. TransactionOK(y)
    BY DEF LocksInv, LocksProtect
  <2>2. CASE y = x
    <3>1. matched'[x] = rows /\ todo'[x] = rows /\ phase'[x] = "active"
      BY <1>3 DEF LocksInv, RowLocksTypeOK
    <3>2. write[x] # Null
      BY <1>1, WritesAssumption
    <3>3. \A row \in rows : MayWrite(write[x], row)'
      BY <1>2, <1>3 DEF MayWrite
    <3>4. QED
      BY <1>1, <1>2, <1>3, <2>2, <3>1, <3>2, <3>3 DEF TransactionOK, Running, GivenUp
  <2>3. CASE y # x
    <3>1. matched'[y] = matched[y] /\ todo'[y] = todo[y] /\ phase'[y] = phase[y]
      BY <1>3, <2>3 DEF LocksInv, RowLocksTypeOK
    <3>2. QED
      BY <1>3, <2>1, <3>1 DEF TransactionOK, Running, GivenUp, MayWrite
  <2>4. QED
    BY <2>2, <2>3
<1>7. QED
  BY <1>4, <1>5, <1>6 DEF LocksInv, LocksProtect

LEMMA LockRowKeepsLocks ==
    ASSUME LocksInv, NEW x \in Txns, NEW row \in Rows, LockRow(x, row)
    PROVE  LocksInv'
<1> DEFINE new == NewVersion(write[x], row, Row(row))
<1> USE DEF tables
<1>1. row \in todo[x] /\ Running(x) /\ TransactionOK(x) /\ row \in matched[x]
  BY DEF LockRow, NextRows, Executing, Running, GivenUp, LocksInv, LocksProtect, TransactionOK
<1>2. write[x] \in WriteCalls /\ MayWrite(write[x], row)
  BY <1>1 DEF LocksInv, RowLocksTypeOK, TransactionOK, Running, GivenUp
<1>3. new \in User \cup PullRequest
  BY <1>2, VersionOfRow DEF LocksInv, RowLocksTypeOK, Rows
<1> HIDE DEF new
<1>4. /\ holder[row] = Null
      /\ want[x] \in {Null, row}
      /\ holder' = [holder EXCEPT ![row] = x]
      /\ version' = [version EXCEPT ![row] = new]
      /\ todo' = [todo EXCEPT ![x] = todo[x] \ {row}]
      /\ want' = [want EXCEPT ![x] = Null]
      /\ UNCHANGED <<users, pull_requests, write, matched, phase, free>>
  BY DEF LockRow, new
<1>5. RowLocksTypeOK'
  BY <1>3, <1>4 DEF LocksInv, RowLocksTypeOK, TablesTypeOK
<1>6. ASSUME NEW r \in Rows, holder'[r] # Null PROVE HolderOK(r)'
  <2>1. CASE r = row
    <3>1. holder'[r] = x /\ version'[r] = new /\ todo'[x] = todo[x] \ {row}
      BY <1>4, <2>1 DEF LocksInv, RowLocksTypeOK
    <3>2. new = NewVersion(write[x], row, Row(row))'
      BY <1>4 DEF new, NewVersion, Row
    <3>3. QED
      BY <1>1, <1>4, <2>1, <3>1, <3>2 DEF HolderOK, Running, GivenUp
  <2>2. CASE r # row
    <3>1. holder'[r] = holder[r] /\ version'[r] = version[r]
      BY <1>4, <2>2 DEF LocksInv, RowLocksTypeOK
    <3>2. holder[r] \in Txns /\ HolderOK(r)
      BY <1>6, <3>1, LockedRow DEF LocksInv, LocksProtect
    <3>3. todo'[holder[r]] \subseteq todo[holder[r]]
      BY <1>4, <3>2 DEF LocksInv, RowLocksTypeOK
    <3>4. QED
      BY <1>4, <3>1, <3>2, <3>3 DEF HolderOK, Running, GivenUp, NewVersion, Row
  <2>3. QED
    BY <2>1, <2>2
<1>7. ASSUME NEW y \in Txns PROVE TransactionOK(y)'
  <2>1. TransactionOK(y)
    BY DEF LocksInv, LocksProtect
  <2>2. CASE y = x
    <3>1. todo'[x] = todo[x] \ {row} /\ want'[x] = Null /\ holder'[row] = x
      BY <1>4 DEF LocksInv, RowLocksTypeOK
    <3>2. \A r \in matched[x] \ todo[x] : holder'[r] = x
      BY <1>1, <1>4 DEF TransactionOK, LocksInv, RowLocksTypeOK
    <3>3. QED
      BY <1>1, <1>4, <2>1, <2>2, <3>1, <3>2 DEF TransactionOK, Running, GivenUp, MayWrite
  <2>3. CASE y # x
    <3>1. todo'[y] = todo[y] /\ want'[y] = want[y]
      BY <1>4, <2>3 DEF LocksInv, RowLocksTypeOK
    <3>2. ASSUME Running(y), NEW r \in matched[y] \ todo[y] PROVE holder'[r] = y
      <4>1. holder[r] = y /\ r # row
        BY <1>4, <2>1, <3>2, WritesAssumption DEF TransactionOK
      <4>2. QED
        BY <1>4, <3>2, <4>1 DEF LocksInv, RowLocksTypeOK
    <3>3. QED
      BY <1>4, <2>1, <3>1, <3>2 DEF TransactionOK, Running, GivenUp, MayWrite
  <2>4. QED
    BY <2>2, <2>3
<1>8. QED
  BY <1>5, <1>6, <1>7 DEF LocksInv, LocksProtect

LEMMA WaitForRowKeepsLocks ==
    ASSUME LocksInv, NEW x \in Txns, NEW row \in Rows, WaitForRow(x, row)
    PROVE  LocksInv'
<1> USE DEF tables
<1>1. /\ want' = [want EXCEPT ![x] = row]
      /\ UNCHANGED <<users, pull_requests, write, matched, phase, free, todo,
                     holder, version>>
      /\ Running(x) /\ row \in todo[x]
  BY DEF WaitForRow, NextRows, Executing, Running, GivenUp
<1>2. RowLocksTypeOK'
  BY <1>1 DEF LocksInv, RowLocksTypeOK, TablesTypeOK
<1>3. ASSUME NEW r \in Rows, holder'[r] # Null PROVE HolderOK(r)'
  BY <1>1, <1>3 DEF LocksInv, LocksProtect, HolderOK, Running, GivenUp, NewVersion, Row
<1>4. ASSUME NEW y \in Txns PROVE TransactionOK(y)'
  <2>1. TransactionOK(y)
    BY DEF LocksInv, LocksProtect
  <2>2. want'[y] = IF y = x THEN row ELSE want[y]
    BY <1>1 DEF LocksInv, RowLocksTypeOK
  <2>3. QED
    BY <1>1, <2>1, <2>2 DEF TransactionOK, Running, GivenUp, MayWrite
<1>5. QED
  BY <1>2, <1>3, <1>4 DEF LocksInv, LocksProtect
\* A step after which every row that was there still is, and only rows that x
\* has locked may differ.
OnlyLockedRowsChange(x) ==
    /\ TablesTypeOK'
    /\ \A row \in Rows : holder[row] # x => Row(row)' = Row(row)
    /\ \A u \in UserIds : users[u] # Null => users'[u] # Null
    /\ \A p \in PRIds : pull_requests[p] # Null => pull_requests'[p] # Null

\* Rows that were there are still there, so a write may still write them.
LEMMA MayWriteStays ==
    ASSUME NEW x \in Txns, OnlyLockedRowsChange(x), NEW w \in WriteCalls,
           NEW row \in Rows, MayWrite(w, row)
    PROVE  MayWrite(w, row)'
BY WriteArguments DEF MayWrite, OnlyLockedRowsChange

LEMMA EndSessionKeepsLocks ==
    ASSUME LocksInv, NEW x \in Txns, Running(x),
           NEW how \in {"committed", "failed"}, EndSession(x, how),
           OnlyLockedRowsChange(x)
    PROVE  LocksInv'
<1>1. /\ phase' = [phase EXCEPT ![x] = how]
      /\ free' = IF phase[x] = "active" THEN free + 1 ELSE free
      /\ want' = [want EXCEPT ![x] = Null]
      /\ todo' = [todo EXCEPT ![x] = {}]
      /\ holder' = [row \in Rows |-> IF holder[row] = x THEN Null ELSE holder[row]]
      /\ version' = [row \in Rows |-> IF holder[row] = x THEN Null ELSE version[row]]
      /\ UNCHANGED <<write, matched>>
  BY DEF EndSession
<1>2. RowLocksTypeOK'
  BY <1>1 DEF OnlyLockedRowsChange, LocksInv, RowLocksTypeOK, Phases
<1>3. ASSUME NEW row \in Rows, holder'[row] # Null PROVE HolderOK(row)'
  <2>1. /\ holder'[row] = holder[row] /\ holder[row] # x
        /\ version'[row] = version[row] /\ Row(row)' = Row(row)
    BY <1>1, <1>3 DEF OnlyLockedRowsChange
  <2>2. holder[row] \in Txns /\ HolderOK(row)
    BY <1>3, <2>1, LockedRow DEF LocksInv, LocksProtect
  <2>3. todo'[holder[row]] = todo[holder[row]] /\ phase'[holder[row]] = phase[holder[row]]
    BY <1>1, <2>1, <2>2 DEF LocksInv, RowLocksTypeOK
  <2>4. QED
    BY <1>1, <2>1, <2>2, <2>3 DEF HolderOK, Running, GivenUp, NewVersion
<1>4. ASSUME NEW y \in Txns PROVE TransactionOK(y)'
  <2>1. TransactionOK(y)
    BY DEF LocksInv, LocksProtect
  <2>2. CASE y = x
    <3>1. phase'[x] = how /\ want'[x] = Null /\ todo'[x] = {} /\ write[x] # Null
      BY <1>1, <2>1, <2>2 DEF LocksInv, RowLocksTypeOK, TransactionOK, Running, GivenUp
    <3>2. QED
      BY <1>1, <2>2, <3>1 DEF TransactionOK, Running, GivenUp
  <2>3. CASE y # x
    <3>1. phase'[y] = phase[y] /\ want'[y] = want[y] /\ todo'[y] = todo[y]
      BY <1>1, <2>3 DEF LocksInv, RowLocksTypeOK
    <3>2. ASSUME Running(y), NEW row \in matched[y] PROVE MayWrite(write[y], row)'
      <4>1. write[y] \in WriteCalls /\ MayWrite(write[y], row) /\ row \in Rows
        BY <2>1, <3>2 DEF TransactionOK, Running, GivenUp, LocksInv, RowLocksTypeOK
      <4>2. QED
        BY <1>1, <4>1, MayWriteStays
    <3>3. ASSUME Running(y), NEW row \in matched[y] \ todo[y] PROVE holder'[row] = y
      BY <1>1, <2>1, <2>3, <3>3 DEF TransactionOK, LocksInv, RowLocksTypeOK
    <3>4. QED
      BY <1>1, <2>1, <3>1, <3>2, <3>3 DEF TransactionOK, Running, GivenUp
  <2>4. QED
    BY <2>2, <2>3
<1>5. QED
  BY <1>2, <1>3, <1>4 DEF LocksInv, LocksProtect

LEMMA CommitKeepsLocks == ASSUME LocksInv, NEW x \in Txns, Commit(x) PROVE LocksInv'
<1>1. /\ Running(x) /\ EndSession(x, "committed")
      /\ users' = [u \in UserIds |-> IF holder[u] = x THEN version[u] ELSE users[u]]
      /\ pull_requests' = [p \in PRIds |->
                             IF holder[p] = x THEN version[p] ELSE pull_requests[p]]
  BY DEF Commit, Running, GivenUp
<1>2. x # Null
  BY WritesAssumption
<1>3. \A u \in UserIds : holder[u] = x => version[u] \in User
  BY <1>2, LockedRow DEF Rows
<1>4. \A p \in PRIds : holder[p] = x => version[p] \in PullRequest
  BY <1>2, LockedRow DEF Rows
<1>5. TablesTypeOK'
  BY <1>1, <1>3, <1>4 DEF LocksInv, RowLocksTypeOK, TablesTypeOK
<1>6. \A row \in Rows : holder[row] # x => Row(row)' = Row(row)
  BY <1>1 DEF Row, Rows
<1>7. OnlyLockedRowsChange(x)
  BY <1>1, <1>3, <1>4, <1>5, <1>6, RepositoryAssumption DEF OnlyLockedRowsChange
<1>8. QED
  BY <1>1, <1>7, EndSessionKeepsLocks

LEMMA RollbackKeepsLocks ==
    ASSUME LocksInv, NEW x \in Txns, Running(x), Rollback(x) PROVE LocksInv'
<1>1. EndSession(x, "failed") /\ users' = users /\ pull_requests' = pull_requests
  BY DEF Rollback, tables
<1>2. OnlyLockedRowsChange(x)
  BY <1>1 DEF OnlyLockedRowsChange, LocksInv, RowLocksTypeOK, TablesTypeOK, Row
<1>3. QED
  BY <1>1, <1>2, EndSessionKeepsLocks

\* Only the phases change, and only so that transactions under way stay so and
\* calls that have not begun fail.
LEMMA PhasesKeepLocks ==
    ASSUME LocksInv, free' \in Nat, phase' \in [Txns -> Phases],
           \A x \in Txns : /\ Running(x)' = Running(x)
                           /\ phase'[x] # "idle" => phase[x] # "idle",
           UNCHANGED <<tables, write, matched, lockVars>>
    PROVE  LocksInv'
<1> USE DEF tables, lockVars
<1>1. RowLocksTypeOK'
  BY DEF LocksInv, RowLocksTypeOK, TablesTypeOK
<1>2. ASSUME NEW row \in Rows, holder'[row] # Null PROVE HolderOK(row)'
  <2>1. holder[row] \in Txns /\ HolderOK(row)
    BY <1>2, LockedRow DEF LocksInv, LocksProtect
  <2>2. QED
    BY <2>1 DEF HolderOK, NewVersion, Row
<1>3. ASSUME NEW x \in Txns PROVE TransactionOK(x)'
  BY DEF LocksInv, LocksProtect, TransactionOK, MayWrite
<1>4. QED
  BY <1>1, <1>2, <1>3 DEF LocksInv, LocksProtect

LEMMA ExpireKeepsLocks == ASSUME LocksInv, NEW x \in Txns, Expire(x) PROVE LocksInv'
<1>1. PICK how \in {"failed"} \cup GivenUp :
        /\ phase' = [phase EXCEPT ![x] = how]
        /\ (how = "failed") = (phase[x] = "queued")
        /\ phase[x] \in {"queued", "active"}
        /\ free' \in {free, free + 1}
        /\ UNCHANGED <<tables, write, matched, lockVars>>
  BY DEF Expire, LeftAs, GivenUp
<1>2. free' \in Nat /\ phase' \in [Txns -> Phases]
  BY <1>1 DEF LocksInv, RowLocksTypeOK, Phases
<1>3. \A y \in Txns : Running(y)' = Running(y) /\ (phase'[y] # "idle" => phase[y] # "idle")
  BY <1>1 DEF LocksInv, RowLocksTypeOK, Running, GivenUp
<1>4. QED
  BY <1>1, <1>2, <1>3, PhasesKeepLocks

LEMMA CrashKeepsLocks == ASSUME LocksInv, Crash PROVE LocksInv'
<1>1. free' \in Nat /\ phase' \in [Txns -> Phases]
  BY RowLocksAssumption DEF Crash, LocksInv, RowLocksTypeOK, Phases
<1>2. \A y \in Txns : Running(y)' = Running(y) /\ (phase'[y] # "idle" => phase[y] # "idle")
  BY DEF Crash, LocksInv, RowLocksTypeOK, Running, GivenUp
<1>3. UNCHANGED <<tables, write, matched, lockVars>>
  BY DEF Crash
<1>4. QED
  BY <1>1, <1>2, <1>3, PhasesKeepLocks

LEMMA StepKeepsLocks == ASSUME LocksInv, [Next]_vars PROVE LocksInv'
<1>1. CASE UNCHANGED vars
  BY <1>1, StutterKeepsLocks
<1>2. ASSUME NEW x \in Txns, Issue(x) PROVE LocksInv'
  BY <1>2, IssueKeepsLocks
<1>3. ASSUME NEW x \in Txns, Advance(x) PROVE LocksInv'
  BY <1>3, BeginKeepsLocks, LockRowKeepsLocks, WaitForRowKeepsLocks, CommitKeepsLocks
  DEF Advance
<1>4. ASSUME NEW x \in Txns, Victim(x) \/ Cancel(x) PROVE LocksInv'
  BY <1>4, RollbackKeepsLocks DEF Victim, Cancel, Running, GivenUp
<1>5. ASSUME NEW x \in Txns, Expire(x) PROVE LocksInv'
  BY <1>5, ExpireKeepsLocks
<1>6. CASE Crash
  BY <1>6, CrashKeepsLocks
<1>7. CASE AllEnded
  BY <1>7, StutterKeepsLocks DEF AllEnded
<1>8. QED
  BY <1>1, <1>2, <1>3, <1>4, <1>5, <1>6, <1>7 DEF Next

\* Rows are locked, versioned and released as LocksProtect says, whatever the
\* order in which transactions lock them and however they end.
LEMMA LockingIsSound == Spec => [](RowLocksTypeOK /\ LocksProtect)
<1>1. Init => LocksInv
  BY InitLocks
<1>2. LocksInv /\ [Next]_vars => LocksInv'
  BY StepKeepsLocks
<1>3. LocksInv <=> RowLocksTypeOK /\ LocksProtect
  BY DEF LocksInv
<1>4. QED
  BY <1>1, <1>2, <1>3, PTL DEF Spec

\* Transactions, row versions and the pool keep their types, whichever
\* transactions the deadlock detector, their deadline or a crash ends.
THEOREM LocksTypeCorrect == Spec => []RowLocksTypeOK
  BY LockingIsSound, PTL
-----------------------------------------------------------------------------
(* The pool.                                                               *)

Holding == {x \in Txns : phase[x] = "active"}

\* The requests that hold a connection are finitely many, and with the free
\* connections they make up the pool.
PoolInv == /\ RowLocksTypeOK
           /\ IsFiniteSet(Holding)
           /\ PoolBalanced

\* One connection more is held.
LEMMA ConnectionTaken ==
    ASSUME PoolInv, free' = free - 1, NEW x \in Txns, phase[x] # "active",
           Holding' = Holding \cup {x}
    PROVE  IsFiniteSet(Holding') /\ PoolBalanced'
<1>1. x \notin Holding /\ IsFiniteSet(Holding) /\ free + Cardinality(Holding) = MaxConns
  BY DEF PoolInv, PoolBalanced, Holding
<1>2. /\ IsFiniteSet(Holding \cup {x})
      /\ Cardinality(Holding \cup {x}) = Cardinality(Holding) + 1
  BY <1>1, FS_AddElement
<1>3. Cardinality(Holding) \in Nat /\ free \in Nat
  BY <1>1, FS_CardinalityType DEF PoolInv, RowLocksTypeOK
<1>4. free' + Cardinality(Holding') = MaxConns
  BY <1>1, <1>2, <1>3
<1>5. QED
  BY <1>2, <1>4 DEF PoolBalanced, Holding

\* A request gives its connection back.
LEMMA ConnectionReturned ==
    ASSUME PoolInv, free' = free + 1, NEW x \in Txns, phase[x] = "active",
           Holding' = Holding \ {x}
    PROVE  IsFiniteSet(Holding') /\ PoolBalanced'
<1>1. x \in Holding /\ IsFiniteSet(Holding) /\ free + Cardinality(Holding) = MaxConns
  BY DEF PoolInv, PoolBalanced, Holding
<1>2. /\ IsFiniteSet(Holding \ {x})
      /\ Cardinality(Holding \ {x}) = Cardinality(Holding) - 1
  BY <1>1, FS_RemoveElement
<1>3. Cardinality(Holding) \in Nat /\ free \in Nat
  BY <1>1, FS_CardinalityType DEF PoolInv, RowLocksTypeOK
<1>4. free' + Cardinality(Holding') = MaxConns
  BY <1>1, <1>2, <1>3
<1>5. QED
  BY <1>2, <1>4 DEF PoolBalanced, Holding

LEMMA NobodyMoves ==
    ASSUME PoolInv, free' = free, Holding' = Holding
    PROVE  IsFiniteSet(Holding') /\ PoolBalanced'
<1>1. free' + Cardinality(Holding') = MaxConns /\ IsFiniteSet(Holding)
  BY DEF PoolInv, PoolBalanced, Holding
<1>2. QED
  BY <1>1 DEF PoolBalanced, Holding

LEMMA EndSessionKeepsPool ==
    ASSUME PoolInv, NEW x \in Txns, NEW how \in {"committed", "failed"},
           EndSession(x, how)
    PROVE  IsFiniteSet(Holding') /\ PoolBalanced'
<1>1. phase' = [phase EXCEPT ![x] = how]
      /\ free' = IF phase[x] = "active" THEN free + 1 ELSE free
  BY DEF EndSession
<1>2. Holding' = Holding \ {x}
  BY <1>1 DEF Holding, PoolInv, RowLocksTypeOK
<1>3. CASE phase[x] = "active"
  BY <1>1, <1>2, <1>3, ConnectionReturned
<1>4. CASE phase[x] # "active"
  <2>1. Holding' = Holding
    BY <1>2, <1>4 DEF Holding
  <2>2. QED
    BY <1>1, <1>4, <2>1, NobodyMoves
<1>5. QED
  BY <1>3, <1>4

LEMMA StepKeepsPool ==
    ASSUME PoolInv, [Next]_vars PROVE IsFiniteSet(Holding') /\ PoolBalanced'
<1>1. ASSUME free' = free, phase' = phase
      PROVE  IsFiniteSet(Holding') /\ PoolBalanced'
  <2>1. Holding' = Holding
    BY <1>1 DEF Holding
  <2>2. QED
    BY <1>1, <2>1, NobodyMoves
<1>2. CASE UNCHANGED vars \/ AllEnded
  BY <1>1, <1>2 DEF AllEnded, vars
<1>3. ASSUME NEW x \in Txns, Issue(x) PROVE IsFiniteSet(Holding') /\ PoolBalanced'
  <2>1. Holding' = Holding /\ free' = free
    BY <1>3 DEF Issue, Holding, PoolInv, RowLocksTypeOK
  <2>2. QED
    BY <2>1, NobodyMoves
<1>4. ASSUME NEW x \in Txns, Begin(x) PROVE IsFiniteSet(Holding') /\ PoolBalanced'
  <2>1. free' = free - 1 /\ phase[x] # "active" /\ phase' = [phase EXCEPT ![x] = "active"]
    BY <1>4 DEF Begin
  <2>2. Holding' = Holding \cup {x}
    BY <2>1 DEF Holding, PoolInv, RowLocksTypeOK
  <2>3. QED
    BY <2>1, <2>2, ConnectionTaken
<1>5. ASSUME NEW x \in Txns, NEW row \in Rows, LockRow(x, row) \/ WaitForRow(x, row)
      PROVE  IsFiniteSet(Holding') /\ PoolBalanced'
  BY <1>1, <1>5 DEF LockRow, WaitForRow
<1>6. ASSUME NEW x \in Txns, Commit(x) \/ Victim(x) \/ Cancel(x)
      PROVE  IsFiniteSet(Holding') /\ PoolBalanced'
  BY <1>6, EndSessionKeepsPool DEF Commit, Victim, Cancel, Rollback
<1>7. ASSUME NEW x \in Txns, Expire(x) PROVE IsFiniteSet(Holding') /\ PoolBalanced'
  <2>1. CASE phase[x] = "queued"
    <3>1. free' = free /\ phase' = [phase EXCEPT ![x] = "failed"]
      BY <1>7, <2>1 DEF Expire
    <3>2. Holding' = Holding
      BY <2>1, <3>1 DEF Holding, PoolInv, RowLocksTypeOK
    <3>3. QED
      BY <3>1, <3>2, NobodyMoves
  <2>2. CASE phase[x] = "active"
    <3>1. PICK how \in LeftAs(x) : free' = free + 1 /\ phase' = [phase EXCEPT ![x] = how]
      BY <1>7, <2>2 DEF Expire
    <3>2. Holding' = Holding \ {x}
      BY <3>1 DEF LeftAs, GivenUp, Holding, PoolInv, RowLocksTypeOK
    <3>3. QED
      BY <2>2, <3>1, <3>2, ConnectionReturned
  <2>3. QED
    BY <1>7, <2>1, <2>2 DEF Expire
<1>8. CASE Crash
  <2>1. Holding' = {} /\ free' = MaxConns
    BY <1>8 DEF Crash, LeftAs, GivenUp, Holding
  <2>2. IsFiniteSet({}) /\ Cardinality({}) = 0
    BY FS_EmptySet
  <2>3. free' + Cardinality(Holding') = MaxConns
    BY <2>1, <2>2, RowLocksAssumption
  <2>4. QED
    BY <2>1, <2>2, <2>3 DEF PoolBalanced, Holding
<1>9. QED
  BY <1>2, <1>3, <1>4, <1>5, <1>6, <1>7, <1>8 DEF Next, Advance

\* No connection is lost and none is handed out twice, whether the calls that
\* held them commit, are rolled back, run into their deadline or die with the
\* process, for a pool of any size.
THEOREM PoolStaysBalanced == Spec => []PoolBalanced
<1>1. Init => PoolInv
  <2> SUFFICES ASSUME Init PROVE PoolInv
    OBVIOUS
  <2>1. Holding = {} /\ free = MaxConns
    BY DEF Init, Holding
  <2>2. IsFiniteSet({}) /\ Cardinality({}) = 0
    BY FS_EmptySet
  <2>3. free + Cardinality(Holding) = MaxConns
    BY <2>1, <2>2, RowLocksAssumption
  <2>4. RowLocksTypeOK
    BY InitLocks DEF LocksInv
  <2>5. QED
    BY <2>1, <2>2, <2>3, <2>4 DEF PoolInv, PoolBalanced, Holding
<1>2. RowLocksTypeOK' /\ PoolInv /\ [Next]_vars => PoolInv'
  BY StepKeepsPool DEF PoolInv
<1>3. Spec => []RowLocksTypeOK
  BY LockingIsSound, PTL
<1>4. PoolInv => PoolBalanced
  BY DEF PoolInv
<1>5. QED
  BY <1>1, <1>2, <1>3, <1>4, PTL DEF Spec

-----------------------------------------------------------------------------
(* Deadlocks.                                                              *)

\* A transaction that waits and is waited for has found two rows.
LEMMA DeadlockNeedsTwoRows ==
    ASSUME LocksInv, NEW x \in Txns, Deadlocked(x)
    PROVE  \E row, other \in matched[x] : row # other
<1>1. PICK xs \in SUBSET Txns : x \in xs /\ {Blocker(y) : y \in xs} = xs
  BY DEF Deadlocked
<1>2. PICK y \in xs : Blocker(y) = x
  BY <1>1
<1>3. want[y] # Null /\ want[y] \in Rows /\ holder[want[y]] = x
  BY <1>1, <1>2, WritesAssumption DEF Blocker, LocksInv, RowLocksTypeOK
<1>4. want[y] \in matched[x] \ todo[x]
  BY <1>3, LockedRow, WritesAssumption
<1>5. Blocker(x) \in Txns
  BY <1>1
<1>6. want[x] # Null
  BY <1>5, WritesAssumption DEF Blocker
<1>7. want[x] \in todo[x] /\ todo[x] \subseteq matched[x]
  BY <1>6 DEF LocksInv, LocksProtect, TransactionOK
<1>8. QED
  BY <1>4, <1>7

\* A write about one row is never the victim of a deadlock.
LEMMA VictimWritesManyRows ==
    ASSUME LocksInv, NEW x \in Txns, Running(x), Deadlocked(x)
    PROVE  /\ write[x].op \in {"CreateTeam", "DeactivateUsersByTeam",
                               "BulkUpdatePRReviewers"}
           /\ \E row, other \in matched[x] : row # other
<1>1. PICK row, other \in matched[x] : row # other
  BY DeadlockNeedsTwoRows
<1>2. /\ write[x] \in WriteCalls
      /\ MayWrite(write[x], row) /\ MayWrite(write[x], other)
  BY <1>1 DEF LocksInv, RowLocksTypeOK, LocksProtect, TransactionOK, Running, GivenUp
<1>3. write[x].op \notin {"SetUserActive", "CreatePR", "UpdatePRStatusWithMergedAt",
                          "UpdatePRReviewers"}
  BY <1>1, <1>2 DEF MayWrite
<1>4. QED
  BY <1>1, <1>2, <1>3, WriteArguments

\* Nobody is given up on, and whoever has failed wrote several rows.
FailInv == /\ LocksInv
           /\ OnlyBulkWritesFail
           /\ \A x \in Txns : phase[x] \notin GivenUp

\* x had failed before this step.
FailedBefore(x) ==
    /\ phase[x] = "failed"
    /\ write'[x] = write[x]
    /\ matched'[x] = matched[x]

LEMMA StepKeepsFailures ==
    ASSUME Faults = {}, FailInv, LocksInv', [Next]_vars
    PROVE  FailInv'
<1>1. ASSUME NEW x \in Txns,
             phase'[x] = "failed" => FailedBefore(x) \/ Victim(x)
      PROVE  phase'[x] = "failed" =>
               /\ write'[x].op \in {"CreateTeam", "DeactivateUsersByTeam",
                                    "BulkUpdatePRReviewers"}
               /\ \E row, other \in matched'[x] : row # other
  <2>1. CASE FailedBefore(x)
    BY <2>1 DEF FailedBefore, FailInv, OnlyBulkWritesFail
  <2>2. CASE Victim(x)
    BY <2>2, VictimWritesManyRows DEF FailInv, Victim, Rollback, EndSession
  <2>3. QED
    BY <1>1, <2>1, <2>2
<1>2. ASSUME NEW y \in Txns, Issue(y) \/ Begin(y), NEW x \in Txns
      PROVE  /\ phase'[x] \notin GivenUp
             /\ phase'[x] = "failed" => FailedBefore(x)
  <2>1. CASE x = y
    <3>1. phase'[x] \in {"queued", "active"}
      BY <1>2, <2>1 DEF Issue, Begin, FailInv, LocksInv, RowLocksTypeOK
    <3>2. QED
      BY <3>1 DEF GivenUp
  <2>2. CASE x # y
    <3>1. phase'[x] = phase[x] /\ write'[x] = write[x] /\ matched'[x] = matched[x]
      BY <1>2, <2>2 DEF Issue, Begin, FailInv, LocksInv, RowLocksTypeOK
    <3>2. QED
      BY <3>1 DEF FailInv, FailedBefore
  <2>3. QED
    BY <2>1, <2>2
<1>3. ASSUME NEW y \in Txns, NEW row \in Rows, LockRow(y, row) \/ WaitForRow(y, row),
             NEW x \in Txns
      PROVE  /\ phase'[x] \notin GivenUp
             /\ phase'[x] = "failed" => FailedBefore(x)
  BY <1>3 DEF LockRow, WaitForRow, FailInv, FailedBefore
<1>4. ASSUME NEW y \in Txns, Commit(y), NEW x \in Txns
      PROVE  /\ phase'[x] \notin GivenUp
             /\ phase'[x] = "failed" => FailedBefore(x)
  BY <1>4 DEF Commit, EndSession, FailInv, FailedBefore, LocksInv, RowLocksTypeOK, GivenUp
<1>5. ASSUME NEW y \in Txns, Victim(y), NEW x \in Txns
      PROVE  /\ phase'[x] \notin GivenUp
             /\ phase'[x] = "failed" => FailedBefore(x) \/ Victim(x)
  <2>1. phase' = [phase EXCEPT ![y] = "failed"] /\ UNCHANGED <<write, matched>>
    BY <1>5 DEF Victim, Rollback, EndSession
  <2>2. CASE x = y
    BY <1>5, <2>1, <2>2 DEF FailInv, LocksInv, RowLocksTypeOK, GivenUp
  <2>3. CASE x # y
    BY <2>1, <2>3 DEF FailInv, FailedBefore, LocksInv, RowLocksTypeOK
  <2>4. QED
    BY <2>2, <2>3
<1>6. ASSUME NEW y \in Txns PROVE ~Expire(y) /\ ~Cancel(y) /\ ~Crash
  BY DEF Expire, Cancel, Crash, FailInv
<1>7. ASSUME UNCHANGED vars \/ AllEnded, NEW x \in Txns
      PROVE  /\ phase'[x] \notin GivenUp
             /\ phase'[x] = "failed" => FailedBefore(x)
  BY <1>7 DEF AllEnded, vars, FailInv, FailedBefore
<1>8. CASE \E x \in Txns : Issue(x) \/ Advance(x) \/ Victim(x)
  <2>1. PICK y \in Txns : \/ Issue(y) \/ Begin(y) \/ Commit(y) \/ Victim(y)
                          \/ \E row \in Rows : LockRow(y, row) \/ WaitForRow(y, row)
    BY <1>8 DEF Advance
  <2>2. ASSUME NEW x \in Txns
        PROVE  /\ phase'[x] \notin GivenUp
               /\ phase'[x] = "failed" =>
                    /\ write'[x].op \in {"CreateTeam", "DeactivateUsersByTeam",
                                         "BulkUpdatePRReviewers"}
                    /\ \E row, other \in matched'[x] : row # other
    BY <1>1, <1>2, <1>3, <1>4, <1>5, <2>1
  <2>3. QED
    BY <2>2 DEF FailInv, OnlyBulkWritesFail
<1>9. CASE UNCHANGED vars \/ AllEnded
  BY <1>1, <1>7, <1>9 DEF FailInv, OnlyBulkWritesFail
<1>10. CASE Crash \/ \E x \in Txns : Expire(x) \/ Cancel(x)
  BY <1>6, <1>10 DEF Crash
<1>11. QED
  BY <1>8, <1>9, <1>10 DEF Next

\* As long as no deadline passes and the process lives, a write fails only as
\* the victim of a deadlock, and then it is one of the three that write several
\* rows: create, merge, reassign and setIsActive are never aborted.
THEOREM SingleRowWritesSucceed ==
    ASSUME Faults = {} PROVE Spec => []OnlyBulkWritesFail
<1>1. Init => FailInv
  <2> SUFFICES ASSUME Init PROVE FailInv
    OBVIOUS
  <2>1. \A x \in Txns : phase[x] = "idle"
    BY DEF Init
  <2>2. QED
    BY <2>1, InitLocks DEF FailInv, OnlyBulkWritesFail, GivenUp
<1>2. LocksInv' /\ FailInv /\ [Next]_vars => FailInv'
  BY StepKeepsFailures
<1>3. Spec => []LocksInv
  <2>1. RowLocksTypeOK /\ LocksProtect => LocksInv
    BY DEF LocksInv
  <2>2. QED
    BY <2>1, LockingIsSound, PTL
<1>4. FailInv => OnlyBulkWritesFail
  BY DEF FailInv
<1>5. QED
  BY <1>1, <1>2, <1>3, <1>4, PTL DEF Spec
-----------------------------------------------------------------------------
(* The refinement.                                                         *)

LEMMA OutcomeMoves ==
    ASSUME RowLocksTypeOK, NEW x \in Txns, NEW p \in Phases,
           phase' = [phase EXCEPT ![x] = p]
    PROVE  /\ p = "queued" => Outcome' = [Outcome EXCEPT ![x] = "asked"]
           /\ p \in {"active"} \cup GivenUp => Outcome' = [Outcome EXCEPT ![x] = "begun"]
           /\ p \in {"idle", "committed", "failed"} => Outcome' = [Outcome EXCEPT ![x] = p]
<1>1. \A y \in Txns : phase'[y] = IF y = x THEN p ELSE phase[y]
  BY DEF RowLocksTypeOK
<1>2. CASE p = "queued"
  BY <1>1, <1>2 DEF Outcome, GivenUp
<1>3. CASE p \in {"active"} \cup GivenUp
  BY <1>1, <1>3 DEF Outcome, GivenUp
<1>4. CASE p \in {"idle", "committed", "failed"}
  BY <1>1, <1>4 DEF Outcome, GivenUp
<1>5. QED
  BY <1>2, <1>3, <1>4 DEF Phases

\* When a transaction commits, the rows it has found are the rows it has locked.
LEMMA CommitWritesMatched ==
    ASSUME LocksInv, NEW x \in Txns, Commit(x)
    PROVE  /\ write[x] \in WriteCalls
           /\ matched[x] \subseteq Rows
           /\ \A row \in matched[x] : MayWrite(write[x], row)
           /\ write[x].op = "CreateTeam" => matched[x] = Members(write[x].order)
           /\ write[x].op = "CreatePR" => matched[x] = {write[x].pr}
           /\ users' = [u \in UserIds |-> IF u \in matched[x]
                          THEN NewVersion(write[x], u, users[u]) ELSE users[u]]
           /\ pull_requests' = [p \in PRIds |-> IF p \in matched[x]
                          THEN NewVersion(write[x], p, pull_requests[p])
                          ELSE pull_requests[p]]
<1>1. Running(x) /\ todo[x] = {} /\ TransactionOK(x) /\ x # Null
  BY WritesAssumption DEF Commit, Running, GivenUp, LocksInv, LocksProtect
<1>2. \A row \in Rows : holder[row] = x <=> row \in matched[x]
  BY <1>1, LockedRow DEF TransactionOK
<1>3. \A row \in Rows : row \in matched[x] =>
        version[row] = NewVersion(write[x], row, Row(row))
  BY <1>1, <1>2, LockedRow
<1>4. \A u \in UserIds : Row(u) = users[u] /\ u \in Rows
  BY DEF Row, Rows
<1>5. \A p \in PRIds : Row(p) = pull_requests[p] /\ p \in Rows
  BY WritesAssumption DEF Row, Rows
<1>6. write[x] \in WriteCalls /\ matched[x] \subseteq Rows
  BY <1>1 DEF LocksInv, RowLocksTypeOK, TransactionOK, Running, GivenUp
<1>7. /\ users' = [u \in UserIds |-> IF holder[u] = x THEN version[u] ELSE users[u]]
      /\ pull_requests' = [p \in PRIds |->
                             IF holder[p] = x THEN version[p] ELSE pull_requests[p]]
  BY DEF Commit
<1>8. users' = [u \in UserIds |-> IF u \in matched[x]
                  THEN NewVersion(write[x], u, users[u]) ELSE users[u]]
  BY <1>2, <1>3, <1>4, <1>7
<1>9. pull_requests' = [p \in PRIds |-> IF p \in matched[x]
                  THEN NewVersion(write[x], p, pull_requests[p]) ELSE pull_requests[p]]
  BY <1>2, <1>3, <1>5, <1>7
<1>10. QED
  BY <1>1, <1>6, <1>8, <1>9 DEF TransactionOK

\* The rows that are written one by one make up the whole write.
LEMMA CommitIsEffect ==
    ASSUME LocksInv, NEW x \in Txns, Commit(x)
    PROVE  Atomic!Effect(write[x], matched[x])
<1> DEFINE w == write[x]
           rows == matched[x]
<1>1. /\ w \in WriteCalls
      /\ rows \subseteq Rows
      /\ \A row \in rows : MayWrite(w, row)
      /\ w.op = "CreateTeam" => rows = Members(w.order)
      /\ w.op = "CreatePR" => rows = {w.pr}
      /\ users' = [u \in UserIds |->
                     IF u \in rows THEN NewVersion(w, u, users[u]) ELSE users[u]]
      /\ pull_requests' = [p \in PRIds |->
                     IF p \in rows THEN NewVersion(w, p, pull_requests[p])
                                   ELSE pull_requests[p]]
  BY CommitWritesMatched
<1> SUFFICES Atomic!Effect(w, rows)
  OBVIOUS
<1> HIDE DEF w, rows
<1>2. UserIds \cap PRIds = {} /\ TablesTypeOK
  BY WritesAssumption DEF LocksInv, RowLocksTypeOK
<1>3. rows \cap PRIds = {} => pull_requests' = pull_requests
  BY <1>1, <1>2 DEF TablesTypeOK
<1>4. rows \cap UserIds = {} => users' = users
  BY <1>1, <1>2 DEF TablesTypeOK
<1>5. CASE w.op \notin {"CreateTeam", "CreatePR"} /\ rows = {}
  BY <1>3, <1>4, <1>5 DEF Atomic!Effect, Atomic!tables
<1>6. CASE w.op = "CreateTeam"
  <2>1. rows = DOMAIN w.members /\ rows \subseteq UserIds
    BY <1>1, <1>6, WriteArguments, MembersAreUsers
  <2>2. users' = [u \in UserIds |->
                    IF u \in DOMAIN w.members
                    THEN [team_name |-> w.team, is_active |-> w.members[u]] ELSE users[u]]
    BY <1>1, <1>6, <2>1 DEF NewVersion
  <2>3. pull_requests' = pull_requests
    BY <1>2, <1>3, <2>1
  <2>4. QED
    BY <1>6, <2>2, <2>3 DEF Atomic!Effect, Atomic!CreateTeamTx
<1>7. CASE w.op = "CreatePR"
  <2>1. rows = {w.pr} /\ w.pr \in PRIds /\ users' = users
    BY <1>1, <1>2, <1>4, <1>7, WriteArguments
  <2>2. CASE pull_requests[w.pr] = Null
    <3>1. pull_requests' =
            [pull_requests EXCEPT ![w.pr] =
               [author_id |-> w.author, status |-> "OPEN",
                assigned_reviewers |-> w.list, merged_at |-> 0]]
      BY <1>1, <1>2, <1>7, <2>1, <2>2 DEF NewVersion, TablesTypeOK
    <3>2. QED
      BY <1>7, <2>1, <2>2, <3>1
      DEF Atomic!Effect, Atomic!InsertPR, Atomic!PRExists, Atomic!GetPRByID
  <2>3. CASE pull_requests[w.pr] # Null
    <3>1. pull_requests' = pull_requests
      BY <1>1, <1>2, <1>7, <2>1, <2>3 DEF NewVersion, TablesTypeOK
    <3>2. QED
      BY <1>7, <2>1, <2>3, <3>1
      DEF Atomic!Effect, Atomic!tables, Atomic!PRExists, Atomic!GetPRByID
  <2>4. QED
    BY <2>2, <2>3
<1>8. CASE w.op = "DeactivateUsersByTeam" /\ rows # {}
  <2>1. rows \subseteq UserIds /\ \A u \in rows : users[u] # Null
    BY <1>1, <1>8 DEF MayWrite
  <2>2. users' = [u \in UserIds |->
                    IF u \in rows /\ users[u].team_name = w.team
                    THEN [users[u] EXCEPT !.is_active = FALSE] ELSE users[u]]
    BY <1>1, <1>8 DEF NewVersion
  <2>3. \A u \in UserIds :
          u \in Atomic!UsersToDeactivate(w.team, rows) <=>
          u \in rows /\ users[u].team_name = w.team
    BY <1>8, <2>1 DEF Atomic!UsersToDeactivate, Atomic!GetUsersByTeam,
                      Atomic!UserExists, Atomic!GetUserByID
  <2>4. Atomic!DeactivateUsersByTeam(w.team, rows)
    BY <1>2, <1>3, <2>1, <2>2, <2>3 DEF Atomic!DeactivateUsersByTeam
  <2>5. QED
    BY <1>8, <2>4 DEF Atomic!Effect
<1>9. CASE w.op = "SetUserActive" /\ rows # {}
  <2>1. rows = {w.user} /\ w.user \in UserIds
    BY <1>1, <1>9, WriteArguments DEF MayWrite
  <2>2. users' = [users EXCEPT ![w.user].is_active = w.is_active]
    BY <1>1, <1>2, <1>9, <2>1 DEF NewVersion, TablesTypeOK
  <2>3. QED
    BY <1>2, <1>3, <1>9, <2>1, <2>2 DEF Atomic!Effect, Atomic!SetUserActive
<1>10. CASE w.op = "UpdatePRStatusWithMergedAt" /\ rows # {}
  <2>1. rows = {w.pr} /\ w.pr \in PRIds
    BY <1>1, <1>10, WriteArguments DEF MayWrite
  <2>2. pull_requests' = [pull_requests EXCEPT ![w.pr].status = "MERGED",
                                               ![w.pr].merged_at = @ + 1]
    BY <1>1, <1>2, <1>10, <2>1 DEF NewVersion, TablesTypeOK
  <2>3. QED
    BY <1>2, <1>4, <1>10, <2>1, <2>2 DEF Atomic!Effect, Atomic!UpdatePRStatusWithMergedAt
<1>11. CASE w.op = "UpdatePRReviewers" /\ rows # {}
  <2>1. rows = {w.pr} /\ w.pr \in PRIds
    BY <1>1, <1>11, WriteArguments DEF MayWrite
  <2>2. pull_requests' = [pull_requests EXCEPT ![w.pr].assigned_reviewers = w.list]
    BY <1>1, <1>2, <1>11, <2>1 DEF NewVersion, TablesTypeOK
  <2>3. QED
    BY <1>2, <1>4, <1>11, <2>1, <2>2 DEF Atomic!Effect, Atomic!UpdatePRReviewers
<1>12. CASE w.op = "BulkUpdatePRReviewers" /\ rows # {}
  <2> DEFINE updates == [p \in PRIds |-> IF p \in rows THEN w.updates[p] ELSE Null]
  <2>1. rows \subseteq PRIds /\ \A p \in rows : w.updates[p] # Null
    BY <1>1, <1>12 DEF MayWrite
  <2>2. pull_requests' =
          [p \in PRIds |->
             IF updates[p] = Null THEN pull_requests[p]
             ELSE [pull_requests[p] EXCEPT !.assigned_reviewers = updates[p]]]
    BY <1>1, <1>12, <2>1 DEF NewVersion
  <2>3. users' = users
    BY <1>2, <1>4, <2>1
  <2>4. Atomic!BulkUpdatePRReviewers(updates)
    BY <2>2, <2>3 DEF Atomic!BulkUpdatePRReviewers
  <2>5. QED
    BY <1>12, <2>4 DEF Atomic!Effect
<1>13. w.op \in {"CreateTeam", "DeactivateUsersByTeam", "SetUserActive", "CreatePR",
                 "UpdatePRStatusWithMergedAt", "UpdatePRReviewers",
                 "BulkUpdatePRReviewers"}
  BY <1>1, WriteArguments
<1>14. QED
  BY <1>5, <1>6, <1>7, <1>8, <1>9, <1>10, <1>11, <1>12, <1>13

\* Targets means the same in both modules.
LEMMA SameTargets ==
    ASSUME NEW w \in WriteCalls PROVE Targets(w) = Atomic!Targets(w)
BY DEF Targets, Members, UsersToDeactivate, GetUsersByTeam, UserExists, GetUserByID,
       PRExists, GetPRByID, Atomic!Targets, Atomic!Members, Atomic!UsersToDeactivate,
       Atomic!GetUsersByTeam, Atomic!UserExists, Atomic!GetUserByID, Atomic!PRExists,
       Atomic!GetPRByID

atomicVars == <<users, pull_requests, write, Outcome, matched>>

\* Some calls end without a trace, the others stay as they are.
LEMMA SomeVanish ==
    ASSUME RowLocksTypeOK, NEW xs \in SUBSET Txns,
           \A x \in xs : phase[x] \in {"queued", "active"} \cup GivenUp
                         /\ phase'[x] = "failed",
           \A x \in Txns \ xs : \/ phase'[x] = phase[x]
                                \/ phase[x] = "active" /\ phase'[x] \in GivenUp,
           UNCHANGED <<tables, write, matched>>
    PROVE  Atomic!Vanish(xs)
<1>1. \A x \in xs : Outcome[x] \in {"asked", "begun"}
  BY DEF Outcome, GivenUp
<1>2. Outcome' = [x \in Txns |-> IF x \in xs THEN "failed" ELSE Outcome[x]]
  BY DEF Outcome, GivenUp
<1>3. QED
  BY <1>1, <1>2 DEF Atomic!Vanish, Atomic!tables, tables

\* Every step of RowLocks is a step of AtomicWrites or none.
LEMMA StepIsAtomic ==
    ASSUME LocksInv, [Next]_vars
    PROVE  Atomic!AtomicNext \/ UNCHANGED atomicVars
<1> USE DEF tables, lockVars
<1>1. RowLocksTypeOK
  BY DEF LocksInv
<1>2. ASSUME NEW x \in Txns, Issue(x) PROVE Atomic!Ask(x)
  <2>1. Outcome' = [Outcome EXCEPT ![x] = "asked"]
    BY <1>1, <1>2, OutcomeMoves DEF Issue, Phases
  <2>2. Outcome[x] = "idle"
    BY <1>2 DEF Issue, Outcome, GivenUp
  <2>3. QED
    BY <1>2, <2>1, <2>2 DEF Issue, Atomic!Ask, Atomic!tables
<1>3. ASSUME NEW x \in Txns, Begin(x) PROVE Atomic!Find(x)
  <2>1. Outcome' = [Outcome EXCEPT ![x] = "begun"]
    BY <1>1, <1>3, OutcomeMoves DEF Begin, Phases
  <2>2. Outcome[x] = "asked"
    BY <1>3 DEF Begin, Outcome, GivenUp
  <2>3. write[x] \in WriteCalls
    BY <1>3 DEF Begin, LocksInv, RowLocksTypeOK, LocksProtect, TransactionOK
  <2>4. matched' = [matched EXCEPT ![x] = Atomic!Targets(write[x])]
    BY <1>3, <2>3, SameTargets DEF Begin
  <2>5. QED
    BY <1>3, <2>1, <2>2, <2>4 DEF Begin, Atomic!Find, Atomic!tables
<1>4. ASSUME NEW x \in Txns, NEW row \in Rows, LockRow(x, row) \/ WaitForRow(x, row)
      PROVE  UNCHANGED atomicVars
  BY <1>4 DEF LockRow, WaitForRow, Outcome, atomicVars
<1>5. ASSUME NEW x \in Txns, Commit(x) PROVE Atomic!TakeEffect(x)
  <2>1. phase[x] \in {"active"} \cup GivenUp /\ phase' = [phase EXCEPT ![x] = "committed"]
        /\ UNCHANGED <<write, matched>>
    BY <1>5 DEF Commit, EndSession, GivenUp
  <2>2. Outcome' = [Outcome EXCEPT ![x] = "committed"]
    BY <1>1, <2>1, OutcomeMoves DEF Phases
  <2>3. Outcome[x] = "begun"
    BY <2>1 DEF Outcome, GivenUp
  <2>4. QED
    BY <1>5, <2>1, <2>2, <2>3, CommitIsEffect DEF Atomic!TakeEffect
<1>6. ASSUME NEW x \in Txns, Victim(x) \/ Cancel(x) PROVE Atomic!Vanish({x})
  <2>1. Running(x) /\ phase' = [phase EXCEPT ![x] = "failed"]
        /\ UNCHANGED <<tables, write, matched>>
    BY <1>6 DEF Victim, Cancel, Running, GivenUp, Rollback, EndSession
  <2>2. /\ \A y \in {x} : phase[y] \in {"queued", "active"} \cup GivenUp
                          /\ phase'[y] = "failed"
        /\ \A y \in Txns \ {x} : phase'[y] = phase[y]
    BY <1>1, <2>1 DEF RowLocksTypeOK, Running, GivenUp
  <2>3. QED
    BY <1>1, <2>1, <2>2, SomeVanish
<1>7. ASSUME NEW x \in Txns, Expire(x) PROVE \E xs \in SUBSET Txns : Atomic!Vanish(xs)
  <2>1. UNCHANGED <<tables, write, matched>>
    BY <1>7 DEF Expire
  <2>2. CASE phase[x] = "queued"
    <3>1. /\ \A y \in {x} : phase[y] \in {"queued", "active"} \cup GivenUp
                            /\ phase'[y] = "failed"
          /\ \A y \in Txns \ {x} : phase'[y] = phase[y]
      BY <1>1, <1>7, <2>2 DEF Expire, RowLocksTypeOK
    <3>2. Atomic!Vanish({x})
      BY <1>1, <2>1, <3>1, SomeVanish
    <3>3. QED
      BY <3>2
  <2>3. CASE phase[x] = "active"
    <3>1. \A y \in Txns \ {} : \/ phase'[y] = phase[y]
                               \/ phase[y] = "active" /\ phase'[y] \in GivenUp
      BY <1>1, <1>7, <2>3 DEF Expire, LeftAs, RowLocksTypeOK
    <3>2. Atomic!Vanish({})
      BY <1>1, <2>1, <3>1, SomeVanish
    <3>3. QED
      BY <3>2
  <2>4. QED
    BY <1>7, <2>2, <2>3 DEF Expire
<1>8. CASE Crash
  <2> DEFINE xs == {x \in Txns : phase[x] = "queued"}
  <2>1. UNCHANGED <<tables, write, matched>>
    BY <1>8 DEF Crash
  <2>2. /\ \A y \in xs : phase[y] \in {"queued", "active"} \cup GivenUp
                         /\ phase'[y] = "failed"
        /\ \A y \in Txns \ xs : \/ phase'[y] = phase[y]
                                \/ phase[y] = "active" /\ phase'[y] \in GivenUp
    BY <1>8 DEF Crash
  <2>3. xs \in SUBSET Txns
    OBVIOUS
  <2> HIDE DEF xs
  <2>4. Atomic!Vanish(xs)
    BY <1>1, <2>1, <2>2, <2>3, SomeVanish
  <2>5. QED
    BY <2>3, <2>4 DEF Atomic!AtomicNext
<1>9. CASE AllEnded \/ UNCHANGED vars
  BY <1>9 DEF AllEnded, vars, Outcome, atomicVars
<1>10. CASE \E x \in Txns : Issue(x) \/ Advance(x) \/ Victim(x) \/ Expire(x) \/ Cancel(x)
  BY <1>2, <1>3, <1>4, <1>5, <1>6, <1>7, <1>10 DEF Advance, Atomic!AtomicNext
<1>11. QED
  BY <1>8, <1>9, <1>10 DEF Next

\* Writes that lock row by row, wait, are aborted, given up or cut short by a
\* crash are, for whoever looks at the tables, writes that take effect as a
\* whole at one instant or not at all.
THEOREM Refinement == Spec => ImplementsAtomicWrites
<1>1. Init => Atomic!AtomicInit
  <2> SUFFICES ASSUME Init PROVE Atomic!AtomicInit
    OBVIOUS
  <2>1. Outcome = [x \in Txns |-> "idle"]
    BY DEF Init, Outcome, GivenUp
  <2>2. QED
    BY <2>1 DEF Init, Atomic!AtomicInit
<1>2. LocksInv /\ [Next]_vars =>
        [Atomic!AtomicNext]_<<Atomic!tables, write, Outcome, matched>>
  BY StepIsAtomic DEF atomicVars, Atomic!tables
<1>3. Spec => []LocksInv
  <2>1. RowLocksTypeOK /\ LocksProtect => LocksInv
    BY DEF LocksInv
  <2>2. QED
    BY <2>1, LockingIsSound, PTL
<1>4. QED
  BY <1>1, <1>2, <1>3, PTL DEF Spec, ImplementsAtomicWrites, Atomic!AtomicSpec
=============================================================================
