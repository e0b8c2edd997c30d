------------------------------- MODULE Writes -------------------------------
(***************************************************************************)
(* The calls of repository methods that write: their arguments, and the    *)
(* rows each of them is about.                                             *)
(***************************************************************************)
EXTENDS Repository

CONSTANTS
    Txns,          \* calls of repository methods that write
    WriteCalls,    \* what they may write
    SeedUsers,     \* the tables at the start
    SeedPRs

-----------------------------------------------------------------------------
(* The methods that write, with their arguments.                           *)

\* order is the list of members in the request, members their activity flags.
CreateTeamWrite == [op : {"CreateTeam"}, team : TeamNames, order : Seq(UserIds),
                    members : UNION {[ids -> BOOLEAN] : ids \in SUBSET UserIds}]
DeactivateWrite == [op : {"DeactivateUsersByTeam"}, team : TeamNames,
                    user_ids : SUBSET UserIds]
SetUserActiveWrite == [op : {"SetUserActive"}, user : UserIds, is_active : BOOLEAN]
CreatePRWrite == [op : {"CreatePR"}, pr : PRIds, author : UserIds, list : Seq(UserIds)]
MergeWrite == [op : {"UpdatePRStatusWithMergedAt"}, pr : PRIds]
ReviewersWrite == [op : {"UpdatePRReviewers"}, pr : PRIds, list : Seq(UserIds)]
BulkWrite == [op : {"BulkUpdatePRReviewers"},
              updates : [PRIds -> {Null} \cup Seq(UserIds)]]

\* validateTeam has refused a list with a user id twice.
WriteOK(w) ==
    \/ w \in CreateTeamWrite /\ Distinct(w.order) /\ DOMAIN w.members = Members(w.order)
    \/ w \in DeactivateWrite
    \/ w \in SetUserActiveWrite
    \/ w \in CreatePRWrite
    \/ w \in MergeWrite
    \/ w \in ReviewersWrite
    \/ w \in BulkWrite

\* Rows of the two tables are not mistaken for one another.
ASSUME WritesAssumption ==
    /\ \A w \in WriteCalls : WriteOK(w)
    /\ Null \notin WriteCalls
    /\ Null \notin Txns
    /\ UserIds \cap PRIds = {}
    /\ SeedUsers \in [UserIds -> {Null} \cup User]
    /\ SeedPRs \in [PRIds -> {Null} \cup PullRequest]

-----------------------------------------------------------------------------
\* The rows w will write, as its statement finds them now.
Targets(w) ==
    CASE w.op = "CreateTeam" -> Members(w.order)
      [] w.op = "DeactivateUsersByTeam" -> UsersToDeactivate(w.team, w.user_ids)
      [] w.op = "SetUserActive" -> {u \in {w.user} : UserExists(u)}
      [] w.op = "CreatePR" -> {w.pr}
      [] w.op = "BulkUpdatePRReviewers" ->
           {p \in PRIds : w.updates[p] # Null /\ PRExists(p)}
      [] OTHER -> {p \in {w.pr} : PRExists(p)}
=============================================================================
