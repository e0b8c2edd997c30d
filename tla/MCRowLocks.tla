----------------------------- MODULE MCRowLocks -----------------------------
(***************************************************************************)
(* Small instances of RowLocks for TLC.                                    *)
(***************************************************************************)
EXTENDS RowLocks, TLC

CONSTANTS u1, u2, u3, ta, tb, p1, p2, p3, x1, x2, x3

Symmetry == Permutations(Txns)

\* u3 is not registered, p3 does not exist.
Users3 == [u \in UserIds |-> IF u = u3 THEN Null
                             ELSE [team_name |-> ta, is_active |-> TRUE]]

PRs3 == [p \in PRIds |-> IF p = p3 THEN Null
                         ELSE [author_id |-> u1, status |-> "OPEN",
                               assigned_reviewers |-> <<u2>>, merged_at |-> 0]]

AddTeam(t, order) == [op |-> "CreateTeam", team |-> t, order |-> order,
                      members |-> [u \in Members(order) |-> TRUE]]

\* Teams that share members in opposite orders, or add one to a team that is
\* being deactivated.
UserWrites ==
    {AddTeam(tb, <<u1, u2>>), AddTeam(tb, <<u2, u1>>), AddTeam(ta, <<u3, u1>>),
     [op |-> "DeactivateUsersByTeam", team |-> ta, user_ids |-> {}],
     [op |-> "DeactivateUsersByTeam", team |-> tb, user_ids |-> {u1}],
     [op |-> "SetUserActive", user |-> u1, is_active |-> FALSE]}

\* Sweeps over the same pull requests, and what may hit one of them meanwhile.
PRWrites ==
    {[op |-> "BulkUpdatePRReviewers",
      updates |-> (p1 :> <<>>) @@ (p2 :> <<u1>>) @@ (p3 :> Null)],
     [op |-> "BulkUpdatePRReviewers",
      updates |-> (p1 :> Null) @@ (p2 :> <<>>) @@ (p3 :> Null)],
     [op |-> "CreatePR", pr |-> p3, author |-> u1, list |-> <<>>],
     [op |-> "CreatePR", pr |-> p3, author |-> u2, list |-> <<u1>>],
     [op |-> "UpdatePRStatusWithMergedAt", pr |-> p1],
     [op |-> "UpdatePRReviewers", pr |-> p1, list |-> <<u1>>]}

\* Writes that meet in both tables, in every combination of one row and several.
MeetingWrites ==
    {AddTeam(tb, <<u1, u2>>), AddTeam(tb, <<u2, u1>>),
     [op |-> "DeactivateUsersByTeam", team |-> ta, user_ids |-> {}],
     [op |-> "SetUserActive", user |-> u1, is_active |-> FALSE],
     [op |-> "BulkUpdatePRReviewers",
      updates |-> (p1 :> <<>>) @@ (p2 :> <<u1>>) @@ (p3 :> Null)],
     [op |-> "UpdatePRStatusWithMergedAt", pr |-> p1]}

AnyWrites == UserWrites \cup PRWrites
=============================================================================
