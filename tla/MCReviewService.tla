-------------------------- MODULE MCReviewService ---------------------------
(***************************************************************************)
(* Small instances of the review service for TLC: the tables a behaviour   *)
(* starts from and the calls clients may make in it.                       *)
(***************************************************************************)
EXTENDS AssignmentRules, TLC

CONSTANTS u1, u2, u3, u4, u5, ta, tb, p1, p2, r1, r2, r3

\* Requests differ in name only.
Symmetry == Permutations(Requests)

-----------------------------------------------------------------------------
(* Tables.                                                                 *)

Member(t, active) == [team_name |-> t, is_active |-> active]

OpenPR(author, list) ==
    [author_id |-> author, status |-> "OPEN", assigned_reviewers |-> list,
     merged_at |-> 0]

\* Everybody is in team ta and active; u5, if there is such an id, is not taken.
OneTeam == [u \in UserIds |-> IF u = u5 THEN Null ELSE Member(ta, TRUE)]

\* u4 and u5 have moved to team tb.
TwoTeams == [u \in UserIds |-> Member(IF u \in {u4, u5} THEN tb ELSE ta, TRUE)]

\* u1 waits for u2 and u3; p2 is not taken.
OneOpenPR == (p1 :> OpenPR(u1, <<u2, u3>>)) @@ (p2 :> Null)

\* u2 reviews both; u4 and u5 were assigned when they were in team ta.
TwoOpenPRs ==
    (p1 :> OpenPR(u1, <<u2, u4>>)) @@ (p2 :> OpenPR(u3, <<u5, u2>>))

\* p1 was created when nobody else was active.
NoReviewersYet == (p1 :> OpenPR(u1, <<>>)) @@ (p2 :> Null)

-----------------------------------------------------------------------------
(* Calls.                                                                  *)

CallCreatePR(p, u) == [op |-> "CreatePR", pr |-> p, user |-> u]
CallMergePR(p) == [op |-> "MergePR", pr |-> p]
CallReassign(p, u) == [op |-> "ReassignReviewer", pr |-> p, user |-> u]
CallSetActive(u, a) == [op |-> "SetUserActive", user |-> u, is_active |-> a]
CallCreateTeam(t, m) == [op |-> "CreateTeam", team |-> t, members |-> m]
CallDeactivate(t, ids) ==
    [op |-> "DeactivateTeamUsers", team |-> t, user_ids |-> ids]

\* Every operation, on rows the others touch as well.
MixedCalls ==
    {CallCreatePR(p2, u1), CallCreatePR(p2, u2), CallMergePR(p1),
     CallReassign(p1, u2), CallSetActive(u4, FALSE),
     CallCreateTeam(tb, u4 :> TRUE), CallDeactivate(ta, {u2})}

\* Every operation and every way a rule can refuse it: rows that do not exist,
\* a team that does on the second attempt, users that come back in another team.
RuleCalls ==
    {CallCreatePR(p2, u) : u \in {u1, u5}}
      \cup {CallMergePR(p1), CallReassign(p1, u2), CallReassign(p1, u3), CallReassign(p2, u3)}
      \cup {CallSetActive(u4, FALSE), CallSetActive(u5, TRUE)}
      \cup {CallCreateTeam(tb, m) : m \in {u5 :> TRUE, u2 :> FALSE @@ u5 :> TRUE}}
      \cup {CallDeactivate(ta, {u2}), CallDeactivate(tb, {u2})}

\* MAX_REVIEWERS is lowered, raised or mistyped between two starts.
AnyLimit == {-1, 1, 2}

\* Nothing but a deactivation makes a user inactive.
SweepCalls ==
    {CallDeactivate(t, ids) : t \in {ta, tb}, ids \in {{}, {u2}, {u3}, {u4}, {u2, u5}}}
      \cup {CallSetActive(u, TRUE) : u \in {u2, u4}}
      \cup {CallReassign(p, u2) : p \in {p1, p2}}
      \cup {CallMergePR(p2), CallCreateTeam(tb, u3 :> TRUE)}

-----------------------------------------------------------------------------
(* Calls that need one another for a rule to be broken.                    *)

RaceMergeReassign == {CallMergePR(p1), CallReassign(p1, u2)}
OnlyDeactivate == {CallDeactivate(ta, {u2})}
OnlyReassign == {CallReassign(p1, u) : u \in {u2, u3}}
=============================================================================
