------------------------------ MODULE MCReads -------------------------------
(***************************************************************************)
(* A small instance of Reads for TLC.                                      *)
(***************************************************************************)
EXTENDS Reads, MCReviewService

CONSTANTS q1

\* u3 is not registered.
TwoUsers == [u \in UserIds |-> IF u = u3 THEN Null ELSE Member(ta, TRUE)]

ReviewedByU2 == (p1 :> OpenPR(u1, <<u2>>)) @@ (p2 :> Null)

\* A team that brings a new user, pull requests that name it, merges.
WritesBesideReads ==
    {CallCreateTeam(tb, (u1 :> TRUE) @@ (u2 :> TRUE) @@ (u3 :> TRUE)),
     CallCreatePR(p2, u1), CallCreatePR(p2, u2), CallMergePR(p1), CallMergePR(p2),
     CallReassign(p1, u2), CallDeactivate(ta, {})}

EveryRead == [op : {"GetTeam"}, team : TeamNames]
               \cup [op : {"GetPRsByReviewer"}, user : {u2, u3}]
               \cup [op : {"GetStats", "Health"}]
=============================================================================
