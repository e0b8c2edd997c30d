----------------------------- MODULE ReviewRules ------------------------------
(***************************************************************************)
(* What the service promises its clients: every call changes the tables in *)
(* one step, and the step obeys the rules of docs/README_TASK.md for the   *)
(* rows as they are at that step.  Only a mass deactivation takes two: one *)
(* for the users, one for the pull requests.                               *)
(*                                                                         *)
(* There are no requests, reads or failures here.  The service keeps the   *)
(* promise while conflicting requests are kept apart (AssignmentRules).    *)
(***************************************************************************)
EXTENDS Integers, Sequences

CONSTANTS UserIds, TeamNames, PRIds, Null, Limits, ReviewerCap

VARIABLES users, pull_requests, maxReviewers

vars == <<users, pull_requests, maxReviewers>>

-----------------------------------------------------------------------------
Lists == UNION {[1 .. n -> UserIds] : n \in 0 .. ReviewerCap}

Names(list) == {list[i] : i \in 1 .. Len(list)}

NobodyTwice(list) == \A i, j \in 1 .. Len(list) : list[i] = list[j] => i = j

Open(p) == pull_requests[p] # Null /\ pull_requests[p].status = "OPEN"

\* The other active members of the team of u.
Colleagues(u) == {v \in UserIds \ {u} : /\ users[v] # Null
                                        /\ users[v].is_active
                                        /\ users[v].team_name = users[u].team_name}

-----------------------------------------------------------------------------
(* The users.                                                              *)

ChangeActivity(u, active) ==
    /\ users[u] # Null
    /\ users' = [users EXCEPT ![u] = [team_name |-> users[u].team_name,
                                      is_active |-> active]]

\* Only a team that has no member is added; its members may come from others.
AddTeam(t, members) ==
    /\ \A u \in UserIds : users[u] # Null => users[u].team_name # t
    /\ users' = [u \in UserIds |->
                   IF u \in DOMAIN members
                   THEN [team_name |-> t, is_active |-> members[u]]
                   ELSE users[u]]

Deactivate(t, gone) ==
    /\ \A u \in gone : users[u] # Null /\ users[u].team_name = t
    /\ users' = [u \in UserIds |->
                   IF u \in gone THEN [team_name |-> t, is_active |-> FALSE]
                   ELSE users[u]]

-----------------------------------------------------------------------------
(* The pull requests.                                                      *)

Create(p, author) ==
    /\ pull_requests[p] = Null
    /\ users[author] # Null
    /\ \E list \in Lists :
          /\ Names(list) \subseteq Colleagues(author)
          /\ NobodyTwice(list)
          /\ list # <<>> => Len(list) <= maxReviewers
          /\ pull_requests' =
                [pull_requests EXCEPT ![p] =
                    [author_id |-> author, status |-> "OPEN",
                     assigned_reviewers |-> list, merged_at |-> 0]]

Merge(p) ==
    /\ Open(p)
    /\ pull_requests' = [pull_requests EXCEPT ![p].status = "MERGED",
                                              ![p].merged_at = @ + 1]

Reassign(p, old) ==
    LET row == pull_requests[p]
        list == row.assigned_reviewers
    IN  /\ Open(p)
        /\ old \in Names(list)
        /\ \E new \in Colleagues(old) \ (Names(list) \cup {row.author_id}) :
              pull_requests' =
                 [pull_requests EXCEPT ![p].assigned_reviewers =
                    [i \in 1 .. Len(list) |-> IF list[i] = old THEN new ELSE list[i]]]

\* A list that takes the place of the list of row when the users gone leave it:
\* who is new fills in for a colleague that is gone.
TakesOver(list, row, gone) ==
    /\ NobodyTwice(list)
    /\ Len(list) <= Len(row.assigned_reviewers)
    /\ Len(list) <= maxReviewers
    /\ \A u \in Names(list) \ Names(row.assigned_reviewers) :
          /\ u # row.author_id
          /\ \E d \in Names(row.assigned_reviewers) \cap gone : u \in Colleagues(d)

\* The users gone, deactivated before, leave the open pull requests, all of them
\* at once.
Leave(gone) ==
    /\ \A u \in gone : users[u] # Null /\ ~users[u].is_active
    /\ DOMAIN pull_requests' = PRIds
    /\ \A p \in PRIds :
          \/ /\ pull_requests'[p] = pull_requests[p]
             /\ Open(p) => Names(pull_requests[p].assigned_reviewers) \cap gone = {}
          \/ /\ Open(p)
             /\ \E list \in Lists :
                   /\ pull_requests'[p] =
                         [pull_requests[p] EXCEPT !.assigned_reviewers = list]
                   /\ Names(list) \cap gone = {}
                   /\ TakesOver(list, pull_requests[p], gone)

-----------------------------------------------------------------------------
Init == /\ DOMAIN users = UserIds
        /\ DOMAIN pull_requests = PRIds
        /\ maxReviewers \in Limits

\* The service is started again, possibly with another MAX_REVIEWERS.
Restart == UNCHANGED <<users, pull_requests>> /\ maxReviewers' \in Limits

ChangeUsers ==
    /\ \/ \E u \in UserIds, active \in BOOLEAN : ChangeActivity(u, active)
       \/ \E t \in TeamNames, gone \in SUBSET UserIds : Deactivate(t, gone)
       \/ \E t \in TeamNames, ids \in SUBSET UserIds :
             \E members \in [ids -> BOOLEAN] : AddTeam(t, members)
    /\ UNCHANGED <<pull_requests, maxReviewers>>

ChangePullRequests ==
    /\ UNCHANGED <<users, maxReviewers>>
    /\ \/ \E p \in PRIds : Merge(p)
       \/ \E p \in PRIds, u \in UserIds : Create(p, u) \/ Reassign(p, u)
       \/ \E gone \in SUBSET UserIds : Leave(gone)

Next == Restart \/ ChangeUsers \/ ChangePullRequests

Spec == Init /\ [][Next]_vars
=============================================================================
