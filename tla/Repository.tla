----------------------------- MODULE Repository -----------------------------
(***************************************************************************)
(* The PostgreSQL tables of the review service and the statements that     *)
(* internal/repository issues against them.                                *)
(*                                                                         *)
(* A read is a state function of the tables.  A statement that writes is   *)
(* an action on the tables alone; it is atomic, because every method of    *)
(* the repository issues either one autocommitted statement or one         *)
(* transaction whose rows become visible together at its commit.           *)
(* Columns that no rule of the service reads (username,                    *)
(* pull_request_name, created_at, updated_at) are left out.                *)
(***************************************************************************)
EXTENDS Naturals, Sequences, FiniteSets

CONSTANTS
    UserIds,      \* values of users.user_id
    TeamNames,    \* values of users.team_name
    PRIds,        \* values of pull_requests.pull_request_id
    Null          \* "no such row", SQL's NULL, Go's nil

VARIABLES
    users,           \* users[u]: the row of u, Null when there is none
    pull_requests    \* pull_requests[p]: the row of p, Null when there is none

tables == <<users, pull_requests>>

PRStatus == {"OPEN", "MERGED"}

User == [team_name : TeamNames, is_active : BOOLEAN]

\* merged_at is 0 while the column is NULL; NOW() moves it to a later instant.
PullRequest == [author_id : UserIds, status : PRStatus,
                assigned_reviewers : Seq(UserIds), merged_at : Nat]

\* Row identifiers are finite sets and Null is not mistaken for a value.
ASSUME RepositoryAssumption ==
    /\ IsFiniteSet(UserIds)
    /\ Null \notin User
    /\ Null \notin PullRequest
    /\ Null \notin TeamNames
    /\ Null \notin UserIds
    /\ \A ids \in SUBSET UserIds : ids # Null
    /\ Null \notin Seq(UserIds)
    /\ Null \notin PRIds

TablesTypeOK ==
    /\ users \in [UserIds -> {Null} \cup User]
    /\ pull_requests \in [PRIds -> {Null} \cup PullRequest]

-----------------------------------------------------------------------------
(* Reviewer lists.                                                         *)

\* The user ids that occur in a list of reviewers.
Members(list) == {list[i] : i \in 1 .. Len(list)}

Distinct(list) == \A i, j \in 1 .. Len(list) : i # j => list[i] # list[j]

-----------------------------------------------------------------------------
(* SELECT statements.                                                      *)

\* Null stands for ErrUserNotFound and ErrPRNotFound.
GetUserByID(u) == users[u]

GetPRByID(p) == pull_requests[p]

UserExists(u) == GetUserByID(u) # Null

PRExists(p) == GetPRByID(p) # Null

GetUsersByTeam(t) == {u \in UserIds : UserExists(u) /\ users[u].team_name = t}

\* Mutant: the query does not ask for is_active.
GetActiveUsersByTeam_inactiveToo(t, excluded) ==
    {u \in GetUsersByTeam(t) : u # excluded}

\* Mutant: the query does not ask for the team.
GetActiveUsersByTeam_anyTeam(t, excluded) ==
    {u \in UserIds : UserExists(u) /\ users[u].is_active /\ u # excluded}

\* The query orders by user_id; its callers pick at random, so a set is enough.
GetActiveUsersByTeam(t, excluded) ==
    {u \in GetUsersByTeam(t) : users[u].is_active /\ u # excluded}

\* No rows are ErrTeamNotFound.
GetTeam(t) == GetUsersByTeam(t)

TeamExists(t) == GetUsersByTeam(t) # {}

\* Mutant: @> for &&, the list has to contain every one of the ids.
GetOpenPRsByReviewers_containsAll(ids) ==
    {p \in PRIds : /\ PRExists(p)
                   /\ pull_requests[p].status = "OPEN"
                   /\ ids \subseteq Members(pull_requests[p].assigned_reviewers)}

GetOpenPRsByReviewers(ids) ==
    {p \in PRIds : /\ PRExists(p)
                   /\ pull_requests[p].status = "OPEN"
                   /\ Members(pull_requests[p].assigned_reviewers) \cap ids # {}}

-----------------------------------------------------------------------------
(* INSERT and UPDATE statements.                                           *)

SetUserActive(u, active) ==
    /\ users' = [users EXCEPT ![u].is_active = active]
    /\ UNCHANGED pull_requests

\* The rows the UPDATE matches, which RETURNING reports: there is no condition
\* on is_active, so members that are inactive already are among them.
UsersToDeactivate(t, ids) ==
    {u \in GetUsersByTeam(t) : ids = {} \/ u \in ids}

DeactivateUsersByTeam(t, ids) ==
    /\ users' = [u \in UserIds |->
                   IF u \in UsersToDeactivate(t, ids)
                   THEN [users[u] EXCEPT !.is_active = FALSE]
                   ELSE users[u]]
    /\ UNCHANGED pull_requests

\* Every member is inserted or, when the user exists already, moved to the team
\* with a new activity flag: members maps the ids of the new team to is_active.
CreateTeamTx(t, members) ==
    /\ users' = [u \in UserIds |->
                   IF u \in DOMAIN members
                   THEN [team_name |-> t, is_active |-> members[u]]
                   ELSE users[u]]
    /\ UNCHANGED pull_requests

\* ON CONFLICT DO NOTHING: the callers split on PRExists(p).
InsertPR(p, author, list) ==
    /\ ~PRExists(p)
    /\ pull_requests' =
         [pull_requests EXCEPT ![p] = [author_id |-> author, status |-> "OPEN",
                                       assigned_reviewers |-> list,
                                       merged_at |-> 0]]
    /\ UNCHANGED users

UpdatePRStatusWithMergedAt(p) ==
    /\ pull_requests' = [pull_requests EXCEPT ![p].status = "MERGED",
                                              ![p].merged_at = @ + 1]
    /\ UNCHANGED users

\* Mutant: the row that was read is saved, its status with it.
UpdatePRReviewers_savesStatus(p, list) ==
    /\ pull_requests' = [pull_requests EXCEPT ![p].assigned_reviewers = list,
                                              ![p].status = "OPEN"]
    /\ UNCHANGED users

UpdatePRReviewers(p, list) ==
    /\ pull_requests' = [pull_requests EXCEPT ![p].assigned_reviewers = list]
    /\ UNCHANGED users

\* updates[p] is the new list of p, Null for a pull request left alone.
BulkUpdatePRReviewers(updates) ==
    /\ pull_requests' =
         [p \in PRIds |->
            IF updates[p] = Null THEN pull_requests[p]
            ELSE [pull_requests[p] EXCEPT !.assigned_reviewers = updates[p]]]
    /\ UNCHANGED users
=============================================================================
