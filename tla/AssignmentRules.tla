--------------------------- MODULE AssignmentRules --------------------------
(***************************************************************************)
(* The rules of docs/README_TASK.md and docs/openapi.yml about assigning   *)
(* reviewers and creating teams, as properties of the steps that change    *)
(* the tables.                                                             *)
(*                                                                         *)
(* Every rule is about the rows as they are when the change is made.  The  *)
(* service checks the rules against rows it has read some statements       *)
(* earlier, so it breaks most of them when certain requests overlap.       *)
(* ConflictFreeSpec says which: it is what Spec would be if somebody, a    *)
(* lock or the clients, kept those requests apart.  Nothing in the code    *)
(* does: Conflict translates none of it, it is what the rules assume.      *)
(***************************************************************************)
EXTENDS ReviewService

-----------------------------------------------------------------------------
\* Two calls that may break a rule when they overlap: a mass deactivation and any
\* other; one that takes users out of reach of one that assigns them; two that add
\* the same team; two that rewrite or merge the same pull request.
Conflict(c, d) ==
    \/ c.op = "DeactivateTeamUsers"
    \/ /\ \/ c.op = "CreateTeam"
          \/ c.op = "SetUserActive" /\ ~c.is_active
       /\ d.op \in {"CreatePR", "ReassignReviewer"}
    \/ c.op = "CreateTeam" /\ d.op = "CreateTeam" /\ c.team = d.team
    \/ {c.op, d.op} \subseteq {"MergePR", "ReassignReviewer"} /\ c.pr = d.pr

ConflictFree ==
    \A r, s \in InFlight : r # s => ~Conflict(call[r], call[s])

ConflictFreeSpec == Init /\ [][Next /\ ConflictFree']_vars

-----------------------------------------------------------------------------
(* All the rules at once.                                                  *)

Rules == INSTANCE ReviewRules

\* Whatever the statements of a request read and when, the one that writes takes
\* the tables from a state to the next as the rules demand of one atomic step.
ImplementsReviewRules == Rules!Spec

-----------------------------------------------------------------------------
(* What a step does to the list of a pull request.                         *)

\* The list before the step; a pull request that is being created had none.
OldList(p) == IF PRExists(p) THEN pull_requests[p].assigned_reviewers ELSE <<>>

NewList(p) == pull_requests'[p].assigned_reviewers

\* The pull requests whose reviewers the step assigns or changes.
Rewritten == {p \in PRIds : pull_requests'[p] # Null /\ NewList(p) # OldList(p)}

Added(p) == Members(NewList(p)) \ Members(OldList(p))

Dropped(p) == Members(OldList(p)) \ Members(NewList(p))

\* The step answers request r, which is a call of op, with the answer.
AnswersNow(r, op, answer) ==
    /\ resp[r] = "none"
    /\ resp'[r] = answer
    /\ call[r].op = op

-----------------------------------------------------------------------------
\* After MERGED the list of reviewers may not change (README_TASK.md:9,21).
MergedListFrozen ==
    [][\A p \in Rewritten :
          PRExists(p) => pull_requests[p].status # "MERGED"]_vars

\* Whoever gets onto a list is active (README_TASK.md:28), and is of the author's
\* team when the pull request is new, of the team of a reviewer it replaces when
\* it is not (README_TASK.md:19,20).
ActiveTeammatesAssigned ==
    [][\A p \in Rewritten : \A u \in Added(p) :
          /\ users[u].is_active
          /\ users[u].team_name \in
                IF PRExists(p)
                THEN {users[d].team_name : d \in Dropped(p)}
                ELSE {users[pull_requests'[p].author_id].team_name}]_vars

\* A reassignment answered with success has put one new reviewer in the place
\* of the old one and left the others where they were (README_TASK.md:20).
ReassignReplacesOne ==
    [][\A r \in Requests : AnswersNow(r, "ReassignReviewer", "OK") =>
          LET p == call[r].pr IN
          /\ Len(NewList(p)) = Len(OldList(p))
          /\ \A i \in 1 .. Len(OldList(p)) :
                NewList(p)[i] # OldList(p)[i] <=> OldList(p)[i] = call[r].user]_vars

\* A pull request is stamped with the instant of its merge once, however many
\* clients merge it and retry (README_TASK.md:29, merge is idempotent).
MergeStampsOnce ==
    \A p \in PRIds : PRExists(p) =>
       /\ pull_requests[p].merged_at <= 1
       /\ (pull_requests[p].status = "MERGED") = (pull_requests[p].merged_at = 1)

\* A list that a step makes longer, or that a sweep rewrites, fits the limit the
\* service runs with, also after a restart with a smaller MAX_REVIEWERS
\* (README_TASK.md:17).
ListsFitLimit ==
    [][\A p \in Rewritten :
          \/ Len(NewList(p)) > Len(OldList(p))
          \/ \E r \in Requests : AnswersNow(r, "DeactivateTeamUsers", "OK")
          => Len(NewList(p)) <= maxReviewers]_vars

\* /team/add never adds or moves a user into a team that exists already
\* (openapi.yml:170-179, TEAM_EXISTS).
TeamAddedOnlyWhenAbsent ==
    [][\A u \in UserIds :
          \/ users'[u] = users[u]
          \/ UserExists(u) /\ users'[u].team_name = users[u].team_name
          \/ ~TeamExists(users'[u].team_name)]_vars

-----------------------------------------------------------------------------
(* Mass deactivation (README_TASK.md:39, "safe reassignment of open PRs"). *)

\* When a deactivation is answered with success, the users it names are
\* inactive and review no open pull request any more.
SweepLeavesNoneBehind ==
    [][\A r \in Requests : AnswersNow(r, "DeactivateTeamUsers", "OK") =>
          \A u \in UsersToDeactivate(call[r].team, call[r].user_ids) :
             /\ ~users'[u].is_active
             /\ \A p \in PRIds :
                   pull_requests'[p] # Null /\ pull_requests'[p].status = "OPEN"
                      => u \notin Members(NewList(p))]_vars

\* A sweep shortens a list below the limit only for want of a candidate: no
\* active user of a dropped reviewer's team is left outside the pull request.
\* Since the candidates of a team are cached for the whole sweep, this is about
\* the pull requests after the first as well.
SweepDropsOnlyWithoutCandidate ==
    [][\A p \in Rewritten :
          Len(NewList(p)) < Len(OldList(p)) /\ Len(NewList(p)) < maxReviewers =>
             \E d \in Dropped(p) :
                GetActiveUsersByTeam(users[d].team_name, d)
                   \subseteq {pull_requests[p].author_id}
                               \cup Members(OldList(p)) \cup Members(NewList(p))]_vars

\* A deactivation takes effect as a whole or not at all (README.md:176,178):
\* with no deactivation under way, no open pull request waits for an inactive
\* reviewer.  For behaviours in which nothing else deactivates users.
DeactivationAllOrNothing ==
    (\A r \in InFlight : call[r].op # "DeactivateTeamUsers") =>
       \A p \in PRIds :
          PRExists(p) /\ pull_requests[p].status = "OPEN" =>
             \A u \in Members(pull_requests[p].assigned_reviewers) :
                users[u].is_active

-----------------------------------------------------------------------------
\* A pull request created without reviewers gets them later through reassign
\* (README.md:161): a reassignment on it is not refused for that reason.
EmptyListCanBeFilled ==
    [][\A r \in Requests :
          AnswersNow(r, "ReassignReviewer", "ErrReviewerNotAssigned") =>
             OldList(call[r].pr) # <<>>]_vars
=============================================================================
