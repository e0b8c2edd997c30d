------------------------------ MODULE Requests ------------------------------
(***************************************************************************)
(* The life of an HTTP request inside the service process.                 *)
(*                                                                         *)
(* net/http runs each request on a goroutine of its own.  The handler      *)
(* calls one method of internal/service, which calls the repository        *)
(* several times and answers.  Between two of those calls any other        *)
(* request may run, so a request is a program counter that names the       *)
(* repository call it is about to make, plus the local variables that are  *)
(* alive there.  The operations themselves are in PullRequestService,      *)
(* TeamService and Deactivation.                                           *)
(***************************************************************************)
EXTENDS Repository, Integers

CONSTANTS
    Requests,      \* the requests of a behaviour; each is sent at most once
    Calls,         \* what clients may ask for
    MaxInFlight,   \* bound: requests inside the process at the same time
    Limits,        \* values MAX_REVIEWERS may have when the process starts
    ReviewerCap,   \* bound: the largest of them
    Faults         \* the faults that may strike: a subset of FaultKinds

VARIABLES
    maxReviewers,  \* Service.maxReviewers, read from the environment at start
    pc,            \* pc[r]: the repository call r makes next
    call,          \* call[r]: the decoded and validated body of r
    resp,          \* resp[r]: how r was answered
    pr,            \* pr[r]: the row r read into its local variable pr
    team,          \* team[r]: TeamName of the author or old reviewer r read
    reviewers,     \* reviewers[r]: the list r has computed or is computing
    sweep          \* sweep[r]: the further locals of DeactivateTeamUsers

locals == <<pr, team, reviewers, sweep>>

vars == <<tables, maxReviewers, pc, call, resp, locals>>

FaultKinds == {"DBError", "Crash"}

-----------------------------------------------------------------------------
(* Calls.                                                                  *)

CreatePRCall == [op : {"CreatePR"}, pr : PRIds, user : UserIds]
MergePRCall == [op : {"MergePR"}, pr : PRIds]
ReassignCall == [op : {"ReassignReviewer"}, pr : PRIds, user : UserIds]
SetActiveCall == [op : {"SetUserActive"}, user : UserIds, is_active : BOOLEAN]

\* A team that passes validateTeam has a member and no user id twice.
TeamMembers == UNION {[ids -> BOOLEAN] : ids \in (SUBSET UserIds) \ {{}}}
CreateTeamCall == [op : {"CreateTeam"}, team : TeamNames, members : TeamMembers]

\* No user ids means every member of the team.
DeactivateCall == [op : {"DeactivateTeamUsers"}, team : TeamNames,
                   user_ids : SUBSET UserIds]

Call == CreatePRCall \cup MergePRCall \cup ReassignCall \cup SetActiveCall
          \cup CreateTeamCall \cup DeactivateCall

\* Every call is one the handlers let through; the bounds bound.
ASSUME RequestsAssumption ==
    /\ Calls \subseteq Call
    /\ MaxInFlight \in Nat \ {0}
    /\ ReviewerCap \in Nat
    /\ Limits \subseteq Int
    /\ \A limit \in Limits : limit <= ReviewerCap
    /\ Faults \subseteq FaultKinds

-----------------------------------------------------------------------------
(* Program counters and answers.                                           *)

CreatePRPoints == {"CreatePR.PRExists", "CreatePR.GetUserByID",
                   "CreatePR.GetActiveUsersByTeam", "CreatePR.CreatePR",
                   "CreatePR.GetPRByID"}
MergePRPoints == {"MergePR.GetPRByID", "MergePR.UpdatePRStatusWithMergedAt"}
ReassignPoints == {"Reassign.GetPRByID", "Reassign.GetUserByID",
                   "Reassign.GetActiveUsersByTeam", "Reassign.UpdatePRReviewers"}
SetActivePoints == {"SetUserActive.SetUserActive", "SetUserActive.GetUserByID"}
CreateTeamPoints == {"CreateTeam.TeamExists", "CreateTeam.CreateTeam",
                     "CreateTeam.GetTeam"}
DeactivatePoints == {"Deactivate.TeamExists", "Deactivate.DeactivateUsersByTeam",
                     "Deactivate.GetOpenPRsByReviewers", "Deactivate.NextPR",
                     "Deactivate.NextReviewer", "Deactivate.GetActiveUsersByTeam",
                     "Deactivate.BulkUpdatePRReviewers"}

Points == CreatePRPoints \cup MergePRPoints \cup ReassignPoints
            \cup SetActivePoints \cup CreateTeamPoints \cup DeactivatePoints

EntryPoint ==
    [CreatePR |-> "CreatePR.PRExists", MergePR |-> "MergePR.GetPRByID",
     ReassignReviewer |-> "Reassign.GetPRByID",
     SetUserActive |-> "SetUserActive.SetUserActive",
     CreateTeam |-> "CreateTeam.TeamExists",
     DeactivateTeamUsers |-> "Deactivate.TeamExists"]

\* "OK" is a 2xx answer, "Internal" the 500 of any error that is not one of
\* internal/errors, "ConnectionLost" what a client sees of a process that died.
Answers == {"none", "OK", "ErrTeamExists", "ErrTeamNotFound", "ErrUserNotFound",
            "ErrPRExists", "ErrPRNotFound", "ErrPRMerged",
            "ErrReviewerNotAssigned", "ErrNoCandidate", "Internal",
            "ConnectionLost"}

InFlight == {r \in Requests : pc[r] \in Points}

-----------------------------------------------------------------------------
(* The further locals of DeactivateTeamUsers.                              *)

\* deactivated: deactivatedIDs; open: the rows of openPRs the loop has not
\* reached; target, next: the pull request and the reviewer index it is at;
\* cache: teamCandidatesCache; updates: prReviewersUpdates.
Sweep == [deactivated : SUBSET UserIds,
          open : [PRIds -> {Null} \cup PullRequest],
          target : {Null} \cup PRIds, next : Nat,
          cache : [TeamNames -> {Null} \cup SUBSET UserIds],
          updates : [PRIds -> {Null} \cup Seq(UserIds)]]

NoSweep == [deactivated |-> {}, open |-> [p \in PRIds |-> Null],
            target |-> Null, next |-> 0,
            cache |-> [t \in TeamNames |-> Null],
            updates |-> [p \in PRIds |-> Null]]

RequestsTypeOK ==
    /\ TablesTypeOK
    /\ maxReviewers \in Limits
    /\ pc \in [Requests -> {"idle", "done"} \cup Points]
    /\ call \in [Requests -> {Null} \cup Call]
    /\ resp \in [Requests -> Answers]
    /\ pr \in [Requests -> {Null} \cup PullRequest]
    /\ team \in [Requests -> {Null} \cup TeamNames]
    /\ reviewers \in [Requests -> Seq(UserIds)]
    /\ sweep \in [Requests -> Sweep]

-----------------------------------------------------------------------------
(* What every operation does to the state of its request.                  *)

\* The method goes on to its next repository call.
Goto(r, point) ==
    /\ pc' = [pc EXCEPT ![r] = point]
    /\ UNCHANGED <<maxReviewers, call, resp>>

\* The method returns, the handler writes the answer, the goroutine ends.
Finish(r, answer) ==
    /\ pc' = [pc EXCEPT ![r] = "done"]
    /\ resp' = [resp EXCEPT ![r] = answer]
    /\ pr' = [pr EXCEPT ![r] = Null]
    /\ team' = [team EXCEPT ![r] = Null]
    /\ reviewers' = [reviewers EXCEPT ![r] = <<>>]
    /\ sweep' = [sweep EXCEPT ![r] = NoSweep]
    /\ UNCHANGED <<maxReviewers, call>>

\* A statement ends in an error that is none of internal/errors (a broken
\* connection, an aborted transaction, the 10 s context deadline) and the
\* method returns it.  Whether the server executed the statement is up to the
\* action that uses Fails.
Fails(r) == "DBError" \in Faults /\ Finish(r, "Internal")

\* The method panics and logger.Recoverer answers 500.
Panics(r) == Finish(r, "Internal")

-----------------------------------------------------------------------------
(* Requests arriving, and the process dying under them.                    *)

Submit(r) ==
    /\ pc[r] = "idle"
    /\ Cardinality(InFlight) < MaxInFlight
    /\ \E c \in Calls : /\ call' = [call EXCEPT ![r] = c]
                        /\ pc' = [pc EXCEPT ![r] = EntryPoint[c.op]]
    /\ UNCHANGED <<tables, maxReviewers, resp, locals>>

\* The process dies and is started again (restart: unless-stopped), possibly
\* with another MAX_REVIEWERS.  The requests inside it are gone; what they
\* committed stays.
Restart ==
    /\ "Crash" \in Faults
    /\ maxReviewers' \in Limits
    /\ pc' = [r \in Requests |-> IF r \in InFlight THEN "done" ELSE pc[r]]
    /\ resp' = [r \in Requests |->
                  IF r \in InFlight THEN "ConnectionLost" ELSE resp[r]]
    /\ pr' = [r \in Requests |-> Null]
    /\ team' = [r \in Requests |-> Null]
    /\ reviewers' = [r \in Requests |-> <<>>]
    /\ sweep' = [r \in Requests |-> NoSweep]
    /\ UNCHANGED <<tables, call>>
=============================================================================
