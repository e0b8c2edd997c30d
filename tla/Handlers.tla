------------------------------ MODULE Handlers ------------------------------
(***************************************************************************)
(* What the handlers do with a request besides calling the service: they   *)
(* validate it, and turn the outcome into a status and an error code.      *)
(*                                                                         *)
(* A string of a request is what is left of it after TrimSpace, and        *)
(* whether there was something to trim: validation looks at the former,    *)
(* the comparison of two strings and the service at both.                  *)
(***************************************************************************)
EXTENDS Naturals, Sequences

CONSTANTS
    NoRequest,
    MaxMembers     \* bound: the members of a team that is added

VARIABLES
    request,       \* the request of a client, as decoded from JSON or the URL
    outcome,       \* what the service made of it; "none" when it was not called
    answer         \* what the client is answered

handlerVars == <<request, outcome, answer>>

\* "long" has more than 255 characters.
Strings == [core : {"", "a", "b", "long"}, padded : BOOLEAN]

validateString(s, required) ==
    CASE s.core = "" -> required
      [] s.core = "long" -> "ErrStringTooLong"
      [] OTHER -> "OK"

validateTeamName(s) == validateString(s, "ErrTeamNameRequired")
validateUserID(s) == validateString(s, "ErrAuthorIDRequired")
validatePRID(s) == validateString(s, "ErrPRIDRequired")
validatePRName(s) == validateString(s, "ErrPRNameRequired")
validateUsername(s) == validateString(s, "ErrUsernameRequired")

\* The first of several errors, "OK" if there is none.
FirstError(errors) ==
    IF \A i \in DOMAIN errors : errors[i] = "OK"
    THEN "OK"
    ELSE errors[CHOOSE i \in DOMAIN errors :
                  errors[i] # "OK" /\ \A k \in 1 .. i - 1 : errors[k] = "OK"]

\* Mutant: the inner loop begins one too late.
DuplicateError_skipsNext(members, i) ==
    IF \E j \in i + 2 .. Len(members) : members[j].user_id = members[i].user_id
    THEN "ErrDuplicateUserInTeam" ELSE "OK"

\* Untrimmed strings are compared, each with the ones that follow.
DuplicateError(members, i) ==
    IF \E j \in i + 1 .. Len(members) : members[j].user_id = members[i].user_id
    THEN "ErrDuplicateUserInTeam" ELSE "OK"

MemberError(members, i) ==
    FirstError(<<validateUserID(members[i].user_id),
                 validateUsername(members[i].username),
                 DuplicateError(members, i)>>)

validateTeam(team) ==
    FirstError(<<validateTeamName(team.team_name),
                 IF team.members = <<>> THEN "ErrTeamMustHaveMembers" ELSE "OK",
                 FirstError([i \in DOMAIN team.members |-> MemberError(team.members, i)])>>)

\* The validation of a request of each kind; team_name and user_id of the GET
\* handlers are trimmed before.
validate(req) ==
    CASE req.op = "CreateTeam" -> validateTeam(req)
      [] req.op = "GetTeam" -> validateTeamName(req.team_name)
      [] req.op \in {"SetUserActive", "GetPRsByReviewer"} -> validateUserID(req.user_id)
      [] req.op = "CreatePR" -> FirstError(<<validatePRID(req.pull_request_id),
                                             validatePRName(req.pull_request_name),
                                             validateUserID(req.author_id)>>)
      [] req.op = "MergePR" -> validatePRID(req.pull_request_id)
      [] req.op = "ReassignReviewer" -> FirstError(<<validatePRID(req.pull_request_id),
                                                     validateUserID(req.old_user_id)>>)
      [] req.op = "DeactivateTeamUsers" ->
           FirstError(<<validateTeamName(req.team_name),
                        FirstError([i \in DOMAIN req.user_ids |->
                                      validateUserID(req.user_ids[i])])>>)

-----------------------------------------------------------------------------
ValidationErrors ==
    {"ErrTeamNameRequired", "ErrTeamMustHaveMembers", "ErrStringTooLong",
     "ErrUsernameRequired", "ErrDuplicateUserInTeam", "ErrPRIDRequired",
     "ErrPRNameRequired", "ErrAuthorIDRequired"}

Respond(status, code) == [status |-> status, code |-> code]

\* Mutant: the last entry of the list is forgotten.
handleServiceError_noCandidate(err) ==
    CASE err \in ValidationErrors -> Respond(400, "VALIDATION_ERROR")
      [] err = "ErrTeamExists" -> Respond(400, "TEAM_EXISTS")
      [] err \in {"ErrTeamNotFound", "ErrUserNotFound", "ErrPRNotFound"} ->
           Respond(404, "NOT_FOUND")
      [] err = "ErrPRExists" -> Respond(409, "PR_EXISTS")
      [] err \in {"ErrPRMerged", "ErrPRInvalidStatus"} -> Respond(409, "PR_MERGED")
      [] err = "ErrReviewerNotAssigned" -> Respond(409, "NOT_ASSIGNED")
      [] OTHER -> Respond(500, "INTERNAL_SERVER_ERROR")

handleServiceError(err) ==
    CASE err \in ValidationErrors -> Respond(400, "VALIDATION_ERROR")
      [] err = "ErrTeamExists" -> Respond(400, "TEAM_EXISTS")
      [] err \in {"ErrTeamNotFound", "ErrUserNotFound", "ErrPRNotFound"} ->
           Respond(404, "NOT_FOUND")
      [] err = "ErrPRExists" -> Respond(409, "PR_EXISTS")
      [] err \in {"ErrPRMerged", "ErrPRInvalidStatus"} -> Respond(409, "PR_MERGED")
      [] err = "ErrReviewerNotAssigned" -> Respond(409, "NOT_ASSIGNED")
      [] err = "ErrNoCandidate" -> Respond(409, "NO_CANDIDATE")
      [] OTHER -> Respond(500, "INTERNAL_SERVER_ERROR")

-----------------------------------------------------------------------------
\* What the service may answer to a valid request; "Internal" is any error that
\* is none of internal/errors.
Outcomes ==
    [CreateTeam |-> {"OK", "ErrTeamExists", "ErrTeamNotFound", "Internal"},
     GetTeam |-> {"OK", "ErrTeamNotFound", "Internal"},
     SetUserActive |-> {"OK", "ErrUserNotFound", "Internal"},
     GetPRsByReviewer |-> {"OK", "ErrUserNotFound", "Internal"},
     DeactivateTeamUsers |-> {"OK", "ErrTeamNotFound", "Internal"},
     CreatePR |-> {"OK", "ErrPRExists", "ErrUserNotFound", "ErrPRNotFound", "Internal"},
     MergePR |-> {"OK", "ErrPRNotFound", "Internal"},
     ReassignReviewer |-> {"OK", "ErrPRNotFound", "ErrPRMerged", "ErrUserNotFound",
                           "ErrReviewerNotAssigned", "ErrNoCandidate", "Internal"}]

-----------------------------------------------------------------------------
(* Requests of each kind: every combination of blank, good, padded and     *)
(* too long strings, teams of up to MaxMembers members.                    *)

NameRequests ==
    [op : {"GetTeam"}, team_name : Strings]
      \cup [op : {"SetUserActive", "GetPRsByReviewer"}, user_id : Strings]
      \cup [op : {"CreatePR"}, pull_request_id : Strings, pull_request_name : Strings,
            author_id : Strings]
      \cup [op : {"MergePR"}, pull_request_id : Strings]
      \cup [op : {"ReassignReviewer"}, pull_request_id : Strings, old_user_id : Strings]
      \cup [op : {"DeactivateTeamUsers"}, team_name : Strings,
            user_ids : {<<>>} \cup Strings \X Strings]

TeamRequests ==
    LET Member == [user_id : Strings,
                   username : {[core |-> c, padded |-> TRUE] : c \in {"", "a", "long"}}]
    IN  [op : {"CreateTeam"}, team_name : Strings,
         members : UNION {[1 .. n -> Member] : n \in 0 .. MaxMembers}]

ASSUME HandlersAssumption ==
    /\ NoRequest \notin NameRequests \cup TeamRequests
    /\ MaxMembers \in Nat

-----------------------------------------------------------------------------
\* sendJSON after the service has returned without an error.
SuccessOf(op) == Respond(IF op \in {"CreateTeam", "CreatePR"} THEN 201 ELSE 200, "none")

NoAnswer == Respond(0, "none")

HandlersInit ==
    /\ request = NoRequest
    /\ outcome = "none"
    /\ answer = NoAnswer

Receive ==
    /\ request = NoRequest
    /\ request' \in NameRequests \cup TeamRequests
    /\ UNCHANGED <<outcome, answer>>

\* The body is not of the expected form, or does not pass validation.
Refuse ==
    /\ request # NoRequest /\ answer = NoAnswer
    /\ \/ /\ request.op \notin {"GetTeam", "GetPRsByReviewer"}
          /\ answer' = Respond(400, "VALIDATION_ERROR")
          /\ outcome' = "undecodable"
       \/ /\ validate(request) # "OK"
          /\ answer' = handleServiceError(validate(request))
          /\ outcome' = validate(request)
    /\ UNCHANGED request

Serve ==
    /\ request # NoRequest /\ answer = NoAnswer
    /\ validate(request) = "OK"
    /\ outcome' \in Outcomes[request.op]
    /\ answer' = IF outcome' = "OK" THEN SuccessOf(request.op)
                                    ELSE handleServiceError(outcome')
    /\ UNCHANGED request

HandlersNext == Receive \/ Refuse \/ Serve

HandlersSpec == HandlersInit /\ [][HandlersNext]_handlerVars

-----------------------------------------------------------------------------
\* A team reaches the service exactly when every string is good and its members
\* are a function of their user ids, as written: what is inserted row by row never
\* meets the same row twice.
AcceptedTeamsAreSound ==
    answer # NoAnswer /\ request.op = "CreateTeam" /\ outcome # "undecodable" =>
       LET members == request.members
           good(s) == s.core \notin {"", "long"}
       IN  outcome \in Outcomes["CreateTeam"] <=>
             /\ good(request.team_name)
             /\ members # <<>>
             /\ \A i, j \in DOMAIN members :
                   /\ good(members[i].user_id) /\ good(members[i].username)
                   /\ members[i].user_id = members[j].user_id => i = j

\* Whatever is refused is refused with a 4xx status and only a failure with 500;
\* and but for what does not exist, status and code tell a client which of the
\* rules of the service has refused its request.
RefusalsAreTold ==
    answer # NoAnswer =>
       /\ answer.status = 500 <=> outcome = "Internal"
       /\ answer.status \in {200, 201} <=> outcome = "OK"
       /\ \A other \in Outcomes[request.op] \ {"OK"} :
             handleServiceError(other) = answer =>
                other = outcome \/ answer.code = "NOT_FOUND"
=============================================================================
