------------------------------- MODULE Reads --------------------------------
(***************************************************************************)
(* The requests that only read, beside those that write: /team/get,        *)
(* /users/getReview, /stats and /health.                                   *)
(*                                                                         *)
(* GetStats asks four questions in four autocommitted statements, each of  *)
(* which sees the tables as they are when it runs, so its answer is put    *)
(* together from up to four states of the database.  The properties say    *)
(* what a client may conclude from it all the same.                        *)
(***************************************************************************)
EXTENDS ReviewService

CONSTANTS
    Readers,       \* the requests that read; each is sent at most once
    ReadCalls      \* what they may ask for

VARIABLES
    rpc,           \* rpc[q]: the repository call q makes next
    rcall,         \* rcall[q]: the query parameters of q
    rresp,         \* rresp[q]: how q was answered
    seen,          \* seen[q]: what q has read so far, and answers with
    before         \* before[q]: the writing requests answered when q was sent

readVars == <<rpc, rcall, rresp, seen, before>>

ReadCall == [op : {"GetTeam"}, team : TeamNames]
              \cup [op : {"GetPRsByReviewer"}, user : UserIds]
              \cup [op : {"GetStats", "Health"}]

ASSUME ReadsAssumption ==
    /\ ReadCalls \subseteq ReadCall
    /\ Null \notin ReadCall
    /\ IsFiniteSet(PRIds)

ReadPoints == {"GetTeam", "Reviews.GetUserByID", "Reviews.GetPRsByReviewer",
               "Stats.pull_requests", "Stats.assignments", "Stats.users",
               "Stats.teams"}

\* Ping runs the whole of GetStats, and throws the numbers away.
ReadEntryPoint ==
    [GetTeam |-> "GetTeam", GetPRsByReviewer |-> "Reviews.GetUserByID",
     GetStats |-> "Stats.pull_requests", Health |-> "Stats.pull_requests"]

ReadAnswers == {"none", "OK", "ErrTeamNotFound", "ErrUserNotFound", "Internal",
                "Unhealthy", "ConnectionLost"}

Seen == [members : SUBSET UserIds,
         pull_requests : [PRIds -> {Null} \cup PullRequest],
         total_prs : Nat, open_prs : Nat, merged_prs : Nat,
         assignments_by_user : [UserIds -> Nat],
         total_users : Nat, active_users : Nat, total_teams : Nat]

NothingSeen == [members |-> {},
                pull_requests |-> [p \in PRIds |-> Null],
                total_prs |-> 0, open_prs |-> 0, merged_prs |-> 0,
                assignments_by_user |-> [u \in UserIds |-> 0],
                total_users |-> 0, active_users |-> 0, total_teams |-> 0]

-----------------------------------------------------------------------------
(* The SELECT statements.                                                  *)

PRsWithStatus(statuses) ==
    {p \in PRIds : PRExists(p) /\ pull_requests[p].status \in statuses}

\* The places of u in reviewer lists: what unnest and GROUP BY count.
Assignments(u) ==
    UNION {{<<p, i>> : i \in {j \in DOMAIN pull_requests[p].assigned_reviewers :
                                pull_requests[p].assigned_reviewers[j] = u}} :
             p \in {q \in PRIds : PRExists(q)}}

GetPRsByReviewer(u) ==
    [p \in PRIds |->
       IF PRExists(p) /\ u \in Members(pull_requests[p].assigned_reviewers)
       THEN pull_requests[p] ELSE Null]

-----------------------------------------------------------------------------
(* The operations.  A read changes nothing but the request itself.         *)

ReadGoto(q, point) ==
    /\ rpc' = [rpc EXCEPT ![q] = point]
    /\ UNCHANGED <<rcall, rresp, before>>

ReadFinish(q, answer) ==
    /\ rpc' = [rpc EXCEPT ![q] = "done"]
    /\ rresp' = [rresp EXCEPT ![q] = answer]
    /\ UNCHANGED <<rcall, before>>

ReadGetTeam(q) ==
    /\ rpc[q] = "GetTeam"
    /\ seen' = [seen EXCEPT ![q].members = GetTeam(rcall[q].team)]
    /\ ReadFinish(q, IF GetTeam(rcall[q].team) = {} THEN "ErrTeamNotFound" ELSE "OK")

Reviews_GetUserByID(q) ==
    /\ rpc[q] = "Reviews.GetUserByID"
    /\ seen' = seen
    /\ \/ UserExists(rcall[q].user) /\ ReadGoto(q, "Reviews.GetPRsByReviewer")
       \/ ~UserExists(rcall[q].user) /\ ReadFinish(q, "ErrUserNotFound")

Reviews_GetPRsByReviewer(q) ==
    /\ rpc[q] = "Reviews.GetPRsByReviewer"
    /\ seen' = [seen EXCEPT ![q].pull_requests = GetPRsByReviewer(rcall[q].user)]
    /\ ReadFinish(q, "OK")

Stats_PullRequests(q) ==
    /\ rpc[q] = "Stats.pull_requests"
    /\ seen' = [seen EXCEPT
                  ![q].total_prs = Cardinality(PRsWithStatus(PRStatus)),
                  ![q].open_prs = Cardinality(PRsWithStatus({"OPEN"})),
                  ![q].merged_prs = Cardinality(PRsWithStatus({"MERGED"}))]
    /\ ReadGoto(q, "Stats.assignments")

Stats_Assignments(q) ==
    /\ rpc[q] = "Stats.assignments"
    /\ seen' = [seen EXCEPT ![q].assignments_by_user =
                  [u \in UserIds |-> Cardinality(Assignments(u))]]
    /\ ReadGoto(q, "Stats.users")

Stats_Users(q) ==
    /\ rpc[q] = "Stats.users"
    /\ seen' = [seen EXCEPT
                  ![q].total_users = Cardinality(Registered),
                  ![q].active_users = Cardinality({u \in Registered : users[u].is_active})]
    /\ ReadGoto(q, "Stats.teams")

\* Mutant: the assignments are counted last.
Stats_Teams_thenAssignments(q) ==
    /\ rpc[q] = "Stats.teams"
    /\ seen' = [seen EXCEPT
                  ![q].total_teams = Cardinality({users[u].team_name : u \in Registered}),
                  ![q].assignments_by_user =
                     [u \in UserIds |-> Cardinality(Assignments(u))]]
    /\ ReadFinish(q, "OK")

Stats_Teams(q) ==
    /\ rpc[q] = "Stats.teams"
    /\ seen' = [seen EXCEPT ![q].total_teams =
                  Cardinality({users[u].team_name : u \in Registered})]
    /\ ReadFinish(q, "OK")

\* Mutant: what was read before the error is answered with it.
ReadFails_keepsSeen(q) ==
    /\ "DBError" \in Faults
    /\ rpc[q] \in ReadPoints
    /\ seen' = seen
    /\ ReadFinish(q, IF rcall[q].op = "Health" THEN "Unhealthy" ELSE "Internal")

\* A statement fails or runs into the deadline, 5 s for /health, 10 s for the
\* others: 503 there, 500 here, and what was read is not answered.
ReadFails(q) ==
    /\ "DBError" \in Faults
    /\ rpc[q] \in ReadPoints
    /\ seen' = [seen EXCEPT ![q] = NothingSeen]
    /\ ReadFinish(q, IF rcall[q].op = "Health" THEN "Unhealthy" ELSE "Internal")

Read(q) == \/ ReadGetTeam(q)
           \/ Reviews_GetUserByID(q)
           \/ Reviews_GetPRsByReviewer(q)
           \/ Stats_PullRequests(q)
           \/ Stats_Assignments(q)
           \/ Stats_Users(q)
           \/ Stats_Teams(q)
           \/ ReadFails(q)

-----------------------------------------------------------------------------
ReadsInit ==
    /\ Init
    /\ rpc = [q \in Readers |-> "idle"]
    /\ rcall = [q \in Readers |-> Null]
    /\ rresp = [q \in Readers |-> "none"]
    /\ seen = [q \in Readers |-> NothingSeen]
    /\ before = [q \in Readers |-> {}]

Send(q) ==
    /\ rpc[q] = "idle"
    /\ \E c \in ReadCalls : /\ rcall' = [rcall EXCEPT ![q] = c]
                            /\ rpc' = [rpc EXCEPT ![q] = ReadEntryPoint[c.op]]
    /\ before' = [before EXCEPT ![q] = {r \in Requests : pc[r] = "done"}]
    /\ UNCHANGED <<rresp, seen>>

\* The process dies under the readers, too.
RestartReaders ==
    /\ rpc' = [q \in Readers |-> IF rpc[q] \in ReadPoints THEN "done" ELSE rpc[q]]
    /\ rresp' = [q \in Readers |->
                   IF rpc[q] \in ReadPoints THEN "ConnectionLost" ELSE rresp[q]]
    /\ seen' = [q \in Readers |->
                  IF rpc[q] \in ReadPoints THEN NothingSeen ELSE seen[q]]
    /\ UNCHANGED <<rcall, before>>

ReadsQuiescent == /\ \A r \in Requests : pc[r] = "done"
                  /\ \A q \in Readers : rpc[q] = "done"
                  /\ UNCHANGED <<vars, readVars>>

ReadsNext ==
    \/ \E r \in Requests : (Submit(r) \/ Step(r)) /\ UNCHANGED readVars
    \/ Restart /\ RestartReaders
    \/ \E q \in Readers : (Send(q) \/ Read(q)) /\ UNCHANGED vars
    \/ ReadsQuiescent

ReadsSpec == ReadsInit /\ [][ReadsNext]_<<vars, readVars>>

-----------------------------------------------------------------------------
StatsPoints == {"Stats.pull_requests", "Stats.assignments", "Stats.users", "Stats.teams"}

\* Program counters, answers and what was read have their types; a request is
\* at a point of its own operation, and an error carries no numbers.
ReadsTypeOK ==
    /\ rpc \in [Readers -> {"idle", "done"} \cup ReadPoints]
    /\ rcall \in [Readers -> {Null} \cup ReadCall]
    /\ rresp \in [Readers -> ReadAnswers]
    /\ seen \in [Readers -> Seen]
    /\ before \in [Readers -> SUBSET Requests]
    /\ \A q \in Readers :
          /\ rpc[q] # "idle" => rcall[q] # Null
          /\ rpc[q] \in StatsPoints => rcall[q].op \in {"GetStats", "Health"}
          /\ rresp[q] \notin {"none", "OK"} => seen[q] = NothingSeen

\* The reviewers that /stats names.
Counted(q) == {u \in UserIds : seen[q].assignments_by_user[u] > 0}

AnsweredStats == {q \in Readers : rcall[q] # Null /\ rcall[q].op = "GetStats"
                                                  /\ rresp[q] = "OK"}

\* Though no snapshot covers the answer of /stats, it never names more reviewers
\* than it says there are users: a reviewer is registered before a list names
\* it and for good, and the users are counted after the assignments.
StatsCoverReviewers ==
    \A q \in AnsweredStats : Cardinality(Counted(q)) <= seen[q].total_users

\* What a read has reported, or is about to, is not taken back: pull requests,
\* merges and users that were counted are still there, a pull request that was
\* shown as merged is merged, with the author that was shown.
ReadsStayTrue ==
    \A q \in Readers :
       /\ seen[q].total_prs <= Cardinality(PRsWithStatus(PRStatus))
       /\ seen[q].merged_prs <= Cardinality(PRsWithStatus({"MERGED"}))
       /\ seen[q].total_users <= Cardinality(Registered)
       /\ seen[q].members \cup Counted(q) \subseteq Registered
       /\ \A p \in PRIds :
             LET row == seen[q].pull_requests[p]
             IN  row # Null =>
                   /\ PRExists(p)
                   /\ row.author_id = pull_requests[p].author_id
                   /\ row.status = "MERGED" => pull_requests[p].status = "MERGED"

\* The pull requests that the clients had been told they created, or merged,
\* when q was sent.
Told(q, op) == {call[r].pr : r \in before[q] \cap Answered(op, "OK")}

\* The pull requests that were there from the start.
Seeded == {p \in PRIds : SeedPRs[p] # Null}

\* Who was told that a pull request is created or merged, and asks for the
\* numbers afterwards, finds it counted, beside those of the start.
StatsIncludeAnswered ==
    \A q \in AnsweredStats :
       /\ Cardinality(Told(q, "CreatePR") \cup Seeded) <= seen[q].total_prs
       /\ Cardinality(Told(q, "MergePR")) <= seen[q].merged_prs
=============================================================================
