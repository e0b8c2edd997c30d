# Verification of the pull request review service

This directory holds TLA+ specifications of the service in `src/`, TLC
configurations that check them on small instances, and proofs that TLAPS checks.
The service assigns reviewers to pull requests: a Go process behind `net/http`,
three layers (`internal/handler`, `internal/service`, `internal/repository`) and
a PostgreSQL database with two tables.

## The system

| Component | State | Operations | Modules |
|---|---|---|---|
| Repository (`internal/repository`, `migrations`) | tables `users`, `pull_requests` | one method per SQL statement or transaction | `Repository` |
| Request life cycle (`internal/handler`, `pkg/logger`) | one goroutine per request, its deadline of 10 s, its answer | decode, validate, call the service, answer; `Recoverer` turns a panic into a 500 | `Requests` |
| Pull requests (`internal/service`) | locals of the three methods, `maxReviewers` | `CreatePR`, `MergePR`, `ReassignReviewer` | `PullRequestService` |
| Teams and activity (`internal/service`) | none | `CreateTeam`, `SetUserActive` | `TeamService` |
| Mass deactivation (`internal/service`) | found rows, candidate cache, new lists | `DeactivateTeamUsers` | `Deactivation` |
| Transactions and pool (`internal/repository`, PostgreSQL) | row locks, row versions, 25 connections | the writes row by row, commit, rollback, deadlock | `Writes`, `AtomicWrites`, `RowLocks` |
| Reads (`internal/service`, `internal/repository`) | none | `GetTeam`, `GetPRsByReviewer`, `GetStats`, `Ping` | `Reads` |
| Validation and answers (`internal/handler`) | none | trimming, limits, duplicates, errors to statuses | `Handlers` |
| Drawing reviewers (`shuffleUsers`) | none | partial and whole shuffles | `Selection` |
| Process (`cmd/main.go`, `docker-compose.yml`) | listener, signal, pool, requests with their ages | start, signals, time limits, graceful shutdown, restart | `Process`, `Deployment`; a restart under another configuration in `Requests` |
| Migrations command (`cmd/migrate`) | `schema_migrations`, advisory lock | up, down, force, version | `Migrate`, `Deployment` |
| Load generator (`cmd/loadtest`) | stages, counters, remembered pull requests | requests, percentiles, verdict | `LoadTest` |
| Mocks, e2e tests | | | read as documentation only |

How they interact: a handler calls one method of the service; the method calls
the repository one to many times and returns. Nothing is shared between two
requests but the database, and the service takes no lock. Between two statements
of a request any statement of another request may run. No `UPDATE` of the service
states what it expects of the row it writes, and no operation spans its statements
with a transaction. The only transactions are inside `Repository.CreateTeam` and `BulkUpdatePRReviewers`.

What is hard about it:

* a decision is taken on rows that were read some statements before the write
  (status before reassigning, candidates before inserting, `TeamExists` before
  inserting a team, the candidate cache of a sweep);
* the list of reviewers is written as a whole, computed from an older one;
* a statement may fail before or after it took effect: a lost reply, the 10 s
  deadline, a broken connection; clients then retry;
* the process may die between two statements and come back with another
  `MAX_REVIEWERS`, which nothing requires to be positive;
* a mass deactivation is a loop over pull requests and, inside, over reviewers,
  with statements that may fail without failing the request;
* several rows are locked one after another, in the order of a request, of a scan
  or of a Go map, by transactions that may wait for each other, on few connections;
* the numbers of `/stats` come from four statements on four states of the tables;
* five time limits (15 s to read, 15 s to write, 10 s of statements, 30 s of
  shutdown, and Docker's) have to fit together;
* a migration is three transactions, and a job may die between any two.

What makes each part correct:

* pull requests: lists hold distinct, registered users, never the author, no more
  than the limit; `MERGED` is final and the list frozen with it; a reassignment
  exchanges one reviewer, for an active one of the old reviewer's team;
* teams: `/team/add` is refused for a team that exists;
* mass deactivation: it leaves no inactive reviewer on an open pull request, drops
  a reviewer only for want of a candidate, and takes effect as a whole;
* every request: what it was answered stays true, and it is answered;
* the repository: a write takes effect at one instant or not at all, ends, and
  gives its connection back;
* reads: what a client may conclude from an answer put together over time;
* the process: no handler outlives the pool, shutdown ends by itself and in time;
* migrations: what is recorded as clean is so, and the service starts on it;
* algorithms: the draw is fair, the verdict does not flatter, a refusal says why.

`PROJECT.json` lists the hazards with their lines and the properties aimed at them.

## The modules

`Repository` <- `Requests` <- `PullRequestService`, `TeamService`, `Deactivation`
<- `ReviewService` <- `AssignmentRules` <- `MCReviewService`, and `ReviewRules`, which
`AssignmentRules` implements; the proofs are in `ReviewServiceProofs`,
`AnswersProofs` and `AssignmentRulesProofs`, each of which uses the one before.
Around this core:

* `Repository` <- `Writes` <- `AtomicWrites` and `RowLocks`, which implements it;
  `MCRowLocks`, `RowLocksProofs`;
* `ReviewService` <- `Reads` <- `MCReads`: readers beside the writing requests;
  `ReadsProofs`, on top of `AnswersProofs`;
* `Process`, `Migrate` <- `Deployment` <- `MCDeployment`, `DeploymentProofs`;
* `LoadTest`, `Handlers`, `Selection` <- `MCClients`; `ClientsProofs` about
  the first two, `SelectionProofs`.

**Repository.** `users[u]` and `pull_requests[p]` are rows or `Null`. A SELECT is
a state function named after its method, an INSERT or UPDATE an action on the
two tables. `merged_at` counts the times the column was stamped, 0 being NULL.
`username`, `pull_request_name`, `created_at` and `updated_at` are left out: no
rule of the service reads them. `UpdatePRStatus` has no caller and is left out.

**Requests.** `pc[r]` names the repository call that request `r` makes next;
`call[r]` is its validated body, `resp[r]` its answer, and `pr`, `team`,
`reviewers`, `sweep` are the Go locals that are alive between two calls. `Goto`
goes on to the next call, `Finish` returns from the method and answers, `Fails`
is an error of a statement that is none of `internal/errors`, `Panics` is what
`Recoverer` makes of a panic. `Submit` is a request arriving, `Restart` the
process dying under all requests and starting again.

**PullRequestService, TeamService, Deactivation.** One action per repository
call: `CreatePR_CreatePR` is the step in which `CreatePR` calls
`Repository.CreatePR`. The Go code between that call and the next belongs to the
action. Its disjuncts are the outcomes: the statement fails (a statement that
writes fails before or after it took effect), the method returns an error or a
result, or it goes on. In `Deactivation` the two loops are the points `NextPR`
and `NextReviewer`; `sweep[r]` holds `deactivatedIDs`, the rows not yet visited,
the position, `teamCandidatesCache` and `prReviewersUpdates`.

**ReviewService.** The composition: `Init`, `Step(r)`, `Next`, `Spec`, `FairSpec`,
and the properties that hold whatever the interleaving.

**AssignmentRules.** The rules of `docs/README_TASK.md` and `docs/openapi.yml`,
most of them as action properties about the step that changes the tables. They are
about the rows as they are at that step, and most of them fail when certain requests
overlap. `Conflict` says which, and `ConflictFreeSpec` is `Spec` without those
overlaps. It translates no code: nothing in `src/` keeps requests apart, it is what
the rules have to assume of those who send them. Kept apart are a mass deactivation
and anything else; `/team/add` or the deactivation of one user and a request that
assigns reviewers; two `/team/add` of one team; two requests of which each merges or
reassigns the same pull request. Everything else may overlap.

**ReviewRules.** The rules once more, as an abstract service: tables that change in
single steps, each of which obeys the rules for the rows as they are (`Create`,
`Merge`, `Reassign`, `AddTeam`, `ChangeActivity`, and a mass deactivation in the two
steps `Deactivate` and `Leave`). It knows no requests, reads or failures. The service
implements it while it is conflict-free (`ImplementsReviewRules`): tables and
`maxReviewers` are the same, everything else is hidden.

**Writes, AtomicWrites, RowLocks.** `Writes` lists the calls of repository
methods that write. `AtomicWrites` is what every other module assumes of the
database: a call finds its rows, takes effect as a whole or vanishes. `RowLocks`
is how it happens: a call waits for a connection (`Begin`), its statements lock
rows one by one (`LockRow`, `WaitForRow`), in the order of the request for
`CreateTeam` and in any order otherwise, each lock carries the version the
transaction will commit, and it commits or rolls back with all of them.
`Expire` is the deadline of a request: pgx gives the connection up and the session
lives on until the server learns of it (`Cancel`). Left `abandoned`, an
autocommitted statement may still take effect, an explicit transaction cannot, as
its COMMIT will not be sent. Left `indoubt`, an explicit transaction was through
with its rows and its COMMIT had been sent: the server may yet execute it, though
the request has been answered with an error. `Crash` does one or the other to all
of them. `Victim` is PostgreSQL's
deadlock detector. The locks are those of READ COMMITTED: the rows of an UPDATE
are found when it begins and looked at again when they are locked. The foreign
key of `author_id` takes a KEY SHARE lock, which conflicts with no UPDATE here and
is left out. A request holds one connection at a time, which is why waiting for
one is no deadlock; who gets a free connection is left open.

**Reads.** One action per SELECT of `GetTeam`, `GetPRsByReviewer` and `GetStats`
(`Ping` is a `GetStats` whose numbers are dropped), beside the requests of
`ReviewService`. `seen[q]` is what the reader has collected, `before[q]` who had
been answered when it was sent.

**Process.** `main` goes from `init` to `exited`; `phase[q]` is how far connection
`q` and its request have come, `age[q]`, `head[q]`, `body[q]` when. To `net/http` a
kept connection is idle until the headers of its next request have been read, and a
new one is after 5 s without any; `Shutdown` looks every half second
(`ShutdownPolls`), closes the idle ones and waits for the others. (The instant
between the last header byte and the mark of the connection as active, in which a
poll may close it, is inside `net/http` and left out.) Every
limit is a multiple of 5 s and every condition on time a closed one, so ticks of
5 s, which do not pass while something is due, lose no behaviour that a property
tells apart. `Signal` before `signal.Notify` ends the process by default,
afterwards it waits in the channel of length one.

**Migrate.** `job[j]` is the step a run of `cmd/migrate` takes next: connect,
lock, read the version, and the three transactions golang-migrate makes of one
file. Each may fail, before or after its effect, and `KillJob` strikes between
any two. `recorded` is the row of `schema_migrations`, with the memory of whether
`force` wrote it. Of the statements of the up file `CREATE TRIGGER` is the only
one that fails on what exists already; the down file drops `IF EXISTS`.

**Deployment.** `docker-compose.yml`: the migration, the service when it has
succeeded (`ComposeApp`), Docker's restart, which waits for nothing (`Restart`),
`docker stop`, and operators with command lines of their own.

**LoadTest, Handlers, Selection.** The load generator with its stages and its
arithmetic, durations being within 300 ms or not; what the handlers accept and
answer, a string being its trimmed rest (empty, good or too long) and whether it was
padded; the shuffle as a function of the numbers drawn. They share no variable.
`MCClients` runs each while the others wait at their start.

**MCReviewService, MCRowLocks, MCReads, MCDeployment.** Seeds and sets of calls for TLC. Operators named
`X_something` under a comment `Mutant:` are plausible bugs of the definition
they stand next to. No specification uses them; each property is known to fail
when its mutant replaces the original.

### What is abstracted

* In `ReviewService` and `Reads` a statement is atomic at the instant it takes
  effect, and both transactions show their rows together at commit. `RowLocks`
  implements `AtomicWrites`, which is this assumption.
* `GetOpenPRsByReviewers` orders rows by `created_at`; the model visits them in
  any order, which includes that one.
* The shuffle of `selectRandomReviewers` is any list of distinct candidates of the
  right length; `selectRandomCandidate` is any candidate. Their errors are left
  out: with the Go version of `go.mod`, 1.24, `crypto/rand` does not return an
  error but ends the process, which is a `Restart`.
* A deadline that expires is a failing statement. When PostgreSQL gets the
  cancellation late, the statement may take effect after the client was answered;
  the model then counts the request as in flight until it does, so only the
  instant of the answer differs. A client that repeats its call meanwhile is a
  second request that overlaps the first.
* `ErrPRInvalidStatus` is not an answer: no statement writes a status other than
  `OPEN` and `MERGED`.
* Requests without a body or with a body that fails validation never reach the
  service and change nothing, so `Calls` are those that pass; `Handlers` says which
  those are.
* `WriteTimeout` and the client's patience do not appear in `ReviewService`: whether
  an answer arrives is a matter of `Process`.

## The runs

In the runs over `MCReviewService` the bounds are `Requests` (how many calls a
behaviour makes), `MaxInFlight` (how many at once), the calls, and the sets of
ids. `ReviewerCap` is the largest limit and bounds nothing else.

| Run | Bounds | Shows |
|---|---|---|
| `mixed` | 3 requests, all overlapping, 7 calls, 4 users, limits 1 and 2, failures and restarts | types, well-formed lists at rest and in flight, `AnswersHold`, `CreatedOnce`, `MergedIsFinal` under every interleaving |
| `conflict_free` | 3 requests that overlap unless they conflict, 12 calls, 5 users, limits -1, 1 and 2, failures and restarts | the service implements `ReviewRules` and keeps the rules of the task while no conflicting requests overlap, failures, retries and restarts included |
| `sweep` | 3 requests that overlap unless they conflict, 16 calls, 2 teams, 2 open pull requests with reviewers of both, no faults | a sweep replaces as far as candidates go, its cache notwithstanding, and leaves no inactive reviewer |
| `answered` | 2 overlapping requests, failing statements, weak fairness | every request is answered |
| `locks` | 3 writes out of 12, 2 connections, 3 users, 3 pull requests, deadlines and crashes | no connection is lost, and `RowLocks` implements `AtomicWrites` |
| `locks_live` | 3 writes that meet in the same rows, 2 connections, no faults, fairness | every write ends; only a write of several rows is ever aborted |
| `reads` | 1 reader of any kind, 2 writing requests, failures and restarts | `/stats` never names more reviewers than users; nothing reported is taken back; who was answered finds it counted |
| `deployment` | 1 connection that is reused, compose's job and an operator with one command, signals, kills, restarts, fairness | the time limits fit together, clean versions are true, compose starts the service on its schema, `docker stop` ends it |
| `algorithms` | 1010 requests of which 11 are slow and 2 unanswered; every request over short strings and teams of up to `MaxMembers` = 3; 5 candidates, limits 0 to 3 | the verdict, what is accepted and refused, the draw |

Three requests are enough for every race this code has: each is between one
reader-then-writer and one or two writers, and the third request allows a retry
or a second writer. Two pull requests, two teams and four or five users are the
least that lets a sweep use its cache on a second pull request, a list hold
reviewers of two teams, and a team run out of candidates. Requests differ in name
only and every property treats them alike, hence `SYMMETRY`; `answered` is a
liveness run and has none.

Three writes on two connections are the least in which two wait for each other
while a third waits for the pool, or three wait in a circle with one abandoned. One
connection suffices in `deployment`, as connections only meet in `Shutdown`, which
waits until each is done or closed as idle; the proofs hold for any number. 1010 requests are more
than the 1000 of which one may fail, and with 11 slow ones the 99th percentile
fails; the proof of `VerdictIsFair` covers the other lengths. In `algorithms`
a handled request and a draw are the end of a behaviour, so deadlock is not
checked there; it is in every other run.

The next runs show where the code departs from what the repository says of it.
Each checks a single rule on the few calls that break it, and TLC finds it
violated. The rule of the first is one of `conflict_free`.

| Run | Rule | What happens |
|---|---|---|
| `race_merge_reassign` | `MergedListFrozen` | a reassignment that read `OPEN` rewrites the list after the merge |
| `partial_deactivation` | `DeactivationAllOrNothing` | a failure after the first UPDATE: users inactive and still assigned |
| `no_reviewers_yet` | `EmptyListCanBeFilled` | `reassign` cannot fill an empty list, for the old reviewer must be in it |

`partial_deactivation` and `no_reviewers_yet` need no overlap. Other rules of
`conflict_free` are broken by two requests that overlap in the same way as
`race_merge_reassign`, by a decision on rows read earlier, and have no run of
their own: two merges both stamp `merged_at` (`MergeStampsOnce`); a reviewer is
deactivated between the read of the candidates and the INSERT
(`ActiveTeammatesAssigned`); two `/team/add` for one name both answer 201
(`TeamAddedOnlyWhenAbsent`); the later of two reassignments undoes the earlier
(`ReassignReplacesOne`); a pull request created during a sweep keeps a deactivated
reviewer (`SweepLeavesNoneBehind`).

`Conflict` is no broader than needed, as far as pairs of operations go: when any one
of its pairs is allowed to overlap in `conflict_free` or `sweep`, TLC finds a rule
violated. The pairs are those of `DeactivateTeamUsers` with `CreatePR`, `MergePR`,
`ReassignReviewer`, `SetUserActive`, `CreateTeam` and itself; of `CreateTeam` with
`CreatePR`, `ReassignReviewer` and itself; of `SetUserActive` with `CreatePR` and
`ReassignReviewer`; and of `MergePR` and `ReassignReviewer` with themselves and with
each other. Whoever repairs the service with locks or conditions in its UPDATEs has to
cover these pairs and no others.

Three things the models show without contradicting any statement of the
repository. `WriteTimeout` counts from the headers and the statements' 10 s from
the body, so a request whose body is slow may be executed and get no answer
(`PromptBodyAnswered` draws the line). A padded name passes validation, is stored
padded and is not found by the GET handlers, which trim. The load generator's
percentile allows one slow answer less than asked; the bound on all requests in `VerdictIsFair`, 98.901 %,
is what 99 % of answers and 99.9 % of requests leave.

One statement of the repository has no run, though the code departs from it: the
`README.md` (line 146) and `docs/LOADTEST.md` (line 7) ask for 99.9 % successful
requests, and `makeRequest` (`cmd/loadtest/main.go:274`) counts every answer as a
success, a 500 included. `LoadTest` follows the code: a result is an answer of any
status, or none. So `VerdictIsFair` judges the arithmetic, that enough requests were
answered and enough of the answers in time, and says nothing of what they were.

### Fairness

`FairSpec` assumes weak fairness of `Step(r)` for every request: the Go scheduler
runs every goroutine that can run, and a statement ends, at the latest when the
10 s deadline of its context does (`RequestTimeout` in `helpers.go`). No request
waits for a condition another has to bring about, so weak fairness is enough.
Nothing is assumed of `Submit` (clients need not send), `Restart`, or of a
statement succeeding: `EveryRequestAnswered` holds although every statement may
fail. `answered` has no restart; a restart answers every request with a lost
connection and would only help.

`locks_live` assumes weak fairness of each write's own steps (the server executes
statements and the pool hands out what is free) and of the deadlock detector,
which runs `deadlock_timeout` after a wait began. No deadline is assumed. Weak
fairness suffices because no new write can take the place of one that waits: each
of the three is issued once.

`deployment` assumes weak fairness of `main`, of requests whose time is over or
whose handler returns, and of time. Clients need not send, nothing need restart,
and Docker's SIGKILL after its grace period of 10 s is not assumed: it would make
`StopEnds` trivial. (With that default the kill may come before requests of up to
25 s are through; the compose file sets no longer period.)

## The proofs

`ReviewServiceProofs` proves, for any finite set of users, any sets of pull
requests, teams and requests, any calls the handlers let through, any limits
below `ReviewerCap`, any faults and any initial tables that satisfy
`SeedAssumption`:

* `TypeCorrect`: `Spec => []TypeOK`;
* `ReviewersStayWellFormed`: `Spec => []ReviewersWellFormed`;
* `LocalsStayOK`: `Spec => []LocalsOK`;
* `MergeIsFinal`: `Spec => MergedIsFinal`.

The assumptions are the named ASSUMEs of `Repository`, `Requests` and
`ReviewService`: `UserIds` is finite (for the cardinality of a set of candidates),
`Null` is no value, calls are typed, a seed row lists registered users only, and
so on. TLC evaluates them in every run.

`ReviewersWellFormed` is not inductive: a list comes from a local variable that
was computed some statements ago. `IInv` adds `LocalsOK`, what a request carries
at each point: a list about to be written is fit for its author; the row a
reassignment or a sweep has read has the author the row has now and a list that
is fit; and, inside the loop of a sweep, `ListInProgress`: the new list is
shorter than the position in the old one and holds none of the reviewers still
to come, which is why appending the next one repeats nobody.

The argument has three parts.

1. Lemmas about lists: appending a newcomer, cutting to a prefix, exchanging one
   member for a newcomer, and what a random selection yields.
2. Lemmas about statements: each is `Safe`, that is, it keeps the tables typed and
   well-formed and lets them only *grow* (`Grows`: no user or pull request goes
   away, no author changes). What a request carries mentions the tables in ways
   that growing preserves, so every `LocalOK(s)` survives the steps of the others
   (`LocalStays`). This is why the service needs no condition in its UPDATEs for
   these properties, although it needs them for the rules of the last section.
3. One lemma per action, from `FinishKeeps` (answering) and `GotoKeeps` (going on),
   with what the action does to its own request.

`MergeIsFinal` needs the same invariant: every statement that writes a row finds
it existing, and no statement but the INSERT, which requires its absence, writes
`OPEN` or an author.

`AnswersProofs`, under the same assumptions, is about what clients were told:

* `AnswersStayTrue`: `Spec => []AnswersHold`;
* `OneCreatorPerPR`: `Spec => []CreatedOnce`.

Neither is inductive, as a creator owns its row one statement before it answers.
`AnswersInv` speaks of creators from their INSERT on (`Created`) and says which
requests may have an answer at all. It survives the steps of others because no
step deletes a row, changes its author or takes `MERGED` back, and the steps of a
creator because the INSERT requires the absence of the row: a second creator would
have found the first one's.

`AssignmentRulesProofs` proves the rules of the task for `ConflictFreeSpec`: requests
that conflict are kept apart, all others overlap, statements fail, requests panic and
are repeated, and the process restarts under another limit. That conflicts are kept
apart cannot be dropped: the section on the runs tells how each breaks a rule. It is
weaker than to serve one request at a time (`OneAtATimeIsConflictFree`:
`Spec => ConflictFreeSpec` if `MaxInFlight = 1`).

The rules speak of the rows as they are when a list is written, the code of rows it
read before. `FreshInv` closes the gap. It says of every request (`Fresh(r)`) that
what it has read and still relies on is what is stored: the copy of a pull request is
its row, a merge that is about to be written finds `OPEN`, the chosen replacement is
still a candidate, the cached candidates of a team are its active users, and a new list
that a sweep has written down (`UpdateFresh`) or is at (`LoopFresh`) drops, adds and
fits as the rules demand of the list it will replace. `Covered` says that a
deactivated reviewer is left on an open pull request only if the sweep is there, will
come there or has its list written down. `FreshInvariance` is
`ConflictFreeSpec => [](IInv /\ FreshInv)`. Its proof has two parts, one for each
thing a step of `r` can do to `Fresh(s)`:

* `s = r`: one lemma per operation, and per statement of a sweep;
* `s # r` (`OthersFresh`): a step of `r` leaves the locals of `s` alone, and what it
  writes does not matter to `s`, or else `r` and `s` conflict. While `s` assigns users,
  `r` at most makes users active (`UsersFit`); while `s` merges or reassigns, `r` leaves
  its row alone (`RowFits`); while `s` adds a team, `r` puts nobody into it
  (`TeamFits`); beside a sweep there is no `r`.

`ServiceImplementsReviewRules` is `ConflictFreeSpec => ImplementsReviewRules`. Every
statement that writes users is a step `ChangeUsers` of `ReviewRules` (`UsersObey`),
every one that writes pull requests a step `ChangePullRequests` (`PullRequestsObey`
with a lemma for each statement), a restart is `Restart`, and reading, answering and
failing are stutters. `IInv` supplies what is well-formed, `FreshInv` that the guards
hold of the rows of that instant; for `Leave` also `Covered`, as it says that nobody
who is gone stays behind. So a failed request, too, has taken effect as a whole step or
not at all, with the one exception that `ReviewRules` states: a mass deactivation can
stop between its two steps.

The single rules, some of which speak of answers as well, follow from `FreshInv`:

* `MergedListsAreFrozen`, `ActiveTeammatesAreAssigned`, `ReassignsExactlyOne`,
  `RewrittenListsFitTheLimit`, `SweepsLeaveNoneBehind` and
  `TeamsAreAddedOnlyWhenAbsent`, with no other hypothesis;
* `MergesStampOnce`, from tables in which it is so (`SeedsStamped`);
* `SweepsDropOnlyWithoutCandidate`, if no statement fails: the loop over
  reviewers survives a failing SELECT and leaves the reviewer out;
* `DeactivationsAreAllOrNothing`, with `OnlySweepsDeactivate`: no faults, limits
  that are not negative (a negative one makes the sweep panic after its first
  UPDATE), no other call that deactivates users, and seeds in which the rule holds.
  The hypotheses are those of the rule itself; `partial_deactivation` shows what
  one failing statement does. The invariant is `NobodyWaits`: an open pull request
  waits for an inactive user only while the sweep that deactivated it is under way.

The hypotheses of the last two hold in `sweep`, those of the others in
`conflict_free`, where TLC checks the same properties.

`ReadsProofs`, for any readers beside any writing requests, starts from
`ReadsAreHarmless`: `ReadsSpec => Spec`. So `IInv` and `AnswersInv` hold there too,
and it remains to follow what a reader has seen:

* `NothingReadIsTakenBack`: `ReadsSpec => []ReadsStayTrue`. Each number is the
  cardinality of a finite set that no step of a writer shrinks;
* `StatsAlwaysCoverReviewers`: `ReadsSpec => []StatsCoverReviewers`. Lists name
  registered users (`ReviewersWellFormed`), and users are counted after them;
* `StatsAlwaysIncludeAnswered`: `ReadsSpec => []StatsIncludeAnswered`. `AnswersHold`
  at the first statement of the reader, and that answered requests never change;
* `ReadsTypeCorrect`: `ReadsSpec => []ReadsTypeOK`.

`RowLocksProofs`, for any numbers of calls, rows and connections:

* `LocksTypeCorrect`: `Spec => []RowLocksTypeOK`. It is inductive together with
  `LocksProtect`, by the lemmas about the rows a call may write and `LockingIsSound`.
  `LocksProtect`, that a row is locked by the one transaction that has a version of
  it, is what PostgreSQL's locks are for and no property of the service, so no run
  checks it; the refinement below rests on it;
* `PoolStaysBalanced`: `Spec => []PoolBalanced`, by counting the holders, of which
  there are finitely many at any time;
* `SingleRowWritesSucceed`: without faults, `Spec => []OnlyBulkWritesFail`. Who is
  aborted waits for a row and has one that another waits for, so it has found two;
* `Refinement`: `Spec => ImplementsAtomicWrites`. The mapping hides locks, versions
  and waits: `outcome` is the phase, tables and found rows are the same. `Commit` is
  the step that takes effect, and `LocksProtect` makes it the effect on the rows of
  that instant; deadlines, waits and locks are stutters, aborts and crashes vanish.

`DeploymentProofs`, for any connections, jobs and operators' commands:
`TypeCorrect`, `PoolIsThere`, `ShutdownIsGraceful`, `PromptIsAnswered`,
`CleanIsTrue` and `StartsOnSchema`. The inductive invariant has three parts.
`ProcessInv`: a connection has waited no longer than its phase allows, is there only
while the pool is open, and has waited at least as long as `Shutdown`. The last is what `ShutdownIsGraceful` rests on: no request gets older than 25 s. `MigrateInv`:
whoever has read the version holds the lock, and before it writes a clean version
the recorded one is dirty and the schema is what its file left. `ComposeInv`: while
operators keep out, nothing is forced and exit code 0 means version 1, clean.

`ClientsProofs`, for any numbers of requests: `LoadTypeCorrect`,
`NewestAreRemembered` (which needs `InitialPRs <= MaxPRs`, 10 and 1000 in the code)
and `VerdictIsSound`.

And for teams of any length: `OnlySoundTeamsAreServed`, a team reaches
the service exactly when its strings are good and its members' user ids distinct,
and `AnswersTellTheOutcome`. They rest on `FirstErrorIsOne` (the error found first is
one of the errors, and `OK` exactly when all are), which takes the least index from
the well-foundedness of `<`, and on `HandlersInv`: an answer is the one its request
and its outcome call for.

`SelectionProofs`, for any number of candidates and any limit: `SelectionFairness`.
The loop of `shuffleUsers` runs from the last place to the second, so the lemmas go
the same way: `FromTheEnd` takes the last counterexample from the well-foundedness of
`<`, which makes up for an induction theorem and gives the recursive function its
values (`ShuffleRuns`, `ShuffledSteps`). Three of them carry the argument. `Settled`:
a place keeps what its draw gave it, because later draws stay in front of it.
`DrawsAreOrders`: the draws and the orders of the candidates correspond one to one,
which is where `rand.Int(i+1)` and not `rand.Int(i)` is needed. `WaysTimesLists`: what
follows one list of reviewers follows any other once the candidates are renamed
(`Renaming`), so the draws that select a given list, paired with the lists, are all
the draws. That each number is drawn with equal chance is `crypto/rand`'s promise.

Their assumptions are the named ASSUMEs of `Writes`, `RowLocks`, `Reads`, `Migrate`,
`Deployment`, `LoadTest` and `Handlers`, which TLC evaluates in the runs; `Selection`
needs none.

Every invariant of the runs has a theorem. Only model-checked: `EveryRequestAnswered`,
`WritesEnd` and `StopEnds`, as liveness is beyond the prover like ENABLED. What breaks
under overlap, or without any (`EmptyListCanBeFilled`), is shown by counterexamples.
No module declares a RECURSIVE operator.

## Not modelled

Logging, the text of JSON, the parsing of configuration and of flags; how the load
generator paces its requests, chooses among endpoints and prints figures for each;
`UpdatePRStatus`, which nothing calls; the generated mocks and the tests, which are
read as documentation. That the container restarts while an operator has rolled
the schema back is in `Deployment`, what requests then answer is not: every
statement fails, which is the fault `DBError` of `ReviewService`.

## Plan

What is left is for the day the service locks the rows it decides on: `ReviewRules`
implemented under every overlap. The conflicts listed above say which rows those are.
