-------------------------- MODULE DeploymentProofs --------------------------
(***************************************************************************)
(* What Deployment promises for any connections, jobs and command lines.   *)
(***************************************************************************)
EXTENDS Deployment, TLAPS

-----------------------------------------------------------------------------
(* The process.  A request is as old as its phase allows, it is being      *)
(* served only while the pool is open, and since Shutdown closed the       *)
(* listener it has been waiting for every request it still waits for.      *)

InTime(q) ==
    /\ phase[q] \in {"none", "idle"} => age[q] = 0 /\ head[q] = 0 /\ body[q] = 0
    /\ ReadsHeaders(q) => age[q] <= ReadTimeout /\ head[q] = 0 /\ body[q] = 0
    /\ phase[q] = "body" => age[q] <= ReadTimeout /\ head[q] <= age[q] /\ body[q] = 0
    /\ phase[q] = "handling" => /\ head[q] <= body[q]
                                /\ body[q] <= age[q]
                                /\ age[q] <= body[q] + RequestTimeout
    /\ phase[q] = "unsent" => body[q] > head[q]

Serving(q) ==
    Active(q) \/ Idle(q) =>
       /\ main \in {"started", "notified", "waiting", "draining"}
       /\ main = "draining" => drain <= age[q]

ProcessInv ==
    /\ ProcessTypeOK
    /\ main \in {"started", "notified", "waiting", "draining"} => pool = "open"
    /\ listener = "on" => main \in {"started", "notified", "waiting"}
    /\ main # "draining" => drain = 0
    /\ \A q \in Conns : InTime(q) /\ Serving(q)

\* One change of one connection in which the rest of the process has no part.
LEMMA ConnStep ==
    ASSUME ProcessInv, NEW q \in Conns,
           UNCHANGED <<main, listener, quit, pool, drain>>,
           NEW ph \in Phases,
           NEW a \in 0 .. ReadTimeout + RequestTimeout,
           NEW h \in 0 .. ReadTimeout, NEW b \in 0 .. ReadTimeout,
           phase' = [phase EXCEPT ![q] = ph],
           age' = [age EXCEPT ![q] = a],
           head' = [head EXCEPT ![q] = h],
           body' = [body EXCEPT ![q] = b],
           InTime(q)', Serving(q)'
    PROVE  ProcessInv'
<1>1. ProcessTypeOK'
  BY DEF ProcessInv, ProcessTypeOK
<1>2. ASSUME NEW c \in Conns, c # q
      PROVE  InTime(c)' /\ Serving(c)'
  BY <1>2 DEF ProcessInv, ProcessTypeOK, InTime, Serving, Active, Idle, ReadsHeaders
<1>3. \A c \in Conns : InTime(c)' /\ Serving(c)'
  BY <1>2
<1> QED
  BY <1>1, <1>3 DEF ProcessInv

LEMMA LimitsAre ==
    /\ ReadTimeout = 3 /\ WriteTimeout = 3
    /\ RequestTimeout = 2 /\ ShutdownTimeout = 6
  BY DEF ReadTimeout, WriteTimeout, RequestTimeout, ShutdownTimeout

LEMMA ZeroFits ==
    /\ 0 \in 0 .. ReadTimeout
    /\ 0 \in 0 .. ReadTimeout + RequestTimeout
    /\ 0 \in 0 .. ShutdownTimeout
  BY DEF ReadTimeout, RequestTimeout, ShutdownTimeout

LEMMA ProcessInitial == ProcessInit => ProcessInv
<1> SUFFICES ASSUME ProcessInit PROVE ProcessInv
  OBVIOUS
<1>1. ProcessTypeOK
  BY ZeroFits DEF ProcessInit, ProcessTypeOK, Phases
<1>2. \A q \in Conns : InTime(q) /\ Serving(q)
  BY DEF ProcessInit, InTime, Serving, Active, Idle, ReadsHeaders
<1> QED
  BY <1>1, <1>2 DEF ProcessInit, ProcessInv

\* A connection that does not change keeps its part when main goes on.
LEMMA MainGoesOn ==
    ASSUME ProcessInv, ProcessTypeOK', UNCHANGED connVars,
           main' \in {"started", "notified", "waiting", "draining"} => pool' = "open",
           listener' = "on" => main' \in {"started", "notified", "waiting"},
           main' # "draining" => drain' = 0,
           main' = "draining" => drain' = drain,
           \A q \in Conns : Active(q) \/ Idle(q) =>
              main' \in {"started", "notified", "waiting", "draining"}
    PROVE  ProcessInv'
<1> SUFFICES ASSUME NEW q \in Conns PROVE InTime(q)' /\ Serving(q)'
  BY DEF ProcessInv
<1>1. InTime(q)'
  BY DEF ProcessInv, InTime, ReadsHeaders, connVars
<1>2. CASE main' = "draining" /\ main = "draining"
  BY <1>1, <1>2 DEF ProcessInv, Serving, Active, Idle, ReadsHeaders, connVars
<1>3. CASE main' = "draining" /\ main # "draining"
  BY <1>1, <1>3
  DEF ProcessInv, ProcessTypeOK, Serving, Active, Idle, ReadsHeaders, connVars
<1>4. CASE main' # "draining"
  BY <1>1, <1>4 DEF ProcessInv, Serving, Active, Idle, ReadsHeaders, connVars
<1> QED
  BY <1>2, <1>3, <1>4

LEMMA ExitInv == ASSUME ProcessInv, Exit PROVE ProcessInv'
<1>1. ProcessTypeOK'
  BY ZeroFits DEF Exit, ProcessTypeOK, Phases
<1>2. \A q \in Conns : InTime(q)' /\ Serving(q)'
  BY DEF Exit, InTime, Serving, Active, Idle, ReadsHeaders
<1> QED
  BY <1>1, <1>2 DEF ProcessInv, Exit

\* Shutdown closes connections that have no request, and waits for the others.
LEMMA PollsInv == ASSUME ProcessInv, ShutdownPolls PROVE ProcessInv'
<1>1. ASSUME NEW q \in Conns
      PROVE  /\ phase'[q] \in Phases
             /\ age'[q] \in 0 .. ReadTimeout + RequestTimeout
             /\ InTime(q)' /\ Serving(q)'
  <2>1. CASE Idle(q)
    <3>1. phase'[q] = "none" /\ age'[q] = 0 /\ head'[q] = 0 /\ body'[q] = 0
      BY <2>1 DEF ShutdownPolls, Idle, ReadsHeaders, ProcessInv, InTime
    <3> QED
      BY <3>1, ZeroFits DEF InTime, Serving, Active, Idle, ReadsHeaders, Phases
  <2>2. CASE ~Idle(q)
    <3>1. phase'[q] = phase[q] /\ age'[q] = age[q] /\ head'[q] = head[q] /\ body'[q] = body[q]
      BY <2>2 DEF ShutdownPolls
    <3> QED
      BY <3>1
      DEF ShutdownPolls, ProcessInv, ProcessTypeOK, InTime, Serving, Active, Idle,
                  ReadsHeaders
  <2> QED
    BY <2>1, <2>2
<1>2. ProcessTypeOK'
  <2>1. phase' \in [Conns -> Phases] /\ age' \in [Conns -> 0 .. ReadTimeout + RequestTimeout]
    BY <1>1 DEF ShutdownPolls
  <2> QED
    BY <2>1 DEF ShutdownPolls, ProcessInv, ProcessTypeOK
<1> QED
  BY <1>1, <1>2 DEF ShutdownPolls, ProcessInv

LEMMA MainInv == ASSUME ProcessInv, Main PROVE ProcessInv'
<1>1. ASSUME InitDB PROVE ProcessInv'
  <2>1. CASE Exit
    BY <2>1, ExitInv
  <2>2. CASE ~Exit
    <3>1. ProcessTypeOK'
      BY <1>1, <2>2 DEF InitDB, ProcessInv, ProcessTypeOK, connVars
    <3> QED
      BY <1>1, <2>2, <3>1, MainGoesOn DEF InitDB, ProcessInv, Serving
  <2> QED
    BY <2>1, <2>2
<1>2. ASSUME Listen PROVE ProcessInv'
  <2>1. CASE Exit
    BY <2>1, ExitInv
  <2>2. CASE ~Exit
    <3>1. ProcessTypeOK'
      BY <1>2, <2>2 DEF Listen, ProcessInv, ProcessTypeOK, connVars
    <3> QED
      BY <1>2, <2>2, <3>1, MainGoesOn DEF Listen, ProcessInv, Serving
  <2> QED
    BY <2>1, <2>2
<1>3. ASSUME Notify PROVE ProcessInv'
  <2>1. ProcessTypeOK'
    BY <1>3 DEF Notify, ProcessInv, ProcessTypeOK, connVars
  <2> QED
    BY <1>3, <2>1, MainGoesOn DEF Notify, ProcessInv, Serving
<1>4. ASSUME BeginShutdown PROVE ProcessInv'
  <2>1. ProcessTypeOK'
    BY <1>4 DEF BeginShutdown, ProcessInv, ProcessTypeOK, connVars
  <2> QED
    BY <1>4, <2>1, MainGoesOn DEF BeginShutdown, ProcessInv, Serving
<1>5. ASSUME ShutdownReturns PROVE ProcessInv'
  <2>1. ProcessTypeOK'
    BY <1>5, LimitsAre DEF ShutdownReturns, ProcessInv, ProcessTypeOK, connVars
  <2> QED
    BY <1>5, <2>1, MainGoesOn DEF ShutdownReturns, ProcessInv
<1>6. ASSUME ClosePool PROVE ProcessInv'
  <2>1. ProcessTypeOK'
    BY <1>6 DEF ClosePool, ProcessInv, ProcessTypeOK, connVars
  <2> QED
    BY <1>6, <2>1, MainGoesOn DEF ClosePool, ProcessInv, Serving
<1>7. ASSUME ShutdownPolls PROVE ProcessInv'
  BY <1>7, PollsInv
<1> QED
  BY <1>1, <1>2, <1>3, <1>4, <1>5, <1>6, <1>7, ExitInv DEF Main, ShutdownFails, Return

LEMMA SignalInv == ASSUME ProcessInv, Signal PROVE ProcessInv'
<1>1. CASE Exit
  BY <1>1, ExitInv
<1>2. CASE ~Exit
  <2>1. ProcessTypeOK'
    BY <1>2 DEF Signal, ProcessInv, ProcessTypeOK, connVars
  <2> QED
    BY <1>2, <2>1, MainGoesOn DEF Signal, ProcessInv, Serving
<1> QED
  BY <1>1, <1>2

LEMMA StartInv == ASSUME ProcessInv, Start PROVE ProcessInv'
<1>1. ProcessTypeOK'
  BY DEF Start, ProcessInv, ProcessTypeOK, connVars
<1>2. \A q \in Conns : ~Active(q) /\ ~Idle(q)
  BY DEF Start, Alive, ProcessInv, Serving
<1> QED
  BY <1>1, <1>2, MainGoesOn DEF Start, Alive, ProcessInv

-----------------------------------------------------------------------------
(* The requests and time.                                                  *)

LEMMA SendNextInv ==
    ASSUME ProcessInv, NEW q \in Conns, SendNext(q) PROVE ProcessInv'
<1>1. InTime(q)' /\ Serving(q)'
  BY LimitsAre
  DEF SendNext, Goes, ProcessInv, ProcessTypeOK, InTime, Serving, Active, Idle,
      ReadsHeaders
<1>2. /\ age[q] \in 0 .. ReadTimeout + RequestTimeout
      /\ head[q] \in 0 .. ReadTimeout
      /\ body[q] \in 0 .. ReadTimeout
      /\ age = [age EXCEPT ![q] = age[q]]
      /\ head = [head EXCEPT ![q] = head[q]]
      /\ body = [body EXCEPT ![q] = body[q]]
  BY DEF ProcessInv, ProcessTypeOK
<1> QED
  BY <1>1, <1>2, ConnStep DEF SendNext, Goes, Phases

LEMMA AcceptInv == ASSUME ProcessInv, NEW q \in Conns, Accept(q) PROVE ProcessInv'
<1>1. InTime(q)' /\ Serving(q)'
  BY LimitsAre
  DEF Accept, Goes, ProcessInv, ProcessTypeOK, InTime, Serving, Active, Idle,
      ReadsHeaders
<1>2. /\ age[q] \in 0 .. ReadTimeout + RequestTimeout
      /\ head[q] \in 0 .. ReadTimeout
      /\ body[q] \in 0 .. ReadTimeout
      /\ age = [age EXCEPT ![q] = age[q]]
      /\ head = [head EXCEPT ![q] = head[q]]
      /\ body = [body EXCEPT ![q] = body[q]]
  BY DEF ProcessInv, ProcessTypeOK
<1> QED
  BY <1>1, <1>2, ConnStep DEF Accept, Goes, Phases

LEMMA ReadHeadersInv ==
    ASSUME ProcessInv, NEW q \in Conns, ReadHeaders(q) PROVE ProcessInv'
<1>1. InTime(q)' /\ Serving(q)'
  BY LimitsAre
  DEF ReadHeaders, Goes, ProcessInv, ProcessTypeOK, InTime, Serving, Active, Idle,
      ReadsHeaders
<1>2. /\ age[q] \in 0 .. ReadTimeout + RequestTimeout
      /\ age[q] \in 0 .. ReadTimeout
      /\ body[q] \in 0 .. ReadTimeout
      /\ age = [age EXCEPT ![q] = age[q]]
      /\ body = [body EXCEPT ![q] = body[q]]
  BY LimitsAre DEF ProcessInv, ProcessTypeOK, ReadHeaders, InTime
<1> QED
  BY <1>1, <1>2, ConnStep DEF ReadHeaders, Goes, Phases

LEMMA DecodeInv == ASSUME ProcessInv, NEW q \in Conns, Decode(q) PROVE ProcessInv'
<1>1. InTime(q)' /\ Serving(q)'
  BY LimitsAre
  DEF Decode, Goes, ProcessInv, ProcessTypeOK, InTime, Serving, Active, Idle,
      ReadsHeaders
<1>2. /\ age[q] \in 0 .. ReadTimeout + RequestTimeout
      /\ age[q] \in 0 .. ReadTimeout
      /\ head[q] \in 0 .. ReadTimeout
      /\ age = [age EXCEPT ![q] = age[q]]
      /\ head = [head EXCEPT ![q] = head[q]]
  BY LimitsAre DEF ProcessInv, ProcessTypeOK, Decode, InTime
<1> QED
  BY <1>1, <1>2, ConnStep DEF Decode, Goes, Phases

LEMMA LeavesInv ==
    ASSUME ProcessInv, NEW q \in Conns, NEW to \in {"none", "idle"}, Leaves(q, to),
           to = "idle" => phase[q] = "handling" /\ main # "draining"
    PROVE  ProcessInv'
<1>1. InTime(q)' /\ Serving(q)'
  BY
  DEF Leaves, Goes, ProcessInv, ProcessTypeOK, InTime, Serving, Active, Idle,
      ReadsHeaders
<1> QED
  BY <1>1, ZeroFits, ConnStep DEF Leaves, Goes, Phases

\* What makes PromptBodyAnswered true: an answer that comes too late was asked
\* for late.
LEMMA AnswerInv ==
    ASSUME ProcessInv, NEW q \in Conns, NEW to \in {"none", "idle"}, Answer(q, to),
           \/ phase[q] = "body" /\ age[q] = ReadTimeout
           \/ phase[q] = "handling",
           to = "idle" => phase[q] = "handling" /\ main # "draining"
    PROVE  ProcessInv'
<1>1. CASE Leaves(q, to)
  BY <1>1, LeavesInv
<1>2. CASE ~Leaves(q, to)
  <2> DEFINE b == IF phase[q] = "body" THEN age[q] ELSE body[q]
  <2>1. /\ age[q] >= head[q] + WriteTimeout
        /\ Goes(q, "unsent")
        /\ body' = [body EXCEPT ![q] = b]
        /\ UNCHANGED <<age, head>>
    BY <1>2 DEF Answer
  <2>2. b > head[q]
    BY <2>1, LimitsAre DEF ProcessInv, ProcessTypeOK, InTime
  <2>3. InTime(q)' /\ Serving(q)'
    BY <2>1, <2>2
    DEF Goes, ProcessInv, ProcessTypeOK, InTime, Serving, Active, Idle, ReadsHeaders
  <2>4. /\ age[q] \in 0 .. ReadTimeout + RequestTimeout
        /\ b \in 0 .. ReadTimeout
        /\ head[q] \in 0 .. ReadTimeout
        /\ age = [age EXCEPT ![q] = age[q]]
        /\ head = [head EXCEPT ![q] = head[q]]
    BY LimitsAre DEF ProcessInv, ProcessTypeOK, InTime
  <2> HIDE DEF b
  <2> QED
    BY <2>1, <2>3, <2>4, ConnStep DEF Goes, Phases
<1> QED
  BY <1>1, <1>2

\* Time: who is being waited for gets older as Shutdown waits.
LEMMA TickInv == ASSUME ProcessInv, Tick PROVE ProcessInv'
<1>1. ASSUME NEW q \in Conns
      PROVE  /\ age'[q] = IF ReadsHeaders(q) \/ Active(q) THEN age[q] + 1
                                                         ELSE age[q]
             /\ age'[q] \in 0 .. ReadTimeout + RequestTimeout
             /\ InTime(q)'
  BY LimitsAre
  DEF Tick, NothingDue, ProcessInv, ProcessTypeOK, InTime, Active, Idle, ReadsHeaders
<1>2. drain' \in 0 .. ShutdownTimeout
  BY LimitsAre DEF Tick, NothingDue, ProcessInv, ProcessTypeOK
<1>3. ProcessTypeOK'
  <2>1. age' \in [Conns -> 0 .. ReadTimeout + RequestTimeout]
    BY <1>1 DEF Tick
  <2> QED
    BY <1>2, <2>1 DEF Tick, ProcessInv, ProcessTypeOK
<1>4. ASSUME NEW q \in Conns PROVE Serving(q)'
  <2> SUFFICES ASSUME Active(q)' \/ Idle(q)'
               PROVE  /\ main \in {"started", "notified", "waiting", "draining"}
                      /\ main = "draining" => drain + 1 <= age'[q]
    BY DEF Tick, Serving
  <2>1. /\ Active(q) \/ Idle(q)
        /\ main = "draining" => ~Idle(q)
    BY DEF Tick, NothingDue, Active, Idle
  <2>2. main = "draining" => drain <= age[q] /\ age'[q] = age[q] + 1
    BY <1>1, <2>1 DEF ProcessInv, Serving
  <2> QED
    BY <2>1, <2>2 DEF ProcessInv, ProcessTypeOK, Serving
<1> QED
  BY <1>1, <1>3, <1>4 DEF Tick, ProcessInv

LEMMA ProcessStepInv == ASSUME ProcessInv, ProcessStep PROVE ProcessInv'
<1>1. ASSUME NEW q \in Conns, TimeOut(q) \/ Respond(q) \/ Hangup(q)
      PROVE  ProcessInv'
  BY <1>1, LeavesInv, AnswerInv DEF TimeOut, Respond, Hangup
<1> QED
  BY <1>1, MainInv, AcceptInv, SendNextInv, ReadHeadersInv, DecodeInv, TickInv, ExitInv
  DEF ProcessStep, Die

LEMMA ProcessUnchanged == ASSUME ProcessInv, UNCHANGED processVars PROVE ProcessInv'
  BY
  DEF ProcessInv, ProcessTypeOK, InTime, Serving, Active, Idle, ReadsHeaders,
      processVars, connVars

LEMMA ProcessPromises ==
    ASSUME ProcessInv
    PROVE  PoolOutlivesRequests /\ NeverForced /\ PromptBodyAnswered
<1>1. PoolOutlivesRequests
  BY DEF PoolOutlivesRequests, ProcessInv, Serving, Active, Idle, ReadsHeaders
<1>2. NeverForced
  <2> SUFFICES ASSUME main = "draining", drain = ShutdownTimeout,
                      NEW q \in Conns, Active(q)
               PROVE  FALSE
    BY DEF NeverForced
  <2>1. drain <= age[q]
    BY DEF ProcessInv, Serving
  <2>2. age[q] \in 0 .. ReadTimeout + RequestTimeout
    BY DEF ProcessInv, ProcessTypeOK
  <2> QED
    BY <2>1, <2>2, LimitsAre
<1>3. PromptBodyAnswered
  BY DEF PromptBodyAnswered, ProcessInv, InTime
<1> QED
  BY <1>1, <1>2, <1>3

-----------------------------------------------------------------------------
(* The migrations.  The advisory lock is held from the reading of the      *)
(* version to the end, so that what a job has found or written of schema   *)
(* and version still holds at its next transaction.                        *)

Locked(j) == job[j] \in {"Version", "SetDirty", "Run", "SetClean"}

Migrates(j) == command[j].name \in {"up", "down"}

Forces(j) == command[j].name = "force" /\ command[j].version \in Version

JobInv(j) ==
    /\ Locked(j) => lock = j
    /\ job[j] = "Lock" => Migrates(j) \/ Forces(j)
    /\ job[j] \in {"Version", "SetDirty", "Run"} => Migrates(j)
    /\ job[j] = "Run" => recorded.dirty
    /\ job[j] = "SetClean" =>
          \/ Forces(j)
          \/ /\ Migrates(j)
             /\ recorded.dirty
             /\ schema = SchemaOf(TargetVersion(command[j]))
    /\ Running(j) => exit[j] = "none"

MigrateInv ==
    /\ MigrateTypeOK
    /\ CleanVersionIsTrue
    /\ \A j \in Jobs : JobInv(j)

LEMMA MigrateInitial == MigrateInit => MigrateInv
<1> SUFFICES ASSUME MigrateInit PROVE MigrateInv
  OBVIOUS
<1>1. MigrateTypeOK
  BY DEF MigrateInit, MigrateTypeOK, Command, Version, NilVersion
<1>2. CleanVersionIsTrue
  BY DEF MigrateInit, CleanVersionIsTrue, SchemaOf, NilVersion
<1>3. \A j \in Jobs : JobInv(j)
  BY DEF MigrateInit, JobInv, Locked, Running, JobSteps
<1> QED
  BY <1>1, <1>2, <1>3 DEF MigrateInv

LEMMA TargetIsVersion ==
    ASSUME NEW j \in Jobs, MigrateInv, Migrates(j) \/ Forces(j)
    PROVE  TargetVersion(command[j]) \in Version
  BY DEF Migrates, Forces, TargetVersion, Version, NilVersion

\* A job that is not the one that goes on keeps its part: if it holds the lock,
\* nobody else has written to the schema or its version.
LEMMA OthersKeep ==
    ASSUME MigrateInv, NEW j \in Jobs, NEW k \in Jobs, k # j,
           job'[k] = job[k], command'[k] = command[k], exit'[k] = exit[k],
           Locked(k) => lock' = lock,
           \/ UNCHANGED <<schema, recorded>>
           \/ Locked(j)
    PROVE  JobInv(k)'
<1>1. CASE Locked(k)
  <2>1. ~Locked(j)
    BY <1>1 DEF MigrateInv, JobInv
  <2> QED
    BY <1>1, <2>1
    DEF MigrateInv, JobInv, Locked, Migrates, Forces, Running, TargetVersion
<1>2. CASE ~Locked(k)
  BY <1>2 DEF MigrateInv, JobInv, Locked, Migrates, Forces, Running
<1> QED
  BY <1>1, <1>2

LEMMA JobEndsInv ==
    ASSUME MigrateInv, NEW j \in Jobs, NEW code \in {"0", "1", "killed"},
           JobEnds(j, code),
           \/ UNCHANGED <<schema, recorded>>
           \/ Locked(j),
           schema' \in {"absent", "present"},
           recorded' \in [version : Version, dirty : BOOLEAN, forced : BOOLEAN],
           CleanVersionIsTrue'
    PROVE  MigrateInv'
<1>1. MigrateTypeOK'
  BY DEF JobEnds, MigrateInv, MigrateTypeOK
<1>2. JobInv(j)'
  BY DEF JobEnds, MigrateInv, MigrateTypeOK, JobInv, Locked, Running, JobSteps
<1>3. ASSUME NEW k \in Jobs, k # j PROVE JobInv(k)'
  <2>1. /\ job'[k] = job[k] /\ command'[k] = command[k] /\ exit'[k] = exit[k]
        /\ Locked(k) => lock' = lock
    BY <1>3 DEF JobEnds, MigrateInv, MigrateTypeOK, JobInv
  <2> QED
    BY <1>3, <2>1, OthersKeep
<1> QED
  BY <1>1, <1>2, <1>3 DEF MigrateInv

LEMMA JobStopsInv ==
    ASSUME MigrateInv, NEW j \in Jobs, NEW code \in {"0", "1", "killed"},
           JobEnds(j, code), UNCHANGED <<schema, recorded>>
    PROVE  MigrateInv'
<1>1. CleanVersionIsTrue'
  BY DEF MigrateInv, CleanVersionIsTrue
<1> QED
  BY <1>1, JobEndsInv DEF MigrateInv, MigrateTypeOK

LEMMA JobGotoInv ==
    ASSUME MigrateInv, NEW j \in Jobs, NEW step \in JobSteps,
           Running(j), JobGoto(j, step),
           \/ UNCHANGED <<schema, recorded>>
           \/ Locked(j),
           schema' \in {"absent", "present"},
           recorded' \in [version : Version, dirty : BOOLEAN, forced : BOOLEAN],
           \/ lock' = lock
           \/ lock = NoJob /\ lock' = j,
           CleanVersionIsTrue',
           job'[j] = step /\ command' = command => JobInv(j)'
    PROVE  MigrateInv'
<1>1. MigrateTypeOK'
  BY DEF JobGoto, MigrateInv, MigrateTypeOK
<1>2. JobInv(j)'
  BY DEF JobGoto, MigrateInv, MigrateTypeOK
<1>3. ASSUME NEW k \in Jobs, k # j PROVE JobInv(k)'
  <2>1. /\ job'[k] = job[k] /\ command'[k] = command[k] /\ exit'[k] = exit[k]
        /\ Locked(k) => lock' = lock
    BY <1>3, NoJobAssumption DEF JobGoto, MigrateInv, MigrateTypeOK, JobInv
  <2> QED
    BY <1>3, <2>1, OthersKeep
<1> QED
  BY <1>1, <1>2, <1>3 DEF MigrateInv

LEMMA JobFailsInv == ASSUME MigrateInv, NEW j \in Jobs, JobFails(j) PROVE MigrateInv'
  BY JobStopsInv DEF JobFails

LEMMA StartJobInv ==
    ASSUME MigrateInv, NEW j \in Jobs, NEW c \in Command, StartJob(j, c)
    PROVE  MigrateInv'
<1>1. MigrateTypeOK' /\ CleanVersionIsTrue'
  BY DEF StartJob, MigrateInv, MigrateTypeOK, CleanVersionIsTrue, JobSteps
<1>2. JobInv(j)'
  BY DEF StartJob, MigrateInv, MigrateTypeOK, JobInv, Locked
<1>3. ASSUME NEW k \in Jobs, k # j PROVE JobInv(k)'
  BY <1>3, OthersKeep DEF StartJob, MigrateInv, MigrateTypeOK
<1> QED
  BY <1>1, <1>2, <1>3 DEF MigrateInv

LEMMA Job_NewInv == ASSUME MigrateInv, NEW j \in Jobs, Job_New(j) PROVE MigrateInv'
<1>1. CASE JobFails(j)
  BY <1>1, JobFailsInv
<1>2. CASE command[j].name = "version" /\ JobEnds(j, "0") /\ UNCHANGED <<schema, recorded>>
  BY <1>2, JobStopsInv
<1>3. CASE /\ \/ command[j].name \in {"up", "down"}
              \/ command[j].name = "force" /\ command[j].version # 0
           /\ JobGoto(j, "Lock")
           /\ UNCHANGED <<schema, recorded, lock>>
  <2>1. Migrates(j) \/ Forces(j)
    <3>1. command[j] \in Command
      BY DEF MigrateInv, MigrateTypeOK
    <3> QED
      BY <1>3, <3>1 DEF Command, Version, Migrates, Forces
  <2>2. Running(j) /\ exit[j] = "none"
    BY DEF Job_New, Running, JobSteps, MigrateInv, JobInv
  <2>3. ASSUME job'[j] = "Lock", command' = command PROVE JobInv(j)'
    BY <1>3, <2>1, <2>2, <2>3
    DEF JobInv, Locked, Migrates, Forces, JobGoto
  <2>4. CleanVersionIsTrue'
    BY <1>3 DEF MigrateInv, CleanVersionIsTrue
  <2> QED
    BY <1>3, <2>2, <2>3, <2>4, JobGotoInv DEF MigrateInv, MigrateTypeOK, JobSteps
<1> QED
  BY <1>1, <1>2, <1>3 DEF Job_New

LEMMA Job_LockInv == ASSUME MigrateInv, NEW j \in Jobs, Job_Lock(j) PROVE MigrateInv'
<1>1. CASE JobFails(j)
  BY <1>1, JobFailsInv
<1>2. CASE ~JobFails(j)
  <2> DEFINE next == IF command[j].name = "force" THEN "SetClean" ELSE "Version"
  <2>1. /\ lock = NoJob /\ lock' = j
        /\ JobGoto(j, next)
        /\ UNCHANGED <<schema, recorded>>
    BY <1>2 DEF Job_Lock
  <2>2. Running(j) /\ exit[j] = "none" /\ (Migrates(j) \/ Forces(j))
    BY DEF Job_Lock, Running, JobSteps, MigrateInv, JobInv
  <2>3. ASSUME job'[j] = next, command' = command PROVE JobInv(j)'
    BY <2>1, <2>2, <2>3 DEF JobInv, Locked, Migrates, Forces, JobGoto
  <2>4. CleanVersionIsTrue'
    BY <2>1 DEF MigrateInv, CleanVersionIsTrue
  <2>5. next \in JobSteps
    BY DEF JobSteps
  <2> HIDE DEF next
  <2> QED
    BY <2>1, <2>2, <2>3, <2>4, <2>5, JobGotoInv DEF MigrateInv, MigrateTypeOK
<1> QED
  BY <1>1, <1>2

LEMMA Job_VersionInv ==
    ASSUME MigrateInv, NEW j \in Jobs, Job_Version(j) PROVE MigrateInv'
<1>1. CASE JobFails(j)
  BY <1>1, JobFailsInv
<1>2. CASE JobEnds(j, "0") /\ UNCHANGED <<schema, recorded>>
  BY <1>2, JobStopsInv
<1>3. CASE JobGoto(j, "SetDirty") /\ UNCHANGED <<schema, recorded, lock>>
  <2>1. Running(j) /\ exit[j] = "none" /\ Migrates(j) /\ lock = j
    BY DEF Job_Version, Running, JobSteps, MigrateInv, JobInv, Locked
  <2>2. ASSUME job'[j] = "SetDirty", command' = command PROVE JobInv(j)'
    BY <1>3, <2>1, <2>2 DEF JobInv, Locked, Migrates, JobGoto
  <2>3. CleanVersionIsTrue'
    BY <1>3 DEF MigrateInv, CleanVersionIsTrue
  <2> QED
    BY <1>3, <2>1, <2>2, <2>3, JobGotoInv DEF MigrateInv, MigrateTypeOK, JobSteps
<1> QED
  BY <1>1, <1>2, <1>3 DEF Job_Version

LEMMA Job_SetDirtyInv ==
    ASSUME MigrateInv, NEW j \in Jobs, Job_SetDirty(j) PROVE MigrateInv'
<1>1. CASE JobFails(j)
  BY <1>1, JobFailsInv
<1>2. CASE ~JobFails(j)
  <2>1. /\ Running(j) /\ exit[j] = "none" /\ Migrates(j) /\ lock = j /\ Locked(j)
        /\ TargetVersion(command[j]) \in Version
    BY TargetIsVersion DEF Job_SetDirty, Running, JobSteps, MigrateInv, JobInv, Locked
  <2>2. /\ recorded' = [version |-> TargetVersion(command[j]), dirty |-> TRUE,
                        forced |-> FALSE]
        /\ schema' = schema
    BY <1>2 DEF Job_SetDirty
  <2>3. CleanVersionIsTrue'
    BY <2>2 DEF CleanVersionIsTrue
  <2>4. /\ recorded' \in [version : Version, dirty : BOOLEAN, forced : BOOLEAN]
        /\ schema' \in {"absent", "present"}
    BY <2>1, <2>2 DEF MigrateInv, MigrateTypeOK
  <2>5. CASE JobEnds(j, "1")
    BY <2>1, <2>3, <2>4, <2>5, JobEndsInv
  <2>6. CASE JobGoto(j, "Run") /\ UNCHANGED lock
    <3>1. ASSUME job'[j] = "Run", command' = command PROVE JobInv(j)'
      BY <2>1, <2>2, <2>6, <3>1 DEF JobInv, Locked, Migrates, JobGoto
    <3> QED
      BY <2>1, <2>3, <2>4, <2>6, <3>1, JobGotoInv DEF JobSteps
  <2> QED
    BY <1>2, <2>5, <2>6 DEF Job_SetDirty
<1> QED
  BY <1>1, <1>2

LEMMA Job_RunInv == ASSUME MigrateInv, NEW j \in Jobs, Job_Run(j) PROVE MigrateInv'
<1>1. CASE JobFails(j)
  BY <1>1, JobFailsInv
<1>2. CASE ~JobFails(j)
  <2>1. /\ Running(j) /\ exit[j] = "none" /\ Migrates(j) /\ lock = j /\ Locked(j)
        /\ recorded.dirty
    BY DEF Job_Run, Running, JobSteps, MigrateInv, JobInv, Locked
  <2>2. recorded' = recorded /\ RunFile(command[j].name)
    BY <1>2 DEF Job_Run
  <2>3. schema' = SchemaOf(TargetVersion(command[j]))
    <3>1. CASE command[j].name = "up"
      BY <2>2, <3>1 DEF RunFile, SchemaOf, TargetVersion
    <3>2. CASE command[j].name = "down"
      <4>1. TargetVersion(command[j]) = -1
        BY <3>2 DEF TargetVersion, NilVersion
      <4> QED
        BY <2>2, <3>2, <4>1 DEF RunFile, SchemaOf
    <3> QED
      BY <2>1, <3>1, <3>2 DEF Migrates
  <2>4. CleanVersionIsTrue'
    BY <2>1, <2>2 DEF CleanVersionIsTrue
  <2>5. /\ recorded' \in [version : Version, dirty : BOOLEAN, forced : BOOLEAN]
        /\ schema' \in {"absent", "present"}
    BY <2>2, <2>3 DEF MigrateInv, MigrateTypeOK, SchemaOf
  <2>6. CASE JobEnds(j, "1")
    BY <2>1, <2>4, <2>5, <2>6, JobEndsInv
  <2>7. CASE JobGoto(j, "SetClean") /\ UNCHANGED lock
    <3>1. ASSUME job'[j] = "SetClean", command' = command PROVE JobInv(j)'
      BY <2>1, <2>2, <2>3, <2>7, <3>1
      DEF JobInv, Locked, Migrates, JobGoto, TargetVersion
    <3> QED
      BY <2>1, <2>4, <2>5, <2>7, <3>1, JobGotoInv DEF JobSteps
  <2> QED
    BY <1>2, <2>6, <2>7 DEF Job_Run
<1> QED
  BY <1>1, <1>2

LEMMA Job_SetCleanInv ==
    ASSUME MigrateInv, NEW j \in Jobs, Job_SetClean(j) PROVE MigrateInv'
<1>1. CASE JobFails(j)
  BY <1>1, JobFailsInv
<1>2. CASE ~JobFails(j)
  <2>1. /\ Locked(j)
        /\ \/ Forces(j)
           \/ Migrates(j) /\ schema = SchemaOf(TargetVersion(command[j]))
        /\ TargetVersion(command[j]) \in Version
    BY TargetIsVersion DEF Job_SetClean, MigrateInv, JobInv, Locked
  <2>2. /\ recorded' = [version |-> TargetVersion(command[j]), dirty |-> FALSE,
                        forced |-> command[j].name = "force"]
        /\ schema' = schema
        /\ JobEnds(j, "0") \/ JobEnds(j, "1")
    BY <1>2 DEF Job_SetClean
  <2>3. CleanVersionIsTrue'
    BY <2>1, <2>2 DEF CleanVersionIsTrue, Forces
  <2>4. /\ recorded' \in [version : Version, dirty : BOOLEAN, forced : BOOLEAN]
        /\ schema' \in {"absent", "present"}
    BY <2>1, <2>2 DEF MigrateInv, MigrateTypeOK
  <2> QED
    BY <2>1, <2>2, <2>3, <2>4, JobEndsInv
<1> QED
  BY <1>1, <1>2

LEMMA JobStepInv ==
    ASSUME MigrateInv, NEW j \in Jobs, JobStep(j) \/ KillJob(j) PROVE MigrateInv'
  BY Job_NewInv, Job_LockInv, Job_VersionInv, Job_SetDirtyInv, Job_RunInv,
     Job_SetCleanInv, JobStopsInv
  DEF JobStep, KillJob

LEMMA MigrateUnchanged == ASSUME MigrateInv, UNCHANGED migrateVars PROVE MigrateInv'
  BY
  DEF MigrateInv, MigrateTypeOK, CleanVersionIsTrue, JobInv, Locked, Migrates, Forces,
         Running, TargetVersion, migrateVars

-----------------------------------------------------------------------------
(* Compose and its container.  As long as operators keep out, nothing is   *)
(* forced, and the job of compose has exited with 0 only if it has left    *)
(* version 1 behind.                                                       *)

OperatorsIdle == \A j \in Operators : job[j] = "idle"

ComposeInv ==
    /\ command[Compose] = [name |-> "up", version |-> 0]
    /\ OperatorsIdle =>
          /\ ~recorded.forced
          /\ exit[Compose] = "0" => recorded.version = 1 /\ ~recorded.dirty

DeploymentInv ==
    /\ ProcessInv
    /\ MigrateInv
    /\ ComposeInv
    /\ stopping \in BOOLEAN

LEMMA ComposeInitial == MigrateInit => ComposeInv
  BY ComposeAssumption DEF MigrateInit, ComposeInv

LEMMA ComposeUnchanged == ASSUME ComposeInv, UNCHANGED migrateVars PROVE ComposeInv'
  BY DEF ComposeInv, OperatorsIdle, migrateVars

\* An operator's job that takes a step is not idle, before or after it.
LEMMA OperatorSteps ==
    ASSUME MigrateInv, ComposeInv, NEW j \in Operators,
           job'[j] # "idle",
           command'[Compose] = command[Compose]
    PROVE  ComposeInv'
  BY DEF ComposeInv, OperatorsIdle

LEMMA OthersStayIdle ==
    ASSUME MigrateInv, job' = [job EXCEPT ![Compose] = job'[Compose]], OperatorsIdle'
    PROVE  OperatorsIdle
  BY DEF OperatorsIdle, Operators, MigrateInv, MigrateTypeOK

LEMMA ComposeStep ==
    ASSUME MigrateInv, ComposeInv, JobStep(Compose) \/ KillJob(Compose)
    PROVE  ComposeInv'
<1>1. /\ command' = command
      /\ job' = [job EXCEPT ![Compose] = job'[Compose]]
  BY ComposeAssumption
  DEF JobStep, KillJob, Job_New, Job_Lock, Job_Version, Job_SetDirty, Job_Run,
      Job_SetClean, JobFails, JobGoto, JobEnds, MigrateInv, MigrateTypeOK
<1>2. command[Compose].name = "up" /\ TargetVersion(command[Compose]) = 1
  BY DEF ComposeInv, TargetVersion
<1>3. Running(Compose) /\ exit[Compose] = "none"
  BY ComposeAssumption
  DEF JobStep, KillJob, Job_New, Job_Lock, Job_Version, Job_SetDirty, Job_Run,
      Job_SetClean, Running, JobSteps, MigrateInv, JobInv
<1> SUFFICES ASSUME OperatorsIdle'
             PROVE  /\ ~recorded'.forced
                    /\ exit'[Compose] = "0" => recorded'.version = 1 /\ ~recorded'.dirty
  BY <1>1 DEF ComposeInv
<1>4. ~recorded.forced
  BY <1>1, OthersStayIdle DEF ComposeInv
<1>5. CASE JobFails(Compose) \/ KillJob(Compose)
  BY <1>4, <1>5, ComposeAssumption
  DEF JobFails, KillJob, JobEnds, MigrateInv, MigrateTypeOK
<1>6. CASE Job_New(Compose) /\ ~JobFails(Compose)
  BY <1>2, <1>3, <1>4, <1>6, ComposeAssumption DEF Job_New, JobGoto
<1>7. CASE Job_Lock(Compose) /\ ~JobFails(Compose)
  BY <1>2, <1>3, <1>4, <1>7, ComposeAssumption DEF Job_Lock, JobGoto
<1>8. CASE Job_Version(Compose) /\ ~JobFails(Compose)
  BY <1>2, <1>3, <1>4, <1>8, ComposeAssumption DEF Job_Version, JobGoto
<1>9. CASE Job_SetDirty(Compose) /\ ~JobFails(Compose)
  BY <1>2, <1>3, <1>9, ComposeAssumption
  DEF Job_SetDirty, JobGoto, JobEnds, MigrateInv, MigrateTypeOK
<1>10. CASE Job_Run(Compose) /\ ~JobFails(Compose)
  BY <1>2, <1>3, <1>4, <1>10, ComposeAssumption
  DEF Job_Run, JobGoto, JobEnds, MigrateInv, MigrateTypeOK
<1>11. CASE Job_SetClean(Compose) /\ ~JobFails(Compose)
  <2>1. recorded' = [version |-> 1, dirty |-> FALSE,
                     forced |-> command[Compose].name = "force"]
    BY <1>2, <1>11 DEF Job_SetClean
  <2>2. recorded'.version = 1 /\ ~recorded'.dirty
    BY <2>1
  <2>3. recorded'.forced = (command[Compose].name = "force")
    BY <2>1
  <2>4. ~recorded'.forced
    BY <1>2, <2>3
  <2> QED
    BY <2>2, <2>4
<1> QED
  BY <1>5, <1>6, <1>7, <1>8, <1>9, <1>10, <1>11 DEF JobStep

LEMMA OperatorStep ==
    ASSUME MigrateInv, ComposeInv, NEW j \in Operators, JobStep(j) \/ KillJob(j)
    PROVE  ComposeInv'
<1>1. j \in Jobs /\ j # Compose
  BY DEF Operators
<1>2. command' = command
  BY DEF JobStep, KillJob, Job_New, Job_Lock, Job_Version, Job_SetDirty, Job_Run,
         Job_SetClean, JobFails, JobGoto, JobEnds
<1>3. job'[j] # "idle"
  BY <1>1
  DEF JobStep, KillJob, Job_New, Job_Lock, Job_Version, Job_SetDirty, Job_Run,
      Job_SetClean, JobFails, JobGoto, JobEnds, MigrateInv, MigrateTypeOK
<1> QED
  BY <1>2, <1>3, OperatorSteps

-----------------------------------------------------------------------------
LEMMA DeploymentInitial == Init => DeploymentInv
  BY ProcessInitial, MigrateInitial, ComposeInitial DEF Init, DeploymentInv

LEMMA SignalKeeps == ASSUME DeploymentInv, Signal, UNCHANGED migrateVars, stopping' \in BOOLEAN
                     PROVE  DeploymentInv'
  BY SignalInv, MigrateUnchanged, ComposeUnchanged DEF DeploymentInv

LEMMA StartKeeps == ASSUME DeploymentInv, Start, UNCHANGED migrateVars, stopping' \in BOOLEAN
                    PROVE  DeploymentInv'
  BY StartInv, MigrateUnchanged, ComposeUnchanged DEF DeploymentInv

LEMMA ComposeUpKeeps == ASSUME DeploymentInv, ComposeUp PROVE DeploymentInv'
<1>1. [name |-> "up", version |-> 0] \in Command
  BY DEF Command
<1>2. ProcessInv' /\ MigrateInv'
  BY <1>1, ProcessUnchanged, StartJobInv, ComposeAssumption DEF ComposeUp, DeploymentInv
<1>3. ComposeInv'
  <2>1. /\ job' = [job EXCEPT ![Compose] = job'[Compose]]
        /\ command'[Compose] = [name |-> "up", version |-> 0]
        /\ exit'[Compose] = "none"
        /\ recorded' = recorded
    BY ComposeAssumption
    DEF ComposeUp, StartJob, DeploymentInv, MigrateInv, MigrateTypeOK
  <2>2. OperatorsIdle' => ~recorded.forced
    BY <2>1, OthersStayIdle DEF DeploymentInv, ComposeInv
  <2> QED
    BY <2>1, <2>2 DEF ComposeInv
<1> QED
  BY <1>2, <1>3 DEF ComposeUp, DeploymentInv

LEMMA OperateKeeps ==
    ASSUME DeploymentInv, NEW j \in Operators, Operate(j) PROVE DeploymentInv'
<1>1. j \in Jobs /\ j # Compose
  BY DEF Operators
<1>2. PICK c \in Command : StartJob(j, c)
  BY ComposeAssumption DEF Operate
<1>3. ProcessInv' /\ MigrateInv'
  BY <1>1, <1>2, ProcessUnchanged, StartJobInv DEF Operate, DeploymentInv
<1>4. job'[j] # "idle" /\ command'[Compose] = command[Compose]
  BY <1>1, <1>2 DEF StartJob, DeploymentInv, MigrateInv, MigrateTypeOK
<1>5. ComposeInv'
  BY <1>4, OperatorSteps DEF DeploymentInv
<1> QED
  BY <1>3, <1>5 DEF Operate, DeploymentInv

LEMMA JobKeeps ==
    ASSUME DeploymentInv, NEW j \in Jobs, JobStep(j) \/ KillJob(j),
           UNCHANGED <<processVars, stopping>>
    PROVE  DeploymentInv'
<1>1. ProcessInv' /\ MigrateInv'
  BY ProcessUnchanged, JobStepInv DEF DeploymentInv
<1>2. ComposeInv'
  BY ComposeStep, OperatorStep DEF DeploymentInv, Operators
<1> QED
  BY <1>1, <1>2 DEF DeploymentInv

LEMMA DeploymentStep == DeploymentInv /\ [Next]_vars => DeploymentInv'
<1> SUFFICES ASSUME DeploymentInv, [Next]_vars PROVE DeploymentInv'
  OBVIOUS
<1>1. CASE ComposeUp
  BY <1>1, ComposeUpKeeps
<1>2. CASE ComposeApp
  BY <1>2, StartKeeps DEF ComposeApp
<1>3. CASE Restart
  BY <1>3, StartKeeps DEF Restart, DeploymentInv
<1>4. CASE Stop
  BY <1>4, SignalKeeps DEF Stop
<1>5. CASE Interrupt
  BY <1>5, SignalKeeps DEF Interrupt, DeploymentInv
<1>6. CASE ProcessStep /\ UNCHANGED <<migrateVars, stopping>>
  BY <1>6, ProcessStepInv, MigrateUnchanged, ComposeUnchanged DEF DeploymentInv
<1>7. CASE \E j \in Jobs : /\ JobStep(j) \/ KillJob(j)
                           /\ UNCHANGED <<processVars, stopping>>
  BY <1>7, JobKeeps
<1>8. CASE \E j \in Operators : Operate(j)
  BY <1>8, OperateKeeps
<1>9. CASE UNCHANGED vars
  BY <1>9, ProcessUnchanged, MigrateUnchanged, ComposeUnchanged DEF vars, DeploymentInv
<1> QED
  BY <1>1, <1>2, <1>3, <1>4, <1>5, <1>6, <1>7, <1>8, <1>9 DEF Next

THEOREM DeploymentInvariant == Spec => []DeploymentInv
  BY DeploymentInitial, DeploymentStep, PTL DEF Spec

\* Every variable of the process, of the migrations and of Docker keeps its
\* type, however many connections and jobs there are: the ages of the requests
\* and the wait of Shutdown stay within the limits main.go gives them.
THEOREM TypeCorrect == Spec => []DeploymentTypeOK
<1>1. DeploymentInv => DeploymentTypeOK
  BY DEF DeploymentInv, ProcessInv, MigrateInv, DeploymentTypeOK
<1> QED
  BY <1>1, DeploymentInvariant, PTL

\* No handler finds the pool closed under it (main.go:35 and 78): main closes
\* it only after Shutdown has seen the last request off.
THEOREM PoolIsThere == Spec => []PoolOutlivesRequests
<1>1. DeploymentInv => PoolOutlivesRequests
  BY ProcessPromises DEF DeploymentInv
<1> QED
  BY <1>1, DeploymentInvariant, PTL

\* The 30 s of Shutdown outlast every request that ReadTimeout and the 10 s of
\* the statements allow, for any number of connections.
THEOREM ShutdownIsGraceful == Spec => []NeverForced
<1>1. DeploymentInv => NeverForced
  BY ProcessPromises DEF DeploymentInv
<1> QED
  BY <1>1, DeploymentInvariant, PTL

\* Only a body that comes late can cost a request its answer.
THEOREM PromptIsAnswered == Spec => []PromptBodyAnswered
<1>1. DeploymentInv => PromptBodyAnswered
  BY ProcessPromises DEF DeploymentInv
<1> QED
  BY <1>1, DeploymentInvariant, PTL

\* A clean version no force has written is the schema's, for any number of
\* jobs that run at once, fail or are killed between two transactions.
THEOREM CleanIsTrue == Spec => []CleanVersionIsTrue
<1>1. DeploymentInv => CleanVersionIsTrue
  BY DEF DeploymentInv, MigrateInv
<1> QED
  BY <1>1, DeploymentInvariant, PTL

\* What compose waits for is the schema: it starts the service only where it is
\* there and clean, unless an operator has had a hand in it.
THEOREM StartsOnSchema == Spec => AppStartsOnSchema
<1>1. ASSUME DeploymentInv, ComposeApp, \A j \in Operators : job[j] = "idle"
      PROVE  schema = "present" /\ ~recorded.dirty
  <2>1. recorded.version = 1 /\ ~recorded.dirty /\ ~recorded.forced
    BY <1>1 DEF ComposeApp, DeploymentInv, ComposeInv, OperatorsIdle
  <2> QED
    BY <1>1, <2>1 DEF DeploymentInv, MigrateInv, CleanVersionIsTrue, SchemaOf
<1>2. DeploymentInv => [ComposeApp /\ (\A j \in Operators : job[j] = "idle")
                          => schema = "present" /\ ~recorded.dirty]_vars
  BY <1>1
<1> QED
  BY <1>2, DeploymentInvariant, PTL DEF AppStartsOnSchema

=============================================================================
