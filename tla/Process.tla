------------------------------ MODULE Process -------------------------------
(***************************************************************************)
(* The life of the service process: cmd/main.go from its start to the      *)
(* graceful shutdown, and the time limits of its HTTP server and of its    *)
(* requests.                                                               *)
(*                                                                         *)
(* Time passes in ticks of 5 s, of which all limits are multiples.  A tick *)
(* waits for what is due: a limit that is reached is acted upon.           *)
(***************************************************************************)
EXTENDS Naturals

CONSTANT Conns     \* connections, each of which carries a request at a time:
                   \* they are new, read a request, are idle, read the next

VARIABLES
    main,          \* where main is
    listener,      \* the listener of ListenAndServe
    quit,          \* a signal is in the channel
    pool,          \* the connection pool of main
    drain,         \* ticks since Shutdown was called
    phase,         \* phase[q]: how far the connection and its request have come
    age,           \* age[q]: ticks since the server waits for its headers
    head,          \* head[q]: age[q] when they were there
    body           \* body[q]: age[q] when its body was there, or given up

connVars == <<phase, age, head, body>>
processVars == <<main, listener, quit, pool, drain, connVars>>

ReadTimeout == 3       \* 15 s for headers and body
WriteTimeout == 3      \* 15 s from the headers to the end of the answer

\* Mutant: the deadline of a request is the WriteTimeout.
RequestTimeout_15s == 3

RequestTimeout == 2    \* 10 s for the statements of a request

\* Mutant: Shutdown is given the 15 s of the other limits.
ShutdownTimeout_15s == 3

ShutdownTimeout == 6   \* 30 s for the requests that are under way

Alive == main \notin {"off", "exited"}

Phases == {"none", "new", "idle", "next", "body", "handling", "unsent"}

ReadsHeaders(q) == phase[q] \in {"new", "next"}

\* For net/http a connection is idle until it has read the headers of the next
\* request, and so is a new one that has not sent its first within 5 s.
Idle(q) == phase[q] \in {"idle", "next"} \/ (phase[q] = "new" /\ age[q] > 0)

Active(q) == phase[q] \in {"new", "body", "handling"} /\ ~Idle(q)

-----------------------------------------------------------------------------
ProcessInit ==
    /\ main = "off"
    /\ listener = "off"
    /\ quit = FALSE
    /\ pool = "none"
    /\ drain = 0
    /\ phase = [q \in Conns |-> "none"]
    /\ age = [q \in Conns |-> 0]
    /\ head = [q \in Conns |-> 0]
    /\ body = [q \in Conns |-> 0]

Start ==
    /\ ~Alive
    /\ main' = "init"
    /\ listener' = "off"
    /\ UNCHANGED <<quit, pool, drain, connVars>>

\* The process is gone, and its requests and database connections with it.
Exit ==
    /\ main' = "exited"
    /\ listener' = "closed"
    /\ pool' = "none"
    /\ quit' = FALSE
    /\ drain' = 0
    /\ phase' = [q \in Conns |-> "none"]
    /\ age' = [q \in Conns |-> 0]
    /\ head' = [q \in Conns |-> 0]
    /\ body' = [q \in Conns |-> 0]

\* config.Load and InitDB, which pings the database and asks nothing of it.
InitDB ==
    /\ main = "init"
    /\ \/ /\ main' = "started"
          /\ pool' = "open"
          /\ UNCHANGED <<listener, quit, drain, connVars>>
       \/ Exit

\* The goroutine main has started gets to ListenAndServe.  After Shutdown it
\* finds the server closed.
Listen ==
    /\ main \in {"started", "notified", "waiting"}
    /\ listener = "off"
    /\ \/ /\ listener' = "on"
          /\ UNCHANGED <<main, quit, pool, drain, connVars>>
       \/ Exit

\* signal.Notify, and main goes on to <-quit.
Notify ==
    /\ main \in {"started", "notified"}
    /\ main' = IF main = "started" THEN "notified" ELSE "waiting"
    /\ UNCHANGED <<listener, quit, pool, drain, connVars>>

\* Mutant: the channel has no buffer, and the signal comes before main waits.
Signal_unbuffered ==
    \/ main \in {"init", "started"} /\ Exit
    \/ /\ main \in {"notified", "waiting", "draining", "closing"}
       /\ quit' = (main = "waiting" \/ quit)
       /\ UNCHANGED <<main, listener, pool, drain, connVars>>

\* SIGTERM or SIGINT: it ends the process until Notify has been called; from
\* then on the channel takes it, from which main reads once.
Signal ==
    \/ main \in {"init", "started"} /\ Exit
    \/ /\ main \in {"notified", "waiting", "draining", "closing"}
       /\ quit' = (main \in {"notified", "waiting"} \/ quit)
       /\ UNCHANGED <<main, listener, pool, drain, connVars>>

\* <-quit, and Shutdown closes the listener.
BeginShutdown ==
    /\ main = "waiting"
    /\ quit
    /\ main' = "draining"
    /\ listener' = "closed"
    /\ quit' = FALSE
    /\ UNCHANGED <<pool, drain, connVars>>

\* Mutant: main does not wait for the requests, as with a second goroutine that
\* calls Shutdown.
ShutdownReturns_atOnce ==
    /\ main = "draining"
    /\ main' = "closing"
    /\ drain' = 0
    /\ UNCHANGED <<listener, quit, pool, connVars>>

\* Shutdown looks after the connections every half second and closes the idle
\* ones.
ShutdownPolls ==
    /\ main = "draining"
    /\ \E q \in Conns : Idle(q)
    /\ phase' = [q \in Conns |-> IF Idle(q) THEN "none" ELSE phase[q]]
    /\ age' = [q \in Conns |-> IF Idle(q) THEN 0 ELSE age[q]]
    /\ UNCHANGED <<main, listener, quit, pool, drain, head, body>>

\* No connection is left.
ShutdownReturns ==
    /\ main = "draining"
    /\ \A q \in Conns : ~Active(q) /\ ~Idle(q)
    /\ main' = "closing"
    /\ drain' = 0
    /\ UNCHANGED <<listener, quit, pool, connVars>>

\* The time is over and requests are left: os.Exit skips the deferred Close.
ShutdownFails ==
    /\ main = "draining"
    /\ drain = ShutdownTimeout
    /\ \E q \in Conns : Active(q)
    /\ Exit

\* The deferred db.Close, then main returns.
ClosePool ==
    /\ main = "closing"
    /\ pool = "open"
    /\ pool' = "closed"
    /\ UNCHANGED <<main, listener, quit, drain, connVars>>

Return ==
    /\ main = "closing"
    /\ pool = "closed"
    /\ Exit

Main == \/ InitDB
        \/ Listen
        \/ Notify
        \/ BeginShutdown
        \/ ShutdownPolls
        \/ ShutdownReturns
        \/ ShutdownFails
        \/ ClosePool
        \/ Return

-----------------------------------------------------------------------------
Goes(q, to) ==
    /\ phase' = [phase EXCEPT ![q] = to]
    /\ UNCHANGED <<main, listener, quit, pool, drain>>

\* The connection is done with its request, if it had one.
Leaves(q, to) ==
    /\ Goes(q, to)
    /\ age' = [age EXCEPT ![q] = 0]
    /\ head' = [head EXCEPT ![q] = 0]
    /\ body' = [body EXCEPT ![q] = 0]

\* A client connects.
Accept(q) ==
    /\ listener = "on"
    /\ phase[q] = "none"
    /\ Goes(q, "new")
    /\ UNCHANGED <<age, head, body>>

\* It sends its next request on the connection it has.
SendNext(q) ==
    /\ phase[q] = "idle"
    /\ Goes(q, "next")
    /\ UNCHANGED <<age, head, body>>

ReadHeaders(q) ==
    /\ ReadsHeaders(q)
    /\ Goes(q, "body")
    /\ head' = [head EXCEPT ![q] = age[q]]
    /\ UNCHANGED <<age, body>>

\* The body is decoded and valid; the deadline of the request begins.
Decode(q) ==
    /\ phase[q] = "body"
    /\ Goes(q, "handling")
    /\ body' = [body EXCEPT ![q] = age[q]]
    /\ UNCHANGED <<age, head>>

\* The answer is written; after WriteTimeout it does not get through.
Answer(q, to) ==
    \/ age[q] <= head[q] + WriteTimeout /\ Leaves(q, to)
    \/ /\ age[q] >= head[q] + WriteTimeout
       /\ Goes(q, "unsent")
       /\ body' = [body EXCEPT ![q] = IF phase[q] = "body" THEN age[q] ELSE @]
       /\ UNCHANGED <<age, head>>

\* ReadTimeout is over: the connection is closed, or Decode fails.
TimeOut(q) ==
    /\ age[q] = ReadTimeout
    /\ \/ ReadsHeaders(q) /\ Leaves(q, "none")
       \/ phase[q] = "body" /\ Answer(q, "none")

\* The handler returns, at the latest when its deadline is over.  The connection
\* is kept for the next request, but not while the server shuts down.
Respond(q) ==
    /\ phase[q] = "handling"
    /\ \/ Answer(q, "none")
       \/ main # "draining" /\ Answer(q, "idle")

\* The client of an unsent answer sees its connection closed; one without a
\* request closes it itself, or IdleTimeout does.
Hangup(q) == phase[q] \in {"unsent", "idle"} /\ Leaves(q, "none")

\* Mutant: the statements of a request are given no deadline.
NothingDue_noDeadline ==
    /\ \A q \in Conns : ReadsHeaders(q) \/ phase[q] = "body" => age[q] < ReadTimeout
    /\ main = "draining" => /\ drain < ShutdownTimeout
                            /\ \A q \in Conns : ~Idle(q)

\* Nothing is due.
NothingDue ==
    /\ \A q \in Conns :
          /\ ReadsHeaders(q) \/ phase[q] = "body" => age[q] < ReadTimeout
          /\ phase[q] = "handling" => age[q] < body[q] + RequestTimeout
    /\ main = "draining" => /\ drain < ShutdownTimeout
                            /\ \A q \in Conns : ~Idle(q)

Tick ==
    /\ NothingDue
    /\ age' = [q \in Conns |-> IF ReadsHeaders(q) \/ Active(q) THEN age[q] + 1
                                                              ELSE age[q]]
    /\ drain' = IF main = "draining" THEN drain + 1 ELSE drain
    /\ UNCHANGED <<main, listener, quit, pool, phase, head, body>>

\* The process dies at any point.
Die == Alive /\ Exit

ProcessStep ==
    \/ Main
    \/ \E q \in Conns : Accept(q) \/ SendNext(q) \/ ReadHeaders(q) \/ Decode(q)
                      \/ TimeOut(q) \/ Respond(q) \/ Hangup(q)
    \/ Tick
    \/ Die

\* Clients need not send; the server and the handlers go on, and so does time.
ProcessFairness ==
    /\ WF_processVars(Main)
    /\ \A q \in Conns : WF_processVars(TimeOut(q) \/ Respond(q))
    /\ WF_processVars(Tick)

-----------------------------------------------------------------------------
ProcessTypeOK ==
    /\ main \in {"off", "init", "started", "notified", "waiting", "draining",
                 "closing", "exited"}
    /\ listener \in {"off", "on", "closed"}
    /\ quit \in BOOLEAN
    /\ pool \in {"none", "open", "closed"}
    /\ drain \in 0 .. ShutdownTimeout
    /\ phase \in [Conns -> Phases]
    /\ age \in [Conns -> 0 .. ReadTimeout + RequestTimeout]
    /\ head \in [Conns -> 0 .. ReadTimeout]
    /\ body \in [Conns -> 0 .. ReadTimeout]

\* A request that is being handled never finds the pool closed under it: main
\* closes the pool only when Shutdown has seen the last request off.
PoolOutlivesRequests ==
    \A q \in Conns : phase[q] = "handling" => pool = "open"

\* The 30 s of Shutdown are enough for every request the other limits allow:
\* when they are over no request is left, and "Server forced to shutdown" is
\* never logged.
NeverForced ==
    main = "draining" /\ drain = ShutdownTimeout => \A q \in Conns : ~Active(q)

\* A request whose body comes within 5 s of its headers gets its answer before
\* WriteTimeout closes the connection, however long its statements take.  (The
\* client of a slower one may be left without an answer to what was done.)
PromptBodyAnswered ==
    \A q \in Conns : phase[q] = "unsent" => body[q] > head[q]
=============================================================================
