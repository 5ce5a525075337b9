----------------------------- MODULE Lifecycle -----------------------------
(***************************************************************************)
(* `flowhand server` from start-up to exit: the main goroutine (the cobra  *)
(* RunE, obs.Init, storage.NewPool, server.Run and the deferred calls),    *)
(* the goroutine that runs ListenAndServe, the handler goroutines of the   *)
(* requests and the connections they take from the pool.                   *)
(*                                                                         *)
(* The signal cancels the context of main only: a request's context is not *)
(* derived from it, so a handler is never told to hurry.                   *)
(***************************************************************************)
EXTENDS Naturals, FiniteSets

CONSTANTS
    Handlers,    \* one per request
    MaxConns,    \* connections of the pool
    MaxQueries   \* a submit inserts and may read its key back: 2

ASSUME ConnsAssumption == MaxConns \in Nat \ {0}
ASSUME QueriesAssumption == MaxQueries \in Nat

VARIABLES
    main,       \* where the main goroutine is
    signalled,  \* SIGTERM or SIGINT has cancelled the context
    serve,      \* the goroutine that runs ListenAndServe
    errCh,      \* its result: a channel with a buffer of one
    closing,    \* http.Server.Shutdown was called: no request is accepted
    handler,    \* the handler goroutines
    queries,    \* how many queries each handler has made
    pool,       \* the connection pool
    tracer,     \* the tracer provider
    meter,      \* the meter provider
    span,       \* the span of each request
    collector,  \* whether the trace collector answers
    result      \* what the command returns

lvars == <<main, signalled, serve, errCh, closing, handler, queries, pool,
           tracer, meter, span, collector, result>>

Active == {"work", "acquire", "query"}
Holding == {h \in Handlers : handler[h] = "query"}
InFlight == {h \in Handlers : handler[h] \in Active}

(* The types: in particular a handler never takes more connections than    *)
(* its queries, and errCh carries one value.                               *)
TypeOK ==
    /\ main \in {"config", "tracer", "meter", "pool", "listen", "select", "drain",
                 "await", "close", "closing", "flush_tracer", "flush_meter", "exit"}
    /\ signalled \in BOOLEAN /\ closing \in BOOLEAN /\ collector \in BOOLEAN
    /\ serve \in {"off", "starting", "listening", "closed", "unbound", "broken"}
    /\ errCh \in {"unsent", "nil", "err", "received"}
    /\ handler \in [Handlers -> {"none", "done", "killed"} \cup Active]
    /\ queries \in [Handlers -> 0 .. MaxQueries]
    /\ pool \in {"none", "open", "closing", "closed"}
    /\ tracer \in {"none", "up", "shut"} /\ meter \in {"none", "up", "shut"}
    /\ span \in [Handlers -> {"none", "ended", "exported", "lost"}]
    /\ result \in {"none", "nil", "err"}

Init ==
    /\ main = "config" /\ signalled = FALSE
    /\ serve = "off" /\ errCh = "unsent" /\ closing = FALSE
    /\ handler = [h \in Handlers |-> "none"]
    /\ queries = [h \in Handlers |-> 0]
    /\ pool = "none" /\ tracer = "none" /\ meter = "none"
    /\ span = [h \in Handlers |-> "none"]
    /\ collector \in BOOLEAN
    /\ result = "none"

Goto(from, to) == main = from /\ main' = to

---------------------------------------------------------------------------
(* Start-up.  An error returns through the deferred calls registered so    *)
(* far: none for the configuration and obs.Init (Init hands out no         *)
(* shutdown function when it fails), the flush for the pool.               *)

LoadConfig ==
    /\ \/ Goto("config", "tracer") /\ UNCHANGED result
       \/ Goto("config", "exit") /\ result' = "err"
    /\ UNCHANGED <<signalled, serve, errCh, closing, handler, queries, pool,
                   tracer, meter, span, collector>>

StartTracer ==
    /\ \/ Goto("tracer", "meter") /\ tracer' = "up" /\ UNCHANGED result
       \/ Goto("tracer", "exit") /\ result' = "err" /\ UNCHANGED tracer
    /\ UNCHANGED <<signalled, serve, errCh, closing, handler, queries, pool,
                   meter, span, collector>>

StartMeter ==
    /\ \/ Goto("meter", "pool") /\ meter' = "up" /\ UNCHANGED result
       \/ Goto("meter", "exit") /\ result' = "err" /\ UNCHANGED meter
    /\ UNCHANGED <<signalled, serve, errCh, closing, handler, queries, pool,
                   tracer, span, collector>>

OpenPool ==
    /\ \/ Goto("pool", "listen") /\ pool' = "open" /\ UNCHANGED result
       \/ Goto("pool", "flush_tracer") /\ result' = "err" /\ UNCHANGED pool
    /\ UNCHANGED <<signalled, serve, errCh, closing, handler, queries, tracer,
                   meter, span, collector>>

StartServing ==
    /\ \/ Goto("listen", "select") /\ serve' = "starting" /\ UNCHANGED result
       \/ Goto("listen", "close") /\ result' = "err" /\ UNCHANGED serve
    /\ UNCHANGED <<signalled, errCh, closing, handler, queries, pool, tracer,
                   meter, span, collector>>

---------------------------------------------------------------------------
(* server.Run.                                                             *)

(* Receive from errCh: Run returns what ListenAndServe did.                *)
Receive == errCh \in {"nil", "err"} /\ errCh' = "received" /\ result' = errCh

(* Both cases of the select may be ready: Go picks one.  (Mutant: the      *)
(* first case falls through to the receive of the second.)                 *)
SelectErr_MutFallsThrough ==
    /\ Goto("select", "await") /\ Receive
    /\ UNCHANGED <<signalled, serve, closing, handler, queries, pool, tracer,
                   meter, span, collector>>

SelectErr ==
    /\ Goto("select", "close") /\ Receive
    /\ UNCHANGED <<signalled, serve, closing, handler, queries, pool, tracer,
                   meter, span, collector>>

SelectDone ==
    /\ Goto("select", "drain")
    /\ signalled
    /\ closing' = TRUE
    /\ UNCHANGED <<signalled, serve, errCh, handler, queries, pool, tracer,
                   meter, span, collector, result>>

(* Shutdown returns nil once no request is in flight, or the error of its  *)
(* context after ShutdownTimeout; Run then returns that error and leaves   *)
(* the requests running.  (Mutant: the time-out is taken for a success.)   *)
Drained ==
    /\ Goto("drain", "await")
    /\ InFlight = {}
    /\ UNCHANGED <<signalled, serve, errCh, closing, handler, queries, pool,
                   tracer, meter, span, collector, result>>

DrainTimeout_MutNil ==
    /\ Goto("drain", "close")
    /\ result' = "nil"
    /\ UNCHANGED <<signalled, serve, errCh, closing, handler, queries, pool,
                   tracer, meter, span, collector>>

DrainTimeout ==
    /\ Goto("drain", "close")
    /\ result' = "err"
    /\ UNCHANGED <<signalled, serve, errCh, closing, handler, queries, pool,
                   tracer, meter, span, collector>>

(* (Mutant: Shutdown succeeded, so Run returns nil.)                       *)
Await_MutNil ==
    /\ Goto("await", "close") /\ result' = "nil"
    /\ UNCHANGED <<signalled, serve, errCh, closing, handler, queries, pool,
                   tracer, meter, span, collector>>

Await ==
    /\ Goto("await", "close") /\ Receive
    /\ UNCHANGED <<signalled, serve, closing, handler, queries, pool, tracer,
                   meter, span, collector>>

---------------------------------------------------------------------------
(* The deferred calls, last registered first: the pool, the telemetry.     *)

ClosePool ==
    /\ Goto("close", "closing")
    /\ pool' = "closing"
    /\ UNCHANGED <<signalled, serve, errCh, closing, handler, queries, tracer,
                   meter, span, collector, result>>

(* Close blocks until every connection has been given back.                *)
PoolClosed ==
    /\ Goto("closing", "flush_tracer")
    /\ Holding = {}
    /\ pool' = "closed"
    /\ UNCHANGED <<signalled, serve, errCh, closing, handler, queries, tracer,
                   meter, span, collector, result>>

(* The tracer provider exports what has ended, if the collector answers    *)
(* before the fresh five-second context expires.  (Mutants: the flush gets *)
(* the context the signal has cancelled; its error ends the clean-up.)     *)
Flush(answers) ==
    /\ tracer' = "shut"
    /\ span' = [h \in Handlers |->
                  IF span[h] # "ended" THEN span[h]
                  ELSE IF answers THEN "exported" ELSE "lost"]

FlushTracer_MutCancelled ==
    /\ Goto("flush_tracer", "flush_meter")
    /\ Flush(collector /\ ~signalled)
    /\ UNCHANGED <<signalled, serve, errCh, closing, handler, queries, pool,
                   meter, collector, result>>

FlushTracer_MutFirstError ==
    /\ Goto("flush_tracer", IF collector THEN "flush_meter" ELSE "exit")
    /\ Flush(collector)
    /\ UNCHANGED <<signalled, serve, errCh, closing, handler, queries, pool,
                   meter, collector, result>>

FlushTracer ==
    /\ Goto("flush_tracer", "flush_meter")
    /\ Flush(collector)
    /\ UNCHANGED <<signalled, serve, errCh, closing, handler, queries, pool,
                   meter, collector, result>>

(* Called even when the tracer's shutdown failed: the errors are joined.   *)
(* The process ends with it, and the requests that still run are cut off.  *)
FlushMeter ==
    /\ Goto("flush_meter", "exit")
    /\ meter' = "shut"
    /\ handler' = [h \in Handlers |->
                     IF handler[h] \in Active THEN "killed" ELSE handler[h]]
    /\ UNCHANGED <<signalled, serve, errCh, closing, queries, pool, tracer, span,
                   collector, result>>

Main ==
    \/ LoadConfig \/ StartTracer \/ StartMeter \/ OpenPool \/ StartServing
    \/ SelectErr \/ SelectDone \/ Drained \/ DrainTimeout \/ Await
    \/ ClosePool \/ PoolClosed \/ FlushTracer \/ FlushMeter

---------------------------------------------------------------------------
(* The serving goroutine.                                                  *)

Alive == main # "exit"

ServeUnchanged == UNCHANGED <<main, signalled, closing, handler, queries, pool,
                              tracer, meter, span, collector, result>>

(* ListenAndServe binds, fails to, or finds that Shutdown came first.      *)
Listen ==
    /\ Alive /\ serve = "starting"
    /\ \/ closing /\ serve' = "closed"
       \/ ~closing /\ serve' \in {"listening", "unbound"}
    /\ UNCHANGED errCh /\ ServeUnchanged

(* Shutdown closes the listener, or Accept fails for good.                 *)
StopListening ==
    /\ Alive /\ serve = "listening"
    /\ serve' = IF closing THEN "closed" ELSE "broken"
    /\ UNCHANGED errCh /\ ServeUnchanged

SendResult ==
    /\ Alive /\ serve \in {"closed", "unbound", "broken"}
    /\ errCh = "unsent"
    /\ errCh' = IF serve = "closed" THEN "nil" ELSE "err"
    /\ UNCHANGED serve /\ ServeUnchanged

---------------------------------------------------------------------------
(* The handlers.                                                           *)

HandlerUnchanged == UNCHANGED <<main, signalled, serve, errCh, closing, pool,
                                tracer, meter, collector, result>>

(* Connections outlive a listener that broke, but not a Shutdown.          *)
Request(h) ==
    /\ Alive /\ handler[h] = "none"
    /\ serve \in {"listening", "broken"} /\ ~closing
    /\ handler' = [handler EXCEPT ![h] = "work"]
    /\ UNCHANGED <<queries, span>> /\ HandlerUnchanged

(* The handler's next query.                                               *)
WantConn(h) ==
    /\ Alive /\ handler[h] = "work" /\ queries[h] < MaxQueries
    /\ handler' = [handler EXCEPT ![h] = "acquire"]
    /\ queries' = [queries EXCEPT ![h] = @ + 1]
    /\ UNCHANGED span /\ HandlerUnchanged

Acquire(h) ==
    /\ Alive /\ handler[h] = "acquire"
    /\ pool = "open" /\ Cardinality(Holding) < MaxConns
    /\ handler' = [handler EXCEPT ![h] = "query"]
    /\ UNCHANGED <<queries, span>> /\ HandlerUnchanged

(* The pool is being closed, or the client went away while waiting.        *)
AcquireFails(h) ==
    /\ Alive /\ handler[h] = "acquire"
    /\ handler' = [handler EXCEPT ![h] = "work"]
    /\ UNCHANGED <<queries, span>> /\ HandlerUnchanged

(* Postgres answers, or the query fails: the connection goes back.         *)
QueryEnds(h) ==
    /\ Alive /\ handler[h] = "query"
    /\ handler' = [handler EXCEPT ![h] = "work"]
    /\ UNCHANGED <<queries, span>> /\ HandlerUnchanged

(* The response is written and the span ends: a provider that has been     *)
(* shut down drops it.                                                     *)
Finish(h) ==
    /\ Alive /\ handler[h] = "work"
    /\ handler' = [handler EXCEPT ![h] = "done"]
    /\ span' = [span EXCEPT ![h] = IF tracer = "up" THEN "ended" ELSE "lost"]
    /\ UNCHANGED queries /\ HandlerUnchanged

(* The batcher exports on its own, now and then.                           *)
Export(h) ==
    /\ Alive /\ span[h] = "ended" /\ tracer = "up" /\ collector
    /\ span' = [span EXCEPT ![h] = "exported"]
    /\ UNCHANGED <<handler, queries>> /\ HandlerUnchanged

---------------------------------------------------------------------------
(* Before NotifyContext a signal kills the process; afterwards, until the  *)
(* last deferred call, the first cancels the context and the next ones are *)
(* swallowed.                                                              *)
Signal ==
    /\ Alive /\ ~signalled
    /\ IF main = "config" THEN main' = "exit" /\ result' = "err"
                          ELSE UNCHANGED <<main, result>>
    /\ signalled' = TRUE
    /\ UNCHANGED <<serve, errCh, closing, handler, queries, pool, tracer, meter,
                   span, collector>>

Handle(h) == \/ WantConn(h) \/ Acquire(h) \/ AcquireFails(h) \/ QueryEnds(h)
             \/ Finish(h)

Next ==
    \/ Main
    \/ Listen \/ StopListening \/ SendResult
    \/ \E h \in Handlers : Request(h) \/ Handle(h) \/ Export(h)
    \/ Signal

Spec == Init /\ [][Next]_lvars

(* The goroutines run; a step that may fail is one action with both its    *)
(* outcomes, so fairness forces neither.  A drain that does not end is     *)
(* ended by ShutdownTimeout.  Nothing forces a listener to break.          *)
FairProcess ==
    /\ WF_lvars(Main)
    /\ WF_lvars(Listen) /\ WF_lvars(closing /\ StopListening) /\ WF_lvars(SendResult)

(* Postgres answers every query, and the handlers run.                     *)
FairHandlers ==
    \A h \in Handlers : /\ WF_lvars(Finish(h) \/ QueryEnds(h) \/ Acquire(h))
                        /\ WF_lvars(pool # "open" /\ AcquireFails(h))

FairSpec == Spec /\ FairProcess /\ FairHandlers
HangSpec == Spec /\ FairProcess

---------------------------------------------------------------------------
(* Properties.                                                             *)

(* The command succeeds only after a graceful shutdown: no request was cut *)
(* off.  A drain that times out, or a listener that failed, is an error.   *)
SuccessCutsNothing ==
    main = "exit" /\ result = "nil" => \A h \in Handlers : handler[h] # "killed"

(* A listener that could not bind, or stopped accepting, is reported even  *)
(* when a signal arrives at the same moment and the select picks that.     *)
ListenFailureSurfaces ==
    main = "exit" /\ serve \in {"unbound", "broken"} => result = "err"

(* "Graceful shutdown that actually flushes telemetry": if every request   *)
(* was drained and the collector answers, no span of a finished request is *)
(* lost, although the context of the process is already cancelled.         *)
DrainedSpansFlushed ==
    main = "exit" /\ result = "nil" /\ collector =>
        \A h \in Handlers : handler[h] = "done" => span[h] = "exported"

(* On every way out after obs.Init succeeded - a pool that does not open,  *)
(* a server that does not start, an error, a signal - both providers are   *)
(* shut down, and after the pool.                                          *)
InitIsUndone ==
    main = "exit" /\ meter # "none" =>
        tracer = "shut" /\ meter = "shut" /\ pool \in {"none", "closed"}

(* A signal ends the process, if the handlers' queries end.                *)
SignalEnds == signalled ~> main = "exit"

(* What README.md says of the shutdown: after a signal telemetry is        *)
(* flushed.  Not so if Postgres does not answer: see HangSpec.             *)
SignalFlushes == (signalled /\ main = "select") ~> tracer = "shut"
=============================================================================
