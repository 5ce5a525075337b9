-------------------------- MODULE LifecycleProofs --------------------------
(***************************************************************************)
(* The safety of the server process, for any number of requests,           *)
(* connections and queries.  The invariant follows the result of           *)
(* ListenAndServe from the goroutine through errCh to the exit status, and *)
(* says at which places of main the providers and the pool are up.         *)
(***************************************************************************)
EXTENDS Lifecycle, TLAPS

Starting == {"config", "tracer", "meter", "pool", "listen"}
Deferred == {"close", "closing", "flush_tracer", "flush_meter", "exit"}

(* Only Shutdown makes ListenAndServe return nil, and the nil that Run     *)
(* returns is that one: all requests were drained, and none can follow.    *)
Outcome ==
    /\ main \in Starting => serve = "off" /\ errCh = "unsent" /\ ~closing
    /\ main = "select" => ~closing
    /\ main \in {"drain", "await"} => closing
    /\ main = "await" => InFlight = {}
    /\ serve = "closed" => closing
    /\ errCh = "nil" => serve = "closed"
    /\ errCh = "err" => serve \in {"unbound", "broken"}
    /\ main \in Deferred <=> result # "none"
    /\ \A h \in Handlers : handler[h] = "killed" => main = "exit"
    /\ result = "nil" => /\ serve = "closed" /\ InFlight = {}
                         /\ \A h \in Handlers : handler[h] # "killed"

(* The providers are up from obs.Init to the flush, the pool is closed     *)
(* before it.                                                              *)
Resources ==
    /\ main \in {"config", "tracer"} => tracer = "none"
    /\ main \in {"config", "tracer", "meter"} => meter = "none"
    /\ main \in {"config", "tracer", "meter", "pool"} => pool = "none"
    /\ main \in {"meter", "pool", "listen", "select", "drain", "await", "close",
                 "closing", "flush_tracer"} => tracer = "up"
    /\ main \in {"pool", "listen", "select", "drain", "await", "close", "closing",
                 "flush_tracer", "flush_meter"} => meter = "up"
    /\ main = "flush_meter" => tracer = "shut"
    /\ main \in {"flush_tracer", "flush_meter"} => pool \in {"none", "closed"}
    /\ InitIsUndone

(* A span ends before the provider is shut down, unless its request was    *)
(* not drained.                                                            *)
Spans ==
    /\ serve # "off" => tracer # "none" /\ meter # "none"
    /\ \A h \in Handlers :
         /\ handler[h] # "none" => serve # "off"
         /\ handler[h] = "done" /\ tracer # "shut" => span[h] \in {"ended", "exported"}
         /\ handler[h] = "done" /\ tracer = "shut" /\ result = "nil" /\ collector =>
               span[h] = "exported"

LifecycleInv == TypeOK /\ Outcome /\ Resources /\ Spans

---------------------------------------------------------------------------
(* A process that has not started holds nothing.                           *)
LEMMA LifecycleInvInit == Init => LifecycleInv
PROOF
  <1> SUFFICES ASSUME Init PROVE LifecycleInv
    OBVIOUS
  <1>1. TypeOK
    <2>1. 0 \in 0..MaxQueries
      BY QueriesAssumption
    <2> QED
      BY <2>1 DEF Init, TypeOK, Active
  <1>2. Outcome /\ Resources /\ Spans
    BY DEF Init, Outcome, Starting, Deferred, Resources, InitIsUndone, Spans
  <1> QED
    BY <1>1, <1>2 DEF LifecycleInv

(* A step that leaves the goroutines of the requests and the spans alone   *)
(* has only to account for the rest.                                       *)
LEMMA MainTypes ==
    ASSUME LifecycleInv, Main
    PROVE  TypeOK'
PROOF
  <1> USE DEF LifecycleInv, TypeOK, Goto
  <1>1. CASE LoadConfig \/ StartTracer \/ StartMeter \/ OpenPool \/ StartServing
    BY <1>1 DEF LoadConfig, StartTracer, StartMeter, OpenPool, StartServing
  <1>2. CASE SelectErr \/ SelectDone \/ Drained \/ DrainTimeout \/ Await
    BY <1>2 DEF SelectErr, SelectDone, Drained, DrainTimeout, Await, Receive
  <1>3. CASE ClosePool \/ PoolClosed
    BY <1>3 DEF ClosePool, PoolClosed
  <1>4. CASE FlushTracer
    BY <1>4 DEF FlushTracer, Flush
  <1>5. CASE FlushMeter
    BY <1>5 DEF FlushMeter, Active
  <1> QED
    BY <1>1, <1>2, <1>3, <1>4, <1>5 DEF Main

(* Start-up: an error goes to the exit with nothing to undo, or past the   *)
(* pool that did not open.                                                 *)
LEMMA StartUpStep ==
    ASSUME LifecycleInv,
           LoadConfig \/ StartTracer \/ StartMeter \/ OpenPool \/ StartServing
    PROVE  Outcome' /\ Resources' /\ Spans'
PROOF
  <1> USE DEF LifecycleInv, Goto
  <1>1. /\ main \in Starting
        /\ UNCHANGED <<signalled, errCh, closing, handler, queries, span, collector>>
    BY DEF LoadConfig, StartTracer, StartMeter, OpenPool, StartServing, Starting
  <1>2. \A h \in Handlers : handler[h] = "none"
    BY <1>1 DEF Outcome, Spans
  <1>3. InFlight' = {}
    BY <1>1, <1>2 DEF InFlight, Active
  <1>4. Outcome'
    BY <1>1, <1>2, <1>3
       DEF Outcome, Starting, Deferred, LoadConfig, StartTracer, StartMeter, OpenPool,
           StartServing
  <1>5. Resources'
    BY DEF Resources, InitIsUndone, LoadConfig, StartTracer, StartMeter, OpenPool,
           StartServing
  <1>6. Spans'
    BY <1>1, <1>2 DEF Spans, Resources, LoadConfig, StartTracer, StartMeter, OpenPool,
                      StartServing
  <1> QED
    BY <1>4, <1>5, <1>6

(* server.Run: what is received from errCh is what ListenAndServe said,    *)
(* and it said nil only if the drain is over.                              *)
LEMMA RunStep ==
    ASSUME LifecycleInv,
           SelectErr \/ SelectDone \/ Drained \/ DrainTimeout \/ Await
    PROVE  Outcome' /\ Resources' /\ Spans'
PROOF
  <1> USE DEF LifecycleInv, Goto
  <1>1. UNCHANGED <<signalled, serve, handler, queries, pool, tracer, meter, span,
                    collector>>
    BY DEF SelectErr, SelectDone, Drained, DrainTimeout, Await
  <1>2. InFlight' = InFlight
    BY <1>1 DEF InFlight
  <1>3. Resources'
    BY <1>1 DEF Resources, InitIsUndone, SelectErr, SelectDone, Drained, DrainTimeout,
                Await
  <1>4. tracer = "up"
    BY DEF Resources, SelectErr, SelectDone, Drained, DrainTimeout, Await
  <1>5. Spans'
    BY <1>1, <1>4 DEF Spans
  <1>6. \A h \in Handlers : handler[h] # "killed"
    BY DEF Outcome, SelectErr, SelectDone, Drained, DrainTimeout, Await
  <1>7. Outcome'
    BY <1>1, <1>2, <1>6 DEF Outcome, Starting, Deferred, Receive, SelectErr, SelectDone,
                            Drained, DrainTimeout, Await
  <1> QED
    BY <1>3, <1>5, <1>7

(* The deferred calls: the process ends with the last of them, and a       *)
(* request that still runs is killed only if the result is an error.       *)
LEMMA CleanUpStep ==
    ASSUME LifecycleInv, ClosePool \/ PoolClosed \/ FlushTracer \/ FlushMeter
    PROVE  Outcome' /\ Resources' /\ Spans'
PROOF
  <1> USE DEF LifecycleInv, Goto
  <1>1. UNCHANGED <<signalled, serve, errCh, closing, queries, collector, result>>
    BY DEF ClosePool, PoolClosed, FlushTracer, FlushMeter
  <1>2. Resources'
    BY DEF Resources, InitIsUndone, ClosePool, PoolClosed, FlushTracer, Flush, FlushMeter
  <1>3. CASE ClosePool \/ PoolClosed
    <2>1. UNCHANGED <<handler, tracer, meter, span>> /\ main' # "exit"
      BY <1>3 DEF ClosePool, PoolClosed
    <2>2. InFlight' = InFlight
      BY <2>1 DEF InFlight
    <2>3. Outcome'
      BY <1>1, <1>3, <2>1, <2>2 DEF Outcome, Starting, Deferred, ClosePool, PoolClosed
    <2>4. Spans'
      BY <1>1, <2>1 DEF Spans
    <2> QED
      BY <1>2, <2>3, <2>4
  <1>4. CASE FlushTracer
    <2>1. /\ main = "flush_tracer" /\ main' = "flush_meter"
          /\ UNCHANGED <<handler, meter>> /\ Flush(collector)
      BY <1>4 DEF FlushTracer
    <2>2. InFlight' = InFlight
      BY <2>1 DEF InFlight
    <2>3. Outcome'
      BY <1>1, <2>1, <2>2 DEF Outcome, Starting, Deferred
    <2>4. tracer = "up"
      BY <2>1 DEF Resources
    <2>5. Spans'
      BY <1>1, <2>1, <2>4 DEF Spans, Flush
    <2> QED
      BY <1>2, <2>3, <2>5
  <1>5. CASE FlushMeter
    <2>1. /\ main = "flush_meter" /\ main' = "exit" /\ UNCHANGED <<tracer, span>>
          /\ meter' = "shut"
          /\ handler' = [h \in Handlers |->
                           IF handler[h] \in Active THEN "killed" ELSE handler[h]]
      BY <1>5 DEF FlushMeter
    <2>2. InFlight' = {}
      BY <2>1 DEF InFlight, Active
    <2>3. result = "nil" => \A h \in Handlers : handler'[h] # "killed"
      BY <2>1 DEF Outcome, InFlight
    <2>4. Outcome'
      BY <1>1, <2>1, <2>2, <2>3 DEF Outcome, Starting, Deferred
    <2>5. \A h \in Handlers : /\ handler'[h] = "done" => handler[h] = "done"
                              /\ handler'[h] # "none" => handler[h] # "none"
      BY <2>1 DEF Active
    <2>6. Spans'
      BY <1>1, <2>1, <2>5 DEF Spans
    <2> QED
      BY <1>2, <2>4, <2>6
  <1> QED
    BY <1>3, <1>4, <1>5

(* The serving goroutine sends what it returned with.                      *)
LEMMA ServeStep ==
    ASSUME LifecycleInv, Listen \/ StopListening \/ SendResult
    PROVE  LifecycleInv'
PROOF
  <1> USE DEF LifecycleInv
  <1>1. /\ UNCHANGED <<main, signalled, closing, handler, queries, pool, tracer, meter,
                       span, collector, result>>
        /\ serve # "off"
    BY DEF Listen, StopListening, SendResult, ServeUnchanged
  <1>2. InFlight' = InFlight
    BY <1>1 DEF InFlight
  <1>3. TypeOK'
    BY <1>1 DEF TypeOK, Listen, StopListening, SendResult
  <1>4. Outcome'
    BY <1>1, <1>2 DEF Outcome, Starting, Listen, StopListening, SendResult
  <1>5. Resources'
    BY <1>1 DEF Resources, InitIsUndone
  <1>6. Spans'
    BY <1>1 DEF Spans, Listen, StopListening, SendResult
  <1> QED
    BY <1>3, <1>4, <1>5, <1>6

(* A request takes a step, so it was not drained, or is only beginning,    *)
(* and the result, if there is one, is an error.                           *)
LEMMA HandlerStep ==
    ASSUME LifecycleInv, NEW h \in Handlers, Request(h) \/ Handle(h) \/ Export(h)
    PROVE  LifecycleInv'
PROOF
  <1> USE DEF LifecycleInv
  <1>1. /\ UNCHANGED <<main, signalled, serve, errCh, closing, pool, tracer, meter,
                       collector, result>>
        /\ main # "exit"
    BY DEF Request, Handle, WantConn, Acquire, AcquireFails, QueryEnds, Finish, Export,
           HandlerUnchanged, Alive
  <1>2. TypeOK'
    BY QueriesAssumption
       DEF TypeOK, Request, Handle, WantConn, Acquire, AcquireFails, QueryEnds, Finish,
           Export, HandlerUnchanged, Active
  <1>3. Resources'
    BY <1>1 DEF Resources, InitIsUndone
  <1>4. CASE Export(h)
    <2>1. UNCHANGED handler /\ span' = [span EXCEPT ![h] = "exported"]
      BY <1>4 DEF Export
    <2>2. InFlight' = InFlight
      BY <2>1 DEF InFlight
    <2>3. Outcome'
      BY <1>1, <2>1, <2>2 DEF Outcome
    <2>4. Spans'
      BY <1>1, <2>1 DEF Spans, TypeOK
    <2> QED
      BY <1>2, <1>3, <2>3, <2>4
  <1>5. CASE Request(h) \/ Handle(h)
    <2>1. /\ serve # "off"
          /\ main # "await" /\ result # "nil"
      <3>1. CASE Request(h)
        BY <3>1 DEF Request, Outcome
      <3>2. CASE Handle(h)
        <4>1. handler[h] \in Active
          BY <3>2 DEF Handle, WantConn, Acquire, AcquireFails, QueryEnds, Finish, Active
        <4>2. InFlight # {}
          BY <4>1 DEF InFlight
        <4> QED
          BY <4>1, <4>2 DEF Outcome, Spans, Active
      <3> QED
        BY <1>5, <3>1, <3>2
    <2>2. \E to \in {"done"} \cup Active : handler' = [handler EXCEPT ![h] = to]
      BY <1>5 DEF Request, Handle, WantConn, Acquire, AcquireFails, QueryEnds, Finish,
                  Active
    <2>3. \A g \in Handlers : handler'[g] # "killed"
      BY <1>1, <2>2 DEF Outcome, TypeOK, Active
    <2>4. Outcome'
      BY <1>1, <2>1, <2>3 DEF Outcome
    <2>5. ASSUME Finish(h) PROVE Spans'
      BY <1>1, <2>1, <2>5 DEF Finish, Spans, TypeOK
    <2>6. ASSUME ~Finish(h) PROVE Spans'
      <3>1. UNCHANGED span
        BY <1>5, <2>6 DEF Request, Handle, WantConn, Acquire, AcquireFails, QueryEnds
      <3>2. handler'[h] # "done"
        BY <1>5, <2>6 DEF Request, Handle, WantConn, Acquire, AcquireFails, QueryEnds,
                          TypeOK
      <3> QED
        BY <1>1, <2>1, <2>2, <3>1, <3>2 DEF Spans, TypeOK
    <2> QED
      BY <1>2, <1>3, <2>4, <2>5, <2>6
  <1> QED
    BY <1>4, <1>5

(* A signal moves the main goroutine and no resource it holds.             *)
LEMMA SignalStep ==
    ASSUME LifecycleInv, Signal
    PROVE  LifecycleInv'
PROOF
  <1> USE DEF LifecycleInv, Signal
  <1>1. UNCHANGED <<serve, errCh, closing, handler, queries, pool, tracer, meter, span,
                    collector>>
    OBVIOUS
  <1>2. InFlight' = InFlight
    BY <1>1 DEF InFlight
  <1>3. TypeOK'
    BY DEF TypeOK
  <1>4. Outcome'
    BY <1>1, <1>2 DEF Outcome, Starting, Deferred
  <1>5. Resources'
    BY <1>1 DEF Resources, InitIsUndone
  <1>6. Spans'
    BY <1>1 DEF Spans, Outcome, Starting
  <1> QED
    BY <1>3, <1>4, <1>5, <1>6

(* Start-up, drain and shutdown take and release in the order that the     *)
(* invariant states.                                                       *)
LEMMA LifecycleInvStep == LifecycleInv /\ [Next]_lvars => LifecycleInv'
PROOF
  <1> SUFFICES ASSUME LifecycleInv, [Next]_lvars PROVE LifecycleInv'
    OBVIOUS
  <1>1. CASE UNCHANGED lvars
    <2>1. InFlight' = InFlight
      BY <1>1 DEF lvars, InFlight
    <2> QED
      BY <1>1, <2>1 DEF lvars, LifecycleInv, TypeOK, Outcome, Resources, InitIsUndone, Spans
  <1>2. CASE Main
    BY <1>2, MainTypes, StartUpStep, RunStep, CleanUpStep DEF Main, LifecycleInv
  <1>3. CASE Next
    BY <1>2, <1>3, ServeStep, HandlerStep, SignalStep DEF Next
  <1> QED
    BY <1>1, <1>3

---------------------------------------------------------------------------
(* The process keeps its invariant.                                        *)
THEOREM LifecycleInvariant == Spec => []LifecycleInv
PROOF
  <1> QED
    BY LifecycleInvInit, LifecycleInvStep, PTL DEF Spec

(* Every variable keeps its type: no request makes more than its queries,  *)
(* and errCh carries one value.                                            *)
THEOREM LifecycleTypes == Spec => []TypeOK
PROOF
  <1>1. LifecycleInv => TypeOK
    BY DEF LifecycleInv
  <1> QED
    BY <1>1, LifecycleInvariant, PTL

(* The exit status 0 means that no request was cut off (server.Run).       *)
THEOREM SuccessIsGraceful == Spec => []SuccessCutsNothing
PROOF
  <1>1. LifecycleInv => SuccessCutsNothing
    BY DEF LifecycleInv, Outcome, SuccessCutsNothing
  <1> QED
    BY <1>1, LifecycleInvariant, PTL

(* A listener that failed is reported, whatever the select picked.         *)
THEOREM FailureSurfaces == Spec => []ListenFailureSurfaces
PROOF
  <1>1. LifecycleInv => ListenFailureSurfaces
    BY DEF LifecycleInv, TypeOK, Outcome, Deferred, ListenFailureSurfaces
  <1> QED
    BY <1>1, LifecycleInvariant, PTL

(* The flush of the deferred call reaches every span of a drained request. *)
THEOREM SpansAreFlushed == Spec => []DrainedSpansFlushed
PROOF
  <1>1. ASSUME LifecycleInv, main = "exit", result = "nil"
        PROVE  tracer = "shut"
    BY <1>1 DEF LifecycleInv, TypeOK, Outcome, Resources, InitIsUndone, Spans
  <1>2. LifecycleInv => DrainedSpansFlushed
    BY <1>1 DEF LifecycleInv, Spans, DrainedSpansFlushed
  <1> QED
    BY <1>2, LifecycleInvariant, PTL

(* Once obs.Init has succeeded, both providers are shut down on every way  *)
(* out, after the pool.                                                    *)
THEOREM CleanUpIsComplete == Spec => []InitIsUndone
PROOF
  <1>1. LifecycleInv => InitIsUndone
    BY DEF LifecycleInv, Resources
  <1> QED
    BY <1>1, LifecycleInvariant, PTL
=============================================================================
