------------------------------ MODULE Producer ------------------------------
(***************************************************************************)
(* The process of flowhand-demo around the submit loop of module Demo: its *)
(* environment is read, a goroutine serves the metrics, the loop runs      *)
(* until a signal, and the metrics server is then shut down within five    *)
(* seconds.  The server of module Submit may hang all the while.           *)
(***************************************************************************)
EXTENDS Demo

CONSTANT Scrapers   \* those who read /metrics, each one request at a time

VARIABLES
    main,      \* where the main goroutine is, or how the process ended
    text,      \* DEMO_INTERVAL as somebody wrote it
    listener,  \* the goroutine that serves the metrics; "returned" if it has
               \* listened before it ended, "never" if not
    shut,      \* Shutdown was called on the metrics server
    scrapes,   \* the scrapers whose request is being answered
    cut        \* those whose request the process did not answer

process == <<main, text, listener, shut, scrapes, cut>>
pvars == <<dvars, process>>

Ends == {"stopped", "failed", "panic"}
Running == main \notin Ends

ProducerInit ==
    /\ DemoInit
    /\ main = "environment"
    /\ text \in {"empty", "garbled", "duration", "zero or less"}
    /\ listener = "none" /\ shut = FALSE
    /\ scrapes = {} /\ cut = {}

(* Every way out of main takes the requests of the scrapers with it.       *)
Exit(how) == main' = how /\ cut' = scrapes

---------------------------------------------------------------------------
Environment ==
    /\ main = "environment" /\ main' = "ticker"
    /\ listener' = "starting"
    /\ UNCHANGED <<dvars, text, shut, scrapes, cut>>

(* FLOWHAND_URL is no URL; the goroutine was not started.                  *)
BadURL ==
    /\ main = "environment" /\ Exit("failed")
    /\ UNCHANGED <<dvars, text, listener, shut, scrapes>>

(* What is empty or no duration gives way to a second; what is one stands, *)
(* whatever its sign.                                                      *)
envDur(written) == IF written = "zero or less" THEN "not positive" ELSE "positive"

(* time.NewTicker panics unless the interval is positive.                  *)
NewTicker ==
    /\ main = "ticker"
    /\ IF envDur(text) = "positive" THEN main' = "loop" /\ UNCHANGED cut ELSE Exit("panic")
    /\ UNCHANGED <<dvars, text, listener, shut, scrapes>>

(* The loop, as module Demo has it.                                        *)
Ticked == main = "loop" /\ (Post \/ PostFails) /\ UNCHANGED process

SubmitReturns == main = "loop" /\ (Answered \/ GiveUp) /\ UNCHANGED process

(* Shutdown closes the listener, if it is open by now, and then waits.     *)
Done ==
    /\ main = "loop" /\ Stop
    /\ main' = "shutdown" /\ shut' = TRUE
    /\ listener' = IF listener = "serving" THEN "returned" ELSE listener
    /\ UNCHANGED <<text, scrapes, cut>>

ShutdownDone ==
    /\ main = "shutdown" /\ scrapes = {}
    /\ Exit("stopped")
    /\ UNCHANGED <<dvars, text, listener, shut, scrapes>>

(* The five seconds are over before Shutdown has found every connection    *)
(* idle.  It looks at them from time to time, and takes a new one that has *)
(* sent nothing for a busy one, so the time may run out although no scrape *)
(* is under way any more; but not if nobody could ever connect.  (Mutants: *)
(* the error is dropped; the context has no time-out, so the time never    *)
(* comes.)                                                                 *)
ShutdownTimeout_MutDropped ==
    /\ main = "shutdown" /\ listener = "returned"
    /\ Exit("stopped")
    /\ UNCHANGED <<dvars, text, listener, shut, scrapes>>

ShutdownTimeout_MutNever ==
    main = "shutdown" /\ UNCHANGED pvars

ShutdownTimeout ==
    /\ main = "shutdown" /\ listener = "returned"
    /\ Exit("failed")
    /\ UNCHANGED <<dvars, text, listener, shut, scrapes>>

---------------------------------------------------------------------------
(* The goroutine.  A listener that fails is logged and nothing more; a     *)
(* server that was shut down before it started never listens.              *)
Listen ==
    /\ Running /\ listener = "starting"
    /\ listener' \in IF shut THEN {"never"} ELSE {"serving", "never"}
    /\ UNCHANGED <<dvars, main, text, shut, scrapes, cut>>

ListenerFails ==
    /\ Running /\ listener = "serving"
    /\ listener' = "returned"
    /\ UNCHANGED <<dvars, main, text, shut, scrapes, cut>>

Scrape(s) ==
    /\ Running /\ listener = "serving" /\ s \notin scrapes
    /\ scrapes' = scrapes \cup {s}
    /\ UNCHANGED <<dvars, main, text, listener, shut, cut>>

ScrapeEnds(s) ==
    /\ Running /\ s \in scrapes
    /\ scrapes' = scrapes \ {s}
    /\ UNCHANGED <<dvars, main, text, listener, shut, cut>>

Signal == Running /\ SignalDemo /\ UNCHANGED process

Elsewhere == ServerStep /\ UNCHANGED process

ProducerNext ==
    \/ Environment \/ BadURL \/ NewTicker \/ Ticked \/ SubmitReturns
    \/ Done \/ ShutdownDone \/ ShutdownTimeout
    \/ Listen \/ ListenerFails
    \/ \E s \in Scrapers : Scrape(s) \/ ScrapeEnds(s)
    \/ Signal \/ Elsewhere

(* Fairness: the main goroutine runs, its two time-outs included, and a    *)
(* select with two ready cases picks at random, so the signal is picked at *)
(* last.  Nothing is assumed of the server, which may hang, nor of a       *)
(* scraper, who may never read its answer; and no tick has to come.        *)
FairProducer ==
    /\ ProducerInit /\ [][ProducerNext]_pvars
    /\ WF_pvars(Environment \/ NewTicker) /\ WF_pvars(SubmitReturns)
    /\ WF_pvars(ShutdownDone \/ ShutdownTimeout) /\ SF_pvars(Done)

---------------------------------------------------------------------------
(* Properties.                                                             *)

(* No hanging server stops the loop.                                       *)
LoopGoesOn == loop = "posting" ~> loop # "posting"

(* The exit status 0 means that a signal came, that the metrics server was *)
(* closed, and that no reader of the metrics was cut off: one who was is   *)
(* told by the status, unless the process panicked at its start.  1 means  *)
(* that something was wrong before anything was started, or that a signal  *)
(* came and the metrics server, which had listened, could not be shut down *)
(* in time, with or without a reader cut off.  No submit is under way when *)
(* the process ends, and only an interval that is a duration, but not a    *)
(* positive one, makes it panic (main.go:53-71, 137-145, 159-169).         *)
ExitTellsWhy ==
    /\ main = "stopped" => stopping /\ shut /\ cut = {} /\ listener # "serving"
    /\ main = "failed" => \/ listener = "none" /\ cut = {} /\ n = 0
                          \/ listener = "returned" /\ stopping /\ shut
    /\ main = "panic" => text = "zero or less" /\ ~shut /\ n = 0
    /\ ~Running => loop # "posting"

(* After a signal the process ends, whatever the server it submits to, the *)
(* listener or the readers of the metrics do.                              *)
SignalStops == stopping ~> ~Running
=============================================================================
