-------------------------------- MODULE Demo --------------------------------
(***************************************************************************)
(* flowhand-demo against the server of Submit: one producer that submits   *)
(* every idempotency key twice, one request at a time, and counts what the *)
(* answers show.  A request it has given up on may still be running in the *)
(* server, or in Postgres, when the next one is posted.                    *)
(*                                                                         *)
(* The requests are the producer's n = 0, 1, 2, ... and the keys the pair  *)
(* numbers n/2; no other client knows the keys of this run.                *)
(***************************************************************************)
EXTENDS Submit, FiniteSets

CONSTANT
    MaxSubmits   \* bound on the ticks of the producer

ASSUME RequestsAssumption ==
    MaxSubmits \in Nat /\ Requests = 0 .. MaxSubmits - 1
ASSUME PairsAssumption == \A r \in Requests : r \div 2 \in Keys

VARIABLES
    n,         \* submits so far
    loop,      \* "idle", "posting" or "stopped"
    stopping,  \* the signal has cancelled the producer's context
    lastID,    \* the id the pair's first submit was answered, or NoId
    submits,   \* the counter flowhand_demo_submits_total, by result
    alarms     \* warnings "repeat submit was not replayed"

demo == <<n, loop, stopping, lastID, submits, alarms>>
dvars == <<vars, demo>>

DemoInit ==
    /\ Init
    /\ n = 0 /\ loop = "idle" /\ stopping = FALSE /\ lastID = NoId
    /\ submits = [result \in {"created", "replayed", "error"} |-> 0]
    /\ alarms = 0

Count(result) == submits' = [submits EXCEPT ![result] = @ + 1]

(* A failed submit breaks the pair.  (Mutant: it does not.)                *)
Failed_MutKeepsLast == Count("error") /\ UNCHANGED <<lastID, alarms>>
Failed == Count("error") /\ lastID' = NoId /\ UNCHANGED alarms

(* A 201 for request k.  (Mutant: the second half of a broken pair is      *)
(* counted as a replay.)                                                   *)
Succeeded_MutBroken(k, id) ==
    IF k % 2 = 0
      THEN Count("created") /\ lastID' = id /\ UNCHANGED alarms
      ELSE /\ Count(IF lastID \in {NoId, id} THEN "replayed" ELSE "created")
           /\ alarms' = IF lastID \in {NoId, id} THEN alarms ELSE alarms + 1
           /\ UNCHANGED lastID

Succeeded(k, id) ==
    \/ /\ k % 2 = 0
       /\ Count("created") /\ lastID' = id /\ UNCHANGED alarms
    \/ /\ k % 2 = 1 /\ lastID = id
       /\ Count("replayed") /\ UNCHANGED <<lastID, alarms>>
    \/ /\ k % 2 = 1 /\ lastID # id
       /\ Count("created")
       /\ lastID' = IF lastID = NoId THEN NoId ELSE id
       /\ alarms' = IF lastID = NoId THEN alarms ELSE alarms + 1

---------------------------------------------------------------------------
Tock == loop = "idle" /\ n < MaxSubmits /\ n' = n + 1

(* A tick: request n is posted and reaches the server.                     *)
Post ==
    /\ Tock /\ ~stopping
    /\ Receive(n, [op |-> "submit", key |-> n \div 2, id |-> NoId])
    /\ loop' = "posting"
    /\ UNCHANGED <<stopping, lastID, submits, alarms>>

(* It never does: the connection is refused, or the context is cancelled   *)
(* (the select may still pick the tick after the signal).                  *)
PostFails ==
    /\ Tock /\ Failed
    /\ UNCHANGED <<vars, loop, stopping>>

(* submitOne returns: an id, or an error for a lost answer or any status   *)
(* but 201.                                                                *)
Answered ==
    LET k == n - 1
    IN  /\ loop = "posting" /\ client[k] # "waiting"
        /\ IF client[k] = "ok" THEN Succeeded(k, t[k].id) ELSE Failed
        /\ loop' = "idle"
        /\ UNCHANGED <<vars, n, stopping>>

(* The client's five-second time-out, or the cancelled context.  (Mutant:  *)
(* a client without a time-out.)                                           *)
GiveUp_MutNoTimeout ==
    loop = "posting" /\ stopping /\ Disconnect(n - 1) /\ UNCHANGED demo
GiveUp == loop = "posting" /\ Disconnect(n - 1) /\ UNCHANGED demo

SignalDemo ==
    /\ ~stopping /\ stopping' = TRUE
    /\ UNCHANGED <<vars, n, loop, lastID, submits, alarms>>

Stop ==
    /\ loop = "idle" /\ stopping /\ loop' = "stopped"
    /\ UNCHANGED <<vars, n, stopping, lastID, submits, alarms>>

(* The server and Postgres go on by themselves, and may crash.             *)
ServerStep ==
    /\ (\E r \in Requests : Server(r) \/ Postgres(r)) \/ Crash
    /\ UNCHANGED demo

DemoNext ==
    \/ Post \/ PostFails \/ Answered \/ GiveUp \/ SignalDemo \/ Stop
    \/ ServerStep

DemoSpec == DemoInit /\ [][DemoNext]_dvars

---------------------------------------------------------------------------
(* Properties.                                                             *)

Ok == {k \in 0 .. n - 1 : client[k] = "ok"}
Pairs == {k \div 2 : k \in 0 .. n - 1}

(* The producer never reports a replay failure it caused itself, nor one   *)
(* caused by a lost answer, a crash or a statement that commits late.      *)
NoFalseAlarm == alarms = 0

(* What getting-started.md promises of the counters: "replayed" counts the *)
(* pairs whose two submits were both answered, "created" the pairs that    *)
(* were answered at all, whichever half failed.                            *)
CountersTellPairs ==
    loop # "posting" =>
        /\ submits["replayed"] = Cardinality({p \in Pairs : {2*p, 2*p + 1} \subseteq Ok})
        /\ submits["created"] = Cardinality({p \in Pairs : {2*p, 2*p + 1} \cap Ok # {}})
=============================================================================
