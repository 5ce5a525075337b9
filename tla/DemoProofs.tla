----------------------------- MODULE DemoProofs -----------------------------
(***************************************************************************)
(* The producer raises no false alarm, however many submits it makes and   *)
(* whatever its server does with them: the promise of the idempotency key, *)
(* proved of Submit, and the care the loop takes of lastID.  Nor does it   *)
(* miss a pair: what it counts is what it was told.  Its process runs this *)
(* loop and no other, and its exit status tells why it ended.              *)
(***************************************************************************)
EXTENDS Producer, SubmitProofs, FiniteSetTheorems

USE RequestsAssumption, PairsAssumption

(* The submits whose outcome the loop knows.                               *)
Known == IF loop = "posting" THEN n - 1 ELSE n

First(k) == [op |-> "submit", key |-> k \div 2, id |-> NoId]

(* The loop waits only for a submit it has counted.                        *)
Counted ==
    /\ n \in 0 .. MaxSubmits
    /\ loop \in {"idle", "posting", "stopped"}
    /\ loop = "posting" => n > 0

(* Between the halves of a pair lastID, if there is one, is the task that  *)
(* the first half was told of; it says nothing anywhere else.              *)
DemoInv ==
    /\ Counted
    /\ loop = "posting" => cmd[n - 1] = First(n - 1)
    /\ Known % 2 = 1 /\ lastID # NoId =>
          /\ cmd[Known - 1] = First(Known - 1)
          /\ client[Known - 1] = "ok" /\ t[Known - 1].id = lastID
    /\ alarms = 0

---------------------------------------------------------------------------
(* The loop counts a submit before it waits for its answer.                *)
LEMMA CountedStep == Counted /\ [DemoNext]_dvars => Counted'
PROOF
  <1> SUFFICES ASSUME Counted, [DemoNext]_dvars PROVE Counted'
    OBVIOUS
  <1>1. CASE Post \/ PostFails \/ Answered
    BY <1>1 DEF Counted, Post, PostFails, Answered, Tock
  <1>2. CASE GiveUp \/ SignalDemo \/ Stop \/ ServerStep \/ UNCHANGED dvars
    BY <1>2 DEF Counted, GiveUp, SignalDemo, Stop, ServerStep, dvars, demo
  <1> QED
    BY <1>1, <1>2 DEF DemoNext

(* The loop is a client of the server: it takes no step that the server's  *)
(* specification does not allow.                                           *)
LEMMA DemoStep == Counted /\ [DemoNext]_dvars => [Next]_vars
PROOF
  <1> SUFFICES ASSUME Counted, [DemoNext]_dvars PROVE [Next]_vars
    OBVIOUS
  <1>1. CASE Post
    <2>1. n \in Requests /\ First(n) \in Command
      BY <1>1 DEF Counted, Post, Tock, First, Command
    <2> QED
      BY <1>1, <2>1 DEF Post, First, Next
  <1>2. CASE GiveUp
    <2>1. n - 1 \in Requests
      BY <1>2 DEF Counted, GiveUp
    <2> QED
      BY <1>2, <2>1 DEF GiveUp, Next
  <1>3. CASE ServerStep
    BY <1>3 DEF ServerStep, Next
  <1>4. CASE PostFails \/ Answered \/ SignalDemo \/ Stop \/ UNCHANGED dvars
    BY <1>4 DEF PostFails, Answered, SignalDemo, Stop, dvars
  <1> QED
    BY <1>1, <1>2, <1>3, <1>4 DEF DemoNext

(* What a client was told stays what it was told.                          *)
LEMMA ToldIsKept ==
    ASSUME IInv, ServerStep \/ GiveUp, NEW k \in Requests
    PROVE  /\ cmd'[k] = cmd[k]
           /\ client[k] = "ok" => client'[k] = "ok" /\ t'[k] = t[k]
PROOF
  <1> USE DEF IInv, TypeOK, Move
  <1>1. client[k] = "ok" => pc[k] = "done"
    BY DEF Phase
  <1>2. ASSUME NEW r \in Requests, Server(r)
        PROVE  /\ cmd'[k] = cmd[k]
               /\ client[k] = "ok" => client'[k] = "ok" /\ t'[k] = t[k]
    BY <1>1, <1>2
       DEF Server, Submitting, Reading, Mint, MintFails, Inserted, Conflicted,
           InsertFails, AppendEvent, Replay, ReplayFails, Get, GetNotFound, GetFails,
           Respond
  <1>3. ASSUME NEW r \in Requests, Postgres(r)
        PROVE  UNCHANGED <<cmd, client, t>>
    BY <1>3 DEF Postgres, Commit, Conflict, Abort
  <1>4. CASE Crash
    BY <1>4 DEF Crash
  <1>5. CASE GiveUp
    BY <1>5 DEF GiveUp, Disconnect
  <1> QED
    BY <1>2, <1>3, <1>4, <1>5 DEF ServerStep

(* The two halves of a pair carry one key, and an even number comes next.  *)
LEMMA Halves ==
    ASSUME NEW k \in Nat, k % 2 = 1
    PROVE  k - 1 \in Nat /\ (k - 1) \div 2 = k \div 2 /\ (k + 1) % 2 = 0
PROOF
  BY SMT

(* Nothing is picked, sent or counted at start-up.                         *)
LEMMA DemoInvInit == DemoInit => DemoInv
PROOF
  BY DEF DemoInit, DemoInv, Counted, Known

(* The second half of a pair, if both were answered, was told of lastID:   *)
(* its key is that of the first half.                                      *)
LEMMA ReplayIsTold ==
    ASSUME IInv, SameTaskIffSameKey, DemoInv, loop = "posting", client[n - 1] = "ok",
           (n - 1) % 2 = 1, lastID # NoId
    PROVE  lastID = t[n - 1].id
PROOF
  <1> DEFINE k == n - 1
  <1>1. k \in Requests /\ k \in Nat /\ cmd[k] = First(k) /\ Known = k
    BY DEF DemoInv, Counted, Known
  <1>2. k - 1 \in Nat /\ (k - 1) \div 2 = k \div 2
    BY <1>1, Halves
  <1>3. k - 1 \in Requests
    BY <1>1, <1>2
  <1>4. k \div 2 # NoKey
    BY <1>1, KeysAssumption
  <1>5. /\ cmd[k - 1] = First(k - 1) /\ client[k - 1] = "ok"
        /\ t[k - 1].id = lastID
    BY <1>1 DEF DemoInv
  <1>6. Created(k) /\ Created(k - 1) /\ cmd[k - 1].key = cmd[k].key
        /\ cmd[k - 1].key # NoKey
    BY <1>1, <1>2, <1>4, <1>5 DEF Created, Submitted, First
  <1> QED
    BY <1>1, <1>3, <1>5, <1>6 DEF SameTaskIffSameKey

(* A submit that was answered: a replay is told of the task its first half *)
(* was told of, because their keys are the same.                           *)
LEMMA AnsweredStep ==
    ASSUME IInv, SameTaskIffSameKey, DemoInv, Answered
    PROVE  DemoInv'
PROOF
  <1> DEFINE k == n - 1
  <1>1. /\ loop = "posting" /\ loop' = "idle" /\ n' = n
        /\ UNCHANGED <<cmd, client, t>>
    BY DEF Answered, vars
  <1>2. /\ k \in Requests /\ k \in Nat /\ n = k + 1
        /\ cmd[k] = First(k) /\ Known = k /\ Known' = n
    BY <1>1 DEF DemoInv, Counted, Known
  <1>3. CASE client[k] # "ok"
    <2>1. lastID' = NoId /\ alarms' = alarms
      BY <1>3, <1>1 DEF Answered, Failed
    <2> QED
      BY <1>1, <2>1 DEF DemoInv, Counted
  <1>4. CASE client[k] = "ok"
    <2>1. Succeeded(k, t[k].id)
      BY <1>4 DEF Answered
    <2>2. CASE k % 2 = 0
      <3>1. lastID' = t[k].id /\ alarms' = alarms
        BY <2>1, <2>2 DEF Succeeded
      <3>2. Known' - 1 = k
        BY <1>2
      <3> QED
        BY <1>1, <1>2, <1>4, <3>1, <3>2 DEF DemoInv, Counted
    <2>3. CASE k % 2 = 1
      <3>1. n % 2 = 0
        BY <1>2, <2>3, Halves
      <3>2. lastID # NoId => lastID = t[k].id
        BY <1>1, <1>2, <1>4, <2>3, ReplayIsTold
      <3>3. alarms' = alarms
        BY <2>1, <2>3, <3>2 DEF Succeeded
      <3> QED
        BY <1>1, <1>2, <3>1, <3>3 DEF DemoInv, Counted
    <2> QED
      BY <1>2, <2>2, <2>3
  <1> QED
    BY <1>3, <1>4

(* No step of a sender, a scheduler or the server breaks the invariant.    *)
LEMMA DemoInvStep ==
    ASSUME IInv, SameTaskIffSameKey, DemoInv, [DemoNext]_dvars
    PROVE  DemoInv'
PROOF
  <1>1. CASE Post
    <2>1. /\ loop = "idle" /\ loop' = "posting" /\ n' = n + 1 /\ n < MaxSubmits
          /\ UNCHANGED <<lastID, alarms, client, t>>
          /\ cmd' = [cmd EXCEPT ![n] = First(n)]
      BY <1>1 DEF Post, Tock, Receive, First
    <2>2. n \in Requests /\ cmd \in [Requests -> Command \cup {NoCommand}]
      BY <2>1 DEF DemoInv, Counted, IInv, TypeOK
    <2>3. Known = n /\ Known' = n
      BY <2>1, <2>2 DEF Known
    <2>4. cmd'[n] = First(n) /\ (n > 0 => cmd'[n - 1] = cmd[n - 1])
      BY <2>1, <2>2
    <2>5. n % 2 = 1 => n > 0
      BY <2>2
    <2> QED
      BY <2>1, <2>2, <2>3, <2>4, <2>5 DEF DemoInv, Counted
  <1>2. CASE PostFails
    <2>1. /\ n' = n + 1 /\ n < MaxSubmits /\ loop = "idle" /\ loop' = "idle"
          /\ lastID' = NoId /\ alarms' = alarms
      BY <1>2 DEF PostFails, Tock, Failed
    <2> QED
      BY <2>1 DEF DemoInv, Counted
  <1>3. CASE Answered
    BY <1>3, AnsweredStep
  <1>4. CASE ServerStep \/ GiveUp
    <2>1. UNCHANGED demo
      BY <1>4 DEF ServerStep, GiveUp
    <2>2. Known' = Known
      BY <2>1 DEF demo, Known
    <2>3. Known % 2 = 1 => Known - 1 \in Requests
      BY DEF DemoInv, Counted, Known
    <2>4. loop = "posting" => n - 1 \in Requests
      BY DEF DemoInv, Counted
    <2> QED
      BY <1>4, <2>1, <2>2, <2>3, <2>4, ToldIsKept DEF DemoInv, Counted, demo
  <1>5. CASE SignalDemo \/ Stop \/ UNCHANGED dvars
    <2>1. UNCHANGED <<n, lastID, alarms, cmd, client, t>>
      BY <1>5 DEF SignalDemo, Stop, dvars, demo, vars
    <2>2. loop' = loop \/ (loop = "idle" /\ loop' = "stopped")
      BY <1>5 DEF SignalDemo, Stop, dvars, demo
    <2>3. Known' = Known
      BY <2>1, <2>2 DEF Known
    <2> QED
      BY <2>1, <2>2, <2>3 DEF DemoInv, Counted
  <1> QED
    BY <1>1, <1>2, <1>3, <1>4, <1>5 DEF DemoNext

---------------------------------------------------------------------------
(* The server of the composition is the server of module Submit, so all    *)
(* that is proved of it holds here.                                        *)
THEOREM DemoIsAClient == DemoSpec => Spec
PROOF
  <1>1. DemoInit => Init /\ Counted
    BY DEF DemoInit, Counted
  <1> QED
    BY <1>1, CountedStep, DemoStep, PTL DEF DemoSpec, Spec

(* The warning "repeat submit was not replayed" is never logged: with any  *)
(* number of submits, whatever times out, crashes or commits late.         *)
THEOREM NoAlarm == DemoSpec => []NoFalseAlarm
PROOF
  <1>1. DemoSpec => []IInv /\ []SameTaskIffSameKey
    BY DemoIsAClient, Invariance, SameTask, PTL
  <1>2. IInv /\ SameTaskIffSameKey /\ DemoInv /\ [DemoNext]_dvars => DemoInv'
    BY DemoInvStep
  <1>3. DemoInv => NoFalseAlarm
    BY DEF DemoInv, NoFalseAlarm
  <1> QED
    BY <1>1, <1>2, <1>3, DemoInvInit, PTL DEF DemoSpec
---------------------------------------------------------------------------
(* The counters.                                                           *)

(* The submits that were answered 201 as far as the loop knows, and what   *)
(* a set of such submits says of the pairs.                                *)
OkTill == {k \in 0 .. Known - 1 : client[k] = "ok"}
Both(S)   == {p \in 0 .. MaxSubmits : {2*p, 2*p + 1} \subseteq S}
Either(S) == {p \in 0 .. MaxSubmits : {2*p, 2*p + 1} \cap S # {}}

(* A submit whose outcome is known is over, or never reached the server;   *)
(* between the halves of a pair lastID is there if the first was answered. *)
CountInv ==
    /\ \A k \in n .. MaxSubmits - 1 : pc[k] = "free"
    /\ \A k \in 0 .. Known - 1 : pc[k] = "free" \/ client[k] # "waiting"
    /\ Known % 2 = 1 /\ client[Known - 1] = "ok" => lastID # NoId
    /\ submits \in [{"created", "replayed", "error"} -> Nat]
    /\ submits["replayed"] = Cardinality(Both(OkTill))
    /\ submits["created"] = Cardinality(Either(OkTill))

(* There are finitely many pairs.                                          *)
LEMMA FinitePairs ==
    ASSUME NEW S
    PROVE  IsFiniteSet(Both(S)) /\ IsFiniteSet(Either(S))
PROOF
  <1>1. IsFiniteSet(0 .. MaxSubmits)
    BY FS_Interval
  <1>2. Both(S) \in SUBSET (0 .. MaxSubmits) /\ Either(S) \in SUBSET (0 .. MaxSubmits)
    BY DEF Both, Either
  <1> QED
    BY <1>1, <1>2, FS_Subset

(* The first half of a pair opens it.                                      *)
LEMMA FirstHalf ==
    ASSUME NEW k \in 0 .. MaxSubmits - 1, NEW S \in SUBSET (0 .. k - 1), k % 2 = 0
    PROVE  /\ Both(S \cup {k}) = Both(S)
           /\ Either(S \cup {k}) = Either(S) \cup {k \div 2}
           /\ k \div 2 \notin Either(S)
PROOF
  <1>1. k = 2 * (k \div 2) /\ k \div 2 \in 0 .. MaxSubmits
    OBVIOUS
  <1>2. \A p \in 0 .. MaxSubmits :
           /\ {2*p, 2*p + 1} \subseteq S \cup {k} <=> {2*p, 2*p + 1} \subseteq S
           /\ {2*p, 2*p + 1} \cap (S \cup {k}) # {}
                 <=> p = k \div 2 \/ {2*p, 2*p + 1} \cap S # {}
    BY <1>1
  <1>3. {2*(k \div 2), 2*(k \div 2) + 1} \cap S = {}
    BY <1>1
  <1> QED
    BY <1>1, <1>2, <1>3 DEF Both, Either

(* The second half completes it, or opens it if the first has failed.      *)
LEMMA SecondHalf ==
    ASSUME NEW k \in 0 .. MaxSubmits - 1, NEW S \in SUBSET (0 .. k - 1), k % 2 = 1
    PROVE  /\ Either(S \cup {k}) = Either(S) \cup {k \div 2}
           /\ k \div 2 \in Either(S) <=> k - 1 \in S
           /\ k - 1 \in S => Both(S \cup {k}) = Both(S) \cup {k \div 2}
           /\ k - 1 \notin S => Both(S \cup {k}) = Both(S)
           /\ k \div 2 \notin Both(S)
PROOF
  <1>1. k = 2 * (k \div 2) + 1 /\ k \div 2 \in 0 .. MaxSubmits
    OBVIOUS
  <1>2. \A p \in 0 .. MaxSubmits :
           /\ {2*p, 2*p + 1} \subseteq S \cup {k}
                 <=> (p = k \div 2 /\ k - 1 \in S) \/ {2*p, 2*p + 1} \subseteq S
           /\ {2*p, 2*p + 1} \cap (S \cup {k}) # {}
                 <=> p = k \div 2 \/ {2*p, 2*p + 1} \cap S # {}
    BY <1>1
  <1>3. /\ {2*(k \div 2), 2*(k \div 2) + 1} \cap S # {} <=> k - 1 \in S
        /\ ~({2*(k \div 2), 2*(k \div 2) + 1} \subseteq S)
    BY <1>1
  <1> QED
    BY <1>1, <1>2, <1>3 DEF Both, Either

(* Nothing is counted at start-up.                                         *)
LEMMA CountInit == DemoInit => CountInv
PROOF
  <1> SUFFICES ASSUME DemoInit PROVE CountInv
    OBVIOUS
  <1>1. Known = 0 /\ OkTill = {}
    BY DEF DemoInit, Known, OkTill
  <1>2. Both({}) = {} /\ Either({}) = {}
    BY DEF Both, Either
  <1>3. n = 0 /\ \A k \in 0 .. MaxSubmits - 1 : pc[k] = "free"
    BY DEF DemoInit, Init
  <1>4. /\ submits \in [{"created", "replayed", "error"} -> Nat]
        /\ submits["replayed"] = 0 /\ submits["created"] = 0
    BY DEF DemoInit
  <1>5. Cardinality(Both(OkTill)) = 0 /\ Cardinality(Either(OkTill)) = 0
    BY <1>1, <1>2, FS_EmptySet
  <1> QED
    BY <1>1, <1>3, <1>4, <1>5 DEF CountInv

(* A client that was told of no task by the time its outcome is known will *)
(* not be told of one later.                                               *)
LEMMA FailedIsKept ==
    ASSUME IInv, ServerStep \/ GiveUp, NEW k \in Requests,
           pc[k] = "free" \/ client[k] # "waiting"
    PROVE  /\ pc'[k] = "free" \/ client'[k] # "waiting"
           /\ client'[k] = "ok" => client[k] = "ok"
PROOF
  <1> USE DEF IInv, TypeOK, Move
  <1>1. pc[k] = "free" => cmd[k] = NoCommand /\ sql[k] = "none"
    BY DEF Phase
  <1>2. ASSUME NEW r \in Requests, Server(r)
        PROVE  /\ pc'[k] = "free" \/ client'[k] # "waiting"
               /\ client'[k] = "ok" => client[k] = "ok"
    BY <1>1, <1>2
       DEF Server, Submitting, Reading, Mint, MintFails, Inserted, Conflicted,
           InsertFails, AppendEvent, Replay, ReplayFails, Get, GetNotFound, GetFails,
           Respond, Outcome
  <1>3. ASSUME NEW r \in Requests, Postgres(r)
        PROVE  UNCHANGED <<pc, client>>
    BY <1>3 DEF Postgres, Commit, Conflict, Abort
  <1>4. CASE Crash
    BY <1>4 DEF Crash, InFlight
  <1>5. CASE GiveUp
    BY <1>5 DEF GiveUp, Disconnect, InFlight
  <1> QED
    BY <1>2, <1>3, <1>4, <1>5 DEF ServerStep

(* Nothing is counted while the server works and the loop waits.           *)
LEMMA CountWaits ==
    ASSUME IInv, DemoInv, CountInv, ServerStep \/ GiveUp
    PROVE  CountInv'
PROOF
  <1>1. UNCHANGED <<n, loop, lastID, submits>> /\ Known' = Known
    BY DEF ServerStep, GiveUp, demo, Known
  <1>2. /\ n \in 0 .. MaxSubmits /\ Known \in 0 .. n
        /\ \A k \in 0 .. Known - 1 : k \in Requests
        /\ Known % 2 = 1 => Known - 1 \in 0 .. Known - 1
    BY DEF DemoInv, Counted, Known
  <1>3. ASSUME NEW k \in 0 .. Known - 1
        PROVE  /\ pc'[k] = "free" \/ client'[k] # "waiting"
               /\ client'[k] = "ok" <=> client[k] = "ok"
    BY <1>2, FailedIsKept, ToldIsKept DEF CountInv
  <1>4. OkTill' = OkTill
    BY <1>1, <1>3 DEF OkTill
  <1>5. ASSUME NEW k \in n .. MaxSubmits - 1 PROVE pc'[k] = "free"
    <2>1. k \in Requests /\ pc[k] = "free" /\ sql[k] = "none" /\ cmd[k] = NoCommand
      BY <1>2 DEF CountInv, IInv, Phase
    <2>2. CASE GiveUp
      BY <2>1, <2>2 DEF GiveUp, Disconnect
    <2>3. CASE \E r \in Requests : Server(r)
      BY <2>1, <2>3
         DEF Server, Submitting, Reading, Mint, MintFails, Inserted, Conflicted,
             InsertFails, AppendEvent, Replay, ReplayFails, Get, GetNotFound, GetFails,
             Respond, Move, Outcome, IInv, TypeOK
    <2>4. CASE \E r \in Requests : Postgres(r)
      BY <2>1, <2>4 DEF Postgres, Commit, Conflict, Abort
    <2>5. CASE Crash
      BY <2>1, <2>5 DEF Crash, InFlight, Outcome
    <2> QED
      BY <2>2, <2>3, <2>4, <2>5 DEF ServerStep
  <1>6. (Known % 2 = 1 /\ client[Known - 1] = "ok" => lastID # NoId)'
    BY <1>1, <1>2, <1>3 DEF CountInv
  <1>7. (Both(OkTill) = Both(OkTill)' /\ Either(OkTill) = Either(OkTill)')
    BY <1>4 DEF Both, Either
  <1> QED
    BY <1>1, <1>3, <1>5, <1>6, <1>7 DEF CountInv

(* A submit that fails, answered or never sent, changes no count of pairs. *)
LEMMA CountFailure ==
    ASSUME DemoInv, CountInv, Failed, n' \in 0 .. MaxSubmits,
           Known \in 0 .. MaxSubmits - 1, Known' = Known + 1, n' \in {n, n + 1},
           n \in Nat, UNCHANGED <<client, pc>>, client[Known] # "ok",
           pc[Known] = "free" \/ client[Known] # "waiting"
    PROVE  CountInv'
PROOF
  <1>1. OkTill' = OkTill
    BY DEF OkTill
  <1>2. Both(OkTill)' = Both(OkTill) /\ Either(OkTill)' = Either(OkTill)
    BY <1>1 DEF Both, Either
  <1>3. /\ submits' \in [{"created", "replayed", "error"} -> Nat]
        /\ submits'["replayed"] = submits["replayed"]
        /\ submits'["created"] = submits["created"]
    BY DEF Failed, Count, CountInv
  <1>4. (\A k \in n .. MaxSubmits - 1 : pc[k] = "free")'
    BY DEF CountInv
  <1>5. (\A k \in 0 .. Known - 1 : pc[k] = "free" \/ client[k] # "waiting")'
    BY DEF CountInv
  <1>6. (Known % 2 = 1 /\ client[Known - 1] = "ok" => lastID # NoId)'
    OBVIOUS
  <1> QED
    BY <1>2, <1>3, <1>4, <1>5, <1>6 DEF CountInv

(* A submit that was answered 201 opens its pair or completes it: lastID   *)
(* tells the loop which, because a replay is of the same task.             *)
LEMMA CountAnswer ==
    ASSUME IInv, SameTaskIffSameKey, DemoInv, CountInv, Answered, client[n - 1] = "ok"
    PROVE  CountInv'
PROOF
  <1> DEFINE k == n - 1
             S == OkTill
  <1>1. /\ loop = "posting" /\ loop' = "idle" /\ n' = n
        /\ UNCHANGED <<client, pc, t>> /\ Succeeded(k, t[k].id)
    BY DEF Answered, vars
  <1>2. /\ k \in 0 .. MaxSubmits - 1 /\ k \in Requests /\ n \in Nat /\ n = k + 1
        /\ Known = k /\ Known' = n /\ cmd[k] = First(k)
    BY <1>1 DEF DemoInv, Counted, Known
  <1>3. S \in SUBSET (0 .. k - 1) /\ OkTill' = S \cup {k}
    BY <1>1, <1>2 DEF OkTill
  <1>4. /\ Both(OkTill)' = Both(S \cup {k})
        /\ Either(OkTill)' = Either(S \cup {k})
    BY <1>3 DEF Both, Either
  <1>5. t[k].id \in Ids /\ t[k].id # NoId
    <2>1. Created(k)
      BY <1>2 DEF Created, Submitted, First
    <2>2. PICK row \in tasks : row.id = t[k].id
      BY <1>2, <2>1, CreatedHasRow
    <2> QED
      BY <2>2, IdsAssumption DEF IInv, TypeOK, Row
  <1>6. (\A i \in n .. MaxSubmits - 1 : pc[i] = "free")'
    BY <1>1 DEF CountInv
  <1>7. (\A i \in 0 .. Known - 1 : pc[i] = "free" \/ client[i] # "waiting")'
    BY <1>1, <1>2 DEF CountInv
  <1>8. /\ IsFiniteSet(Both(S)) /\ IsFiniteSet(Either(S))
        /\ Cardinality(Both(S)) = submits["replayed"]
        /\ Cardinality(Either(S)) = submits["created"]
        /\ submits \in [{"created", "replayed", "error"} -> Nat]
    BY FinitePairs DEF CountInv
  <1>9. \A T, p : /\ IsFiniteSet(T) /\ p \notin T
                  => Cardinality(T \cup {p}) = Cardinality(T) + 1
    BY FS_AddElement
  <1> HIDE DEF k, S
  <1>10. CASE k % 2 = 0
    <2>1. lastID' = t[k].id /\ submits' = [submits EXCEPT !["created"] = @ + 1]
      BY <1>1, <1>2, <1>10 DEF Succeeded, Count
    <2>2. /\ submits' \in [{"created", "replayed", "error"} -> Nat]
          /\ submits'["replayed"] = submits["replayed"]
          /\ submits'["created"] = submits["created"] + 1
      BY <1>8, <2>1
    <2>3. /\ Cardinality(Both(S \cup {k})) = submits["replayed"]
          /\ Cardinality(Either(S \cup {k})) = submits["created"] + 1
      BY <1>2, <1>3, <1>8, <1>9, <1>10, FirstHalf
    <2> QED
      BY <1>4, <1>5, <1>6, <1>7, <2>1, <2>2, <2>3 DEF CountInv
  <1>11. CASE k % 2 = 1
    <2>1. Known' % 2 # 1
      BY <1>2, <1>11, Halves
    <2>2. CASE client[k - 1] = "ok"
      <3>1. k - 1 \in S
        BY <1>2, <1>11, <2>2, Halves DEF S, OkTill
      <3>2. lastID # NoId
        BY <1>2, <1>11, <2>2 DEF CountInv
      <3>3. lastID = t[k].id
        BY <1>1, <1>2, <1>11, <3>2, ReplayIsTold DEF k
      <3>4. submits' = [submits EXCEPT !["replayed"] = @ + 1]
        BY <1>1, <1>11, <3>3 DEF Succeeded, Count
      <3>5. /\ submits' \in [{"created", "replayed", "error"} -> Nat]
            /\ submits'["created"] = submits["created"]
            /\ submits'["replayed"] = submits["replayed"] + 1
        BY <1>8, <3>4
      <3>6. Either(S \cup {k}) = Either(S)
        <4>1. k \div 2 \in Either(S) /\ Either(S \cup {k}) = Either(S) \cup {k \div 2}
          BY <1>2, <1>3, <1>11, <3>1, SecondHalf
        <4> QED
          BY <4>1
      <3>7. Cardinality(Both(S \cup {k})) = submits["replayed"] + 1
        BY <1>2, <1>3, <1>8, <1>9, <1>11, <3>1, SecondHalf
      <3> QED
        BY <1>4, <1>6, <1>7, <1>8, <2>1, <3>5, <3>6, <3>7 DEF CountInv
    <2>3. CASE client[k - 1] # "ok"
      <3>1. k - 1 \notin S
        BY <2>3 DEF S, OkTill
      <3>2. lastID = NoId
        BY <1>2, <1>11, <2>3 DEF DemoInv
      <3>3. submits' = [submits EXCEPT !["created"] = @ + 1]
        BY <1>1, <1>5, <1>11, <3>2 DEF Succeeded, Count
      <3>4. /\ submits' \in [{"created", "replayed", "error"} -> Nat]
            /\ submits'["replayed"] = submits["replayed"]
            /\ submits'["created"] = submits["created"] + 1
        BY <1>8, <3>3
      <3>5. /\ Both(S \cup {k}) = Both(S)
            /\ Cardinality(Either(S \cup {k})) = submits["created"] + 1
        BY <1>2, <1>3, <1>8, <1>9, <1>11, <3>1, SecondHalf
      <3> QED
        BY <1>4, <1>6, <1>7, <1>8, <2>1, <3>4, <3>5 DEF CountInv
    <2> QED
      BY <2>2, <2>3
  <1> QED
    BY <1>2, <1>10, <1>11

(* Each step of the loop and of the server keeps the counts.               *)
LEMMA CountStep ==
    ASSUME IInv, SameTaskIffSameKey, DemoInv, CountInv, [DemoNext]_dvars
    PROVE  CountInv'
PROOF
  <1>0. n \in 0 .. MaxSubmits /\ (loop = "posting" => n > 0)
    BY DEF DemoInv, Counted
  <1>1. CASE Post
    <2>1. /\ loop = "idle" /\ loop' = "posting" /\ n' = n + 1 /\ n \in 0 .. MaxSubmits - 1
          /\ UNCHANGED <<lastID, submits, client>>
          /\ pc' = [pc EXCEPT ![n] = "mint"]
      BY <1>0, <1>1 DEF Post, Tock, Receive, Move
    <2>2. Known = n /\ Known' = n
      BY <1>0, <2>1 DEF Known
    <2>3. OkTill' = OkTill
      BY <2>1, <2>2 DEF OkTill
    <2>4. Both(OkTill)' = Both(OkTill) /\ Either(OkTill)' = Either(OkTill)
      BY <2>3 DEF Both, Either
    <2>5. \A k \in 0 .. MaxSubmits - 1 : k # n => pc'[k] = pc[k]
      BY <2>1 DEF IInv, TypeOK
    <2>6. (\A k \in n .. MaxSubmits - 1 : pc[k] = "free")'
      BY <2>1, <2>5 DEF CountInv
    <2>7. (\A k \in 0 .. Known - 1 : pc[k] = "free" \/ client[k] # "waiting")'
      BY <2>1, <2>2, <2>5 DEF CountInv
    <2> QED
      BY <2>1, <2>2, <2>4, <2>6, <2>7 DEF CountInv
  <1>2. CASE PostFails
    <2>1. /\ n' = n + 1 /\ n \in 0 .. MaxSubmits - 1 /\ loop = "idle" /\ loop' = "idle"
          /\ Failed /\ UNCHANGED <<client, pc>>
      BY <1>0, <1>2 DEF PostFails, Tock, vars
    <2>2. Known = n /\ Known' = n + 1
      BY <1>0, <2>1 DEF Known
    <2>3. pc[n] = "free" /\ client[n] # "ok"
      BY <2>1 DEF CountInv, IInv, Phase
    <2> QED
      BY <1>0, <2>1, <2>2, <2>3, CountFailure
  <1>3. CASE Answered /\ client[n - 1] = "ok"
    BY <1>3, CountAnswer
  <1>4. CASE Answered /\ client[n - 1] # "ok"
    <2>1. /\ loop = "posting" /\ loop' = "idle" /\ n' = n /\ client[n - 1] # "waiting"
          /\ Failed /\ UNCHANGED <<client, pc>>
      BY <1>4 DEF Answered, vars
    <2>2. Known = n - 1 /\ Known' = n
      BY <1>0, <2>1 DEF Known
    <2> QED
      BY <1>0, <1>4, <2>1, <2>2, CountFailure
  <1>5. CASE ServerStep \/ GiveUp
    BY <1>5, CountWaits
  <1>6. CASE SignalDemo \/ Stop \/ UNCHANGED dvars
    <2>1. UNCHANGED <<n, lastID, submits, client, pc>> /\ Known' = Known
      BY <1>6 DEF SignalDemo, Stop, dvars, demo, vars, Known
    <2>2. OkTill' = OkTill
      BY <2>1 DEF OkTill
    <2>3. Both(OkTill)' = Both(OkTill) /\ Either(OkTill)' = Either(OkTill)
      BY <2>2 DEF Both, Either
    <2> QED
      BY <2>1, <2>3 DEF CountInv
  <1> QED
    BY <1>1, <1>2, <1>3, <1>4, <1>5, <1>6 DEF DemoNext

(* What the counters say of the submits is what their help texts promise.  *)
LEMMA CountsSpeakTrue == DemoInv /\ CountInv => CountersTellPairs
PROOF
  <1> SUFFICES ASSUME DemoInv, CountInv, loop # "posting" PROVE CountersTellPairs
    BY DEF CountersTellPairs
  <1>1. Known = n /\ Ok = OkTill /\ Ok \in SUBSET (0 .. n - 1) /\ n \in 0 .. MaxSubmits
    BY DEF Known, Ok, OkTill, DemoInv, Counted
  <1>2. ASSUME NEW p \in Pairs PROVE p \in 0 .. MaxSubmits
    BY <1>1, <1>2 DEF Pairs
  <1>3. ASSUME NEW p \in 0 .. MaxSubmits, 2*p \in Ok \/ 2*p + 1 \in Ok PROVE p \in Pairs
    <2>1. (2*p) \div 2 = p /\ (2*p + 1) \div 2 = p
      OBVIOUS
    <2> QED
      BY <1>1, <1>3, <2>1 DEF Pairs
  <1>4. {p \in Pairs : {2*p, 2*p + 1} \subseteq Ok} = Both(OkTill)
    BY <1>1, <1>2, <1>3 DEF Both
  <1>5. {p \in Pairs : {2*p, 2*p + 1} \cap Ok # {}} = Either(OkTill)
    BY <1>1, <1>2, <1>3 DEF Either
  <1> QED
    BY <1>4, <1>5 DEF CountersTellPairs, CountInv

(* "replayed" counts the pairs whose two submits were both answered,       *)
(* "created" those that were answered at all, however many answers were    *)
(* lost on the way (the counter of submitOne's caller in main.go).         *)
THEOREM CountersAreTrue == DemoSpec => []CountersTellPairs
PROOF
  <1>1. DemoSpec => []IInv /\ []SameTaskIffSameKey
    BY DemoIsAClient, Invariance, SameTask, PTL
  <1>2. IInv /\ SameTaskIffSameKey /\ DemoInv /\ [DemoNext]_dvars => DemoInv'
    BY DemoInvStep
  <1>3. IInv /\ SameTaskIffSameKey /\ DemoInv /\ CountInv /\ [DemoNext]_dvars => CountInv'
    BY CountStep
  <1> QED
    BY <1>1, <1>2, <1>3, DemoInvInit, CountInit, CountsSpeakTrue, PTL DEF DemoSpec

---------------------------------------------------------------------------
(* The process.                                                            *)

(* Where main is tells what was started, signalled and shut down.          *)
ExitInv ==
    /\ shut \in BOOLEAN
    /\ main \in {"environment", "ticker"} => loop = "idle" /\ cut = {} /\ n = 0 /\ ~shut
    /\ main = "environment" => listener = "none" /\ scrapes = {}
    /\ main = "shutdown" => /\ loop = "stopped" /\ stopping /\ shut
                            /\ listener # "serving" /\ cut = {}
    /\ main = "loop" => cut = {} /\ ~shut
    /\ ExitTellsWhy

(* The process is read before the first tick.                              *)
LEMMA ExitInit == ProducerInit => ExitInv
PROOF
  BY DEF ProducerInit, DemoInit, ExitInv, ExitTellsWhy, Running, Ends

(* The steps of the process.                                               *)
LEMMA ExitStep ==
    ASSUME ExitInv, [ProducerNext]_pvars
    PROVE  ExitInv'
PROOF
  <1> USE DEF ExitInv, ExitTellsWhy, Running, Ends
  <1>1. CASE Environment
    BY <1>1 DEF Environment, dvars, demo
  <1>2. CASE BadURL \/ NewTicker
    <2>1. UNCHANGED <<text, listener, shut, scrapes, loop, stopping, n>>
      BY <1>2 DEF BadURL, NewTicker, dvars, demo
    <2>2. CASE BadURL
      BY <2>1, <2>2 DEF BadURL, Exit
    <2>3. CASE NewTicker
      <3>1. /\ main = "ticker"
            /\ \/ main' = "loop" /\ cut' = cut
               \/ main' = "panic" /\ text = "zero or less"
        BY <2>3 DEF NewTicker, Exit, envDur
      <3> QED
        BY <2>1, <3>1
    <2> QED
      BY <1>2, <2>2, <2>3
  <1>3. CASE Ticked \/ SubmitReturns
    <2>1. /\ main = "loop" /\ main' = main
          /\ cut' = cut /\ shut' = shut
      BY <1>3 DEF Ticked, SubmitReturns, process
    <2> QED
      BY <2>1
  <1>4. CASE Done
    BY <1>4 DEF Done, Stop
  <1>5. CASE ShutdownDone \/ ShutdownTimeout
    BY <1>5 DEF ShutdownDone, ShutdownTimeout, Exit, dvars, demo
  <1>6. CASE Listen \/ ListenerFails
    <2>1. /\ Running /\ listener # "none"
          /\ UNCHANGED <<main, text, shut, scrapes, cut, loop, stopping, n>>
      BY <1>6 DEF Listen, ListenerFails, dvars, demo
    <2>2. shut => listener' # "serving"
      BY <1>6 DEF Listen, ListenerFails
    <2>3. main # "environment" /\ main \notin Ends /\ main' = main
      BY <2>1
    <2> QED
      BY <2>1, <2>2, <2>3
  <1>7. CASE \E s \in Scrapers : Scrape(s) \/ ScrapeEnds(s)
    <2>1. /\ UNCHANGED <<main, text, listener, shut, cut, loop, stopping, n>>
          /\ main # "environment"
      BY <1>7 DEF Scrape, ScrapeEnds, dvars, demo
    <2> QED
      BY <2>1
  <1>8. CASE Signal
    BY <1>8 DEF Signal, SignalDemo, process
  <1>9. CASE Elsewhere \/ UNCHANGED pvars
    <2>1. UNCHANGED <<main, text, listener, shut, scrapes, cut, loop, stopping, n>>
      BY <1>9 DEF Elsewhere, ServerStep, process, pvars, dvars, demo
    <2> QED
      BY <2>1
  <1> QED
    BY <1>1, <1>2, <1>3, <1>4, <1>5, <1>6, <1>7, <1>8, <1>9 DEF ProducerNext

(* Whatever the process does, it submits as module Demo says.              *)
LEMMA ProducerStep == [ProducerNext]_pvars => [DemoNext]_dvars
PROOF
  BY DEF ProducerNext, pvars, DemoNext, Environment, BadURL, NewTicker, Ticked,
         SubmitReturns, Done, ShutdownDone, ShutdownTimeout, Listen, ListenerFails,
         Scrape, ScrapeEnds, Signal, Elsewhere

(* The process of flowhand-demo is an implementation of its loop, so what  *)
(* is proved of the loop holds however the process starts, serves and ends *)
(* (main of main.go).                                                      *)
THEOREM ProducerRunsLoop == FairProducer => DemoSpec
PROOF
  <1>1. ProducerInit => DemoInit
    BY DEF ProducerInit
  <1> QED
    BY <1>1, ProducerStep, PTL DEF FairProducer, DemoSpec

(* The exit status tells why the process ended, whenever Shutdown takes    *)
(* its last look at the connections: it ends with no submit under way, and *)
(* after a signal no reader of the metrics is cut off unseen.              *)
THEOREM ExitIsTrue == FairProducer => []ExitTellsWhy
PROOF
  <1>1. ExitInv => ExitTellsWhy
    BY DEF ExitInv
  <1> QED
    BY <1>1, ExitInit, ExitStep, PTL DEF FairProducer

(* The running process raises no false alarm and counts what it was told.  *)
COROLLARY ProducerIsTrue == FairProducer => []NoFalseAlarm /\ []CountersTellPairs
PROOF
  BY ProducerRunsLoop, NoAlarm, CountersAreTrue, PTL
=============================================================================
