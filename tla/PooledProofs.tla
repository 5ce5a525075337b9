---------------------------- MODULE PooledProofs ----------------------------
(***************************************************************************)
(* Submit on a pool of any size is Submit, so what is proved of Submit     *)
(* holds on the pool; no request holds one connection while it waits for   *)
(* another; and none is answered before its queries were.                  *)
(***************************************************************************)
EXTENDS Pooled, SubmitProofs, FiniteSetTheorems

USE ConnsAssumption

(* Every step on the pool is a step of Submit, or one of the pool alone.   *)
LEMMA PooledStep == [PooledNext]_pvars => [Next]_vars
PROOF
  <1> SUFFICES ASSUME [PooledNext]_pvars PROVE [Next]_vars
    OBVIOUS
  <1>1. ASSUME NEW r \in Requests, Acquire(r) PROVE UNCHANGED vars
    BY <1>1 DEF Acquire
  <1>2. ASSUME NEW r \in Requests, Refused(r) \/ GivenUp(r) PROVE Next
    BY <1>2 DEF Refused, GivenUp, Fails, Next, Server, Submitting, Reading
  <1>3. ASSUME NEW r \in Requests, Answered(r) PROVE Next
    BY <1>3 DEF Answered, Next, Server, Submitting, Reading
  <1>4. ASSUME NEW r \in Requests, Local(r) PROVE Next
    BY <1>4 DEF Local, Next, Server, Submitting
  <1>5. ASSUME NEW r \in Requests, Executed(r) PROVE Next
    BY <1>5 DEF Executed, Next
  <1>6. ASSUME NEW c, Destroyed(c) PROVE UNCHANGED vars
    BY <1>6 DEF Destroyed
  <1>7. CASE Close
    BY <1>7 DEF Close
  <1>8. CASE Restart
    BY <1>8 DEF Restart, Next
  <1>9. CASE Passes
    BY <1>9 DEF Passes, Next
  <1>10. CASE UNCHANGED pvars
    BY <1>10 DEF pvars
  <1> QED
    BY <1>1, <1>2, <1>3, <1>4, <1>5, <1>6, <1>7, <1>8, <1>9, <1>10
       DEF PooledNext

(* The pool changes nothing of what the requests, the table and the        *)
(* clients can do: it only decides when.                                   *)
THEOREM PooledImplementsSubmit == PooledSpec => ImplementsSubmit
PROOF
  <1>1. PooledInit => Init
    BY DEF PooledInit
  <1> QED
    BY <1>1, PooledStep, PTL DEF PooledSpec, Spec, ImplementsSubmit

(* Hence, on a pool of any size, two 201 answers name the same task        *)
(* exactly when they carry the same key.                                   *)
THEOREM PooledSameTask == PooledSpec => []SameTaskIffSameKey
PROOF
  BY PooledImplementsSubmit, SameTask, PTL DEF ImplementsSubmit

---------------------------------------------------------------------------
(* A step of the server in request r that uses no connection moves nobody  *)
(* who is at a query.                                                      *)
LEMMA LocalMoves ==
    ASSUME TypeOK, NEW r \in Requests, Local(r)
    PROVE  \A q \in Requests : pc[q] \in Query => pc'[q] = pc[q]
PROOF
  BY DEF Local, Receive, Mint, MintFails, AppendEvent, Respond, Disconnect,
         TypeOK, Move, Query, Outcome, InFlight

(* What follows a query moves only its own request.                        *)
LEMMA QueryMoves ==
    ASSUME TypeOK, NEW r \in Requests, Refused(r) \/ Answered(r) \/ GivenUp(r)
    PROVE  \A q \in Requests \ {r} : pc'[q] = pc[q]
PROOF
  BY DEF Refused, Answered, GivenUp, Fails, TypeOK, Move, Inserted, Conflicted,
         InsertFails, Replay, ReplayFails, Get, GetNotFound, GetFails

(* Connections that only change from in use to being destroyed, or go,     *)
(* keep the pool within its size.                                          *)
LEMMA NoGrowth ==
    ASSUME PoolTypeOK, IsFiniteSet(conns \cup dying),
           conns' \cup dying' \subseteq conns \cup dying,
           ran' \subseteq Requests \X Query, closed' \in BOOLEAN
    PROVE  PoolTypeOK' /\ IsFiniteSet(conns' \cup dying')
PROOF
  <1>1. /\ IsFiniteSet(conns' \cup dying')
        /\ Cardinality(conns' \cup dying') <= Cardinality(conns \cup dying)
    BY FS_Subset
  <1>2. /\ Cardinality(conns \cup dying) \in Nat
        /\ Cardinality(conns' \cup dying') \in Nat
    BY <1>1, FS_CardinalityType
  <1>3. Cardinality(conns' \cup dying') <= MaxConns
    BY <1>1, <1>2 DEF PoolTypeOK
  <1>4. conns' \subseteq Requests \X Query /\ dying' \subseteq Requests \X Query
    BY DEF PoolTypeOK
  <1> QED
    BY <1>1, <1>3, <1>4 DEF PoolTypeOK

(* A connection that is acquired had room.                                 *)
LEMMA OneMore ==
    ASSUME PoolTypeOK, TypeOK, IsFiniteSet(conns \cup dying),
           NEW r \in Requests, Acquire(r)
    PROVE  PoolTypeOK' /\ IsFiniteSet(conns' \cup dying')
PROOF
  <1> DEFINE S == conns \cup dying
  <1>1. conns' \cup dying' = S \cup {Conn(r)}
    BY DEF Acquire
  <1>2. /\ IsFiniteSet(S \cup {Conn(r)})
        /\ Cardinality(S \cup {Conn(r)}) \in {Cardinality(S), Cardinality(S) + 1}
    BY FS_AddElement
  <1>3. Cardinality(S) \in Nat /\ Cardinality(S) < MaxConns
    BY FS_CardinalityType DEF Acquire, HasRoom
  <1>4. Cardinality(S \cup {Conn(r)}) <= MaxConns
    BY <1>2, <1>3
  <1>5. Conn(r) \in Requests \X Query
    BY DEF Acquire, Waiting, Conn
  <1>6. conns' \subseteq Requests \X Query /\ dying' \subseteq Requests \X Query
    BY <1>5 DEF Acquire, PoolTypeOK
  <1>7. ran' \subseteq Requests \X Query /\ closed' \in BOOLEAN
    BY <1>5 DEF Acquire, PoolTypeOK
  <1> QED
    BY <1>1, <1>2, <1>4, <1>6, <1>7 DEF PoolTypeOK

---------------------------------------------------------------------------
(* The pool in order: the invariant but for the answers, with the          *)
(* finiteness of the set it counts; and all of the invariant.              *)
SizedPool ==
    /\ PoolTypeOK
    /\ NoHoldAndWait
    /\ conns \subseteq ran
    /\ IsFiniteSet(conns \cup dying)

FinitePool == SizedPool /\ \A r \in Requests : QueriesRan(r)

(* The empty pool is within its size, and nobody holds anything.           *)
LEMMA FinitePoolInit == PooledInit => FinitePool
PROOF
  <1> SUFFICES ASSUME PooledInit PROVE FinitePool
    OBVIOUS
  <1>1. conns \cup dying = {}
    BY DEF PooledInit
  <1>2. IsFiniteSet(conns \cup dying) /\ Cardinality(conns \cup dying) = 0
    BY <1>1, FS_EmptySet
  <1>3. PoolTypeOK
    <2>1. Cardinality(conns \cup dying) <= MaxConns
      BY <1>2
    <2>2. /\ conns \subseteq Requests \X Query /\ dying \subseteq Requests \X Query
          /\ ran \subseteq Requests \X Query /\ closed \in BOOLEAN
      BY DEF PooledInit
    <2> QED
      BY <2>1, <2>2 DEF PoolTypeOK
  <1>4. NoHoldAndWait /\ conns \subseteq ran /\ \A r \in Requests : QueriesRan(r)
    BY DEF PooledInit, NoHoldAndWait, QueriesRan, Says, Init
  <1> QED
    BY <1>2, <1>3, <1>4 DEF FinitePool, SizedPool

(* Taking, releasing and losing connections keeps the pool in order.       *)
LEMMA SizedPoolStep ==
    ASSUME TypeOK, SizedPool, [PooledNext]_pvars
    PROVE  SizedPool'
PROOF
  <1> USE DEF SizedPool, pool
  <1>1. ASSUME NEW r \in Requests, Acquire(r) PROVE SizedPool'
    <2>1. PoolTypeOK' /\ IsFiniteSet(conns' \cup dying')
      BY <1>1, OneMore
    <2>2. NoHoldAndWait'
      BY <1>1 DEF Acquire, vars, NoHoldAndWait, Conn
    <2>3. (conns \subseteq ran)'
      BY <1>1 DEF Acquire, vars
    <2> QED
      BY <2>1, <2>2, <2>3
  <1>2. ASSUME NEW r \in Requests, Refused(r) PROVE SizedPool'
    <2>1. conns' = conns /\ dying' = dying /\ ran' = ran /\ closed' = closed
      BY <1>2 DEF Refused
    <2>2. PoolTypeOK' /\ IsFiniteSet(conns' \cup dying')
      BY <2>1, NoGrowth DEF PoolTypeOK
    <2>3. \A q \in Requests \ {r} : pc'[q] = pc[q]
      BY <1>2, QueryMoves
    <2>4. \A c \in conns : c[1] \in Requests \ {r}
      BY <1>2 DEF Refused, Waiting, Conn, NoHoldAndWait, PoolTypeOK
    <2>5. NoHoldAndWait'
      BY <2>1, <2>3, <2>4 DEF NoHoldAndWait
    <2>6. (conns \subseteq ran)'
      BY <2>1
    <2> QED
      BY <2>2, <2>5, <2>6
  <1>3. ASSUME NEW r \in Requests, Answered(r) \/ GivenUp(r) PROVE SizedPool'
    <2>1. /\ Conn(r) \in conns /\ conns' = conns \ {Conn(r)}
          /\ dying' \subseteq dying \cup {Conn(r)}
          /\ ran' = ran /\ closed' = closed
      BY <1>3 DEF Answered, GivenUp, GiveBack, Discard
    <2>2. PoolTypeOK' /\ IsFiniteSet(conns' \cup dying')
      BY <2>1, NoGrowth DEF PoolTypeOK
    <2>3. \A q \in Requests \ {r} : pc'[q] = pc[q]
      BY <1>3, QueryMoves
    <2>4. \A c \in conns' : c[1] \in Requests \ {r}
      BY <2>1 DEF Conn, NoHoldAndWait, PoolTypeOK
    <2>5. NoHoldAndWait'
      BY <2>1, <2>3, <2>4 DEF NoHoldAndWait
    <2>6. (conns \subseteq ran)'
      BY <2>1
    <2> QED
      BY <2>2, <2>5, <2>6
  <1>4. ASSUME NEW r \in Requests, Local(r) PROVE SizedPool'
    <2>1. conns' = conns /\ dying' = dying /\ ran' = ran /\ closed' = closed
      BY <1>4 DEF Local
    <2>2. PoolTypeOK' /\ IsFiniteSet(conns' \cup dying')
      BY <2>1, NoGrowth DEF PoolTypeOK
    <2>3. NoHoldAndWait'
      BY <1>4, <2>1, LocalMoves DEF NoHoldAndWait, PoolTypeOK
    <2>4. (conns \subseteq ran)'
      BY <2>1
    <2> QED
      BY <2>2, <2>3, <2>4
  <1>5. ASSUME NEW r \in Requests, Executed(r) PROVE SizedPool'
    <2>1. conns' = conns /\ dying' = dying /\ ran' = ran /\ closed' = closed
      BY <1>5 DEF Executed
    <2>2. PoolTypeOK' /\ IsFiniteSet(conns' \cup dying')
      BY <2>1, NoGrowth DEF PoolTypeOK
    <2>3. pc' = pc
      BY <1>5 DEF Executed, Postgres, Commit, Conflict, Abort
    <2>4. NoHoldAndWait' /\ (conns \subseteq ran)'
      BY <2>1, <2>3 DEF NoHoldAndWait
    <2> QED
      BY <2>2, <2>4
  <1>6. ASSUME NEW c \in Requests \X Query, Destroyed(c) PROVE SizedPool'
    <2>1. PoolTypeOK' /\ IsFiniteSet(conns' \cup dying')
      BY <1>6, NoGrowth DEF Destroyed, PoolTypeOK
    <2>2. NoHoldAndWait' /\ (conns \subseteq ran)'
      BY <1>6 DEF Destroyed, vars, NoHoldAndWait
    <2> QED
      BY <2>1, <2>2
  <1>7. CASE Close
    <2>1. PoolTypeOK' /\ IsFiniteSet(conns' \cup dying')
      BY <1>7, NoGrowth DEF Close, PoolTypeOK
    <2>2. NoHoldAndWait' /\ (conns \subseteq ran)'
      BY <1>7 DEF Close, vars, NoHoldAndWait
    <2> QED
      BY <2>1, <2>2
  <1>8. CASE Restart
    <2>1. conns' = {} /\ dying' = {} /\ closed' = FALSE /\ ran' = ran
      BY <1>8 DEF Restart
    <2>2. PoolTypeOK' /\ IsFiniteSet(conns' \cup dying')
      BY <2>1, NoGrowth DEF PoolTypeOK
    <2>4. NoHoldAndWait' /\ (conns \subseteq ran)'
      BY <2>1 DEF NoHoldAndWait
    <2> QED
      BY <2>2, <2>4
  <1>9. CASE Passes \/ UNCHANGED pvars
    <2>1. /\ conns' = conns /\ dying' = dying /\ ran' = ran /\ closed' = closed
          /\ pc' = pc
      BY <1>9 DEF Passes, Tick, pvars, vars
    <2> QED
      BY <2>1 DEF PoolTypeOK, NoHoldAndWait
  <1> QED
    BY <1>1, <1>2, <1>3, <1>4, <1>5, <1>6, <1>7, <1>8, <1>9 DEF PooledNext

(* A request whose statement is not undone, and that comes neither nearer  *)
(* to an answer nor to the event after its INSERT, keeps what is known of  *)
(* its queries.                                                            *)
LEMMA QueriesKept ==
    ASSUME NEW q \in Requests, QueriesRan(q),
           ran \subseteq ran', cmd'[q] = cmd[q],
           sql[q] = "committed" => sql'[q] = "committed",
           pc'[q] \in {pc[q], "done", "error"},
           client'[q] \in {pc[q], client[q], "lost"}
    PROVE  QueriesRan(q)'
PROOF
  BY DEF QueriesRan, Says, Heard, Submitted

(* The step of the server from one place of request r to the next: after a *)
(* query, the one it had a connection for.                                 *)
LEMMA QueriesAnswered ==
    ASSUME IInv, SizedPool, NEW r \in Requests, QueriesRan(r), Answered(r)
    PROVE  QueriesRan(r)'
PROOF
  <1>1. /\ <<r, pc[r]>> \in ran /\ ran' = ran /\ cmd' = cmd /\ sql' = sql
        /\ client' = client
    BY DEF Answered, GiveBack, Conn, SizedPool, Inserted, Conflicted, InsertFails,
           Replay, ReplayFails, Get, GetNotFound, GetFails
  <1>2. Phase(r) /\ pc \in [Requests -> {"free", "done"} \cup InFlight]
    BY DEF IInv, TypeOK
  <1> USE DEF Move
  <1>3. CASE Inserted(r) \/ Conflicted(r)
    BY <1>1, <1>2, <1>3 DEF Inserted, Conflicted, QueriesRan, Says, Heard, Submitted,
       Phase, InFlight, Outcome
  <1>4. CASE InsertFails(r) \/ ReplayFails(r) \/ GetFails(r)
    BY <1>1, <1>2, <1>4, QueriesKept DEF InsertFails, ReplayFails, GetFails
  <1>5. CASE Replay(r)
    BY <1>1, <1>2, <1>5 DEF Replay, QueriesRan, Says, Heard, Submitted, Phase
  <1>6. CASE Get(r) \/ GetNotFound(r)
    BY <1>1, <1>2, <1>6 DEF Get, GetNotFound, QueriesRan, Says, Heard, Submitted, Phase
  <1> QED
    BY <1>3, <1>4, <1>5, <1>6 DEF Answered

(* A step without a connection: only the event follows a query, the INSERT *)
(* that has committed, and the response says what was found before.        *)
LEMMA QueriesLocal ==
    ASSUME IInv, NEW r \in Requests, QueriesRan(r), Local(r)
    PROVE  QueriesRan(r)'
PROOF
  <1>1. ran' = ran
    BY DEF Local, pool
  <1>2. Phase(r) /\ TypeOK
    BY DEF IInv
  <1> USE DEF Move, TypeOK
  <1>3. CASE \E c \in Command : Receive(r, c)
    BY <1>1, <1>2, <1>3 DEF Receive, QueriesRan, Says, Phase
  <1>4. CASE \E id \in Ids : Mint(r, id)
    BY <1>1, <1>2, <1>4 DEF Mint, QueriesRan, Says, Phase
  <1>5. CASE MintFails(r)
    BY <1>1, <1>2, <1>5, QueriesKept DEF MintFails
  <1>6. CASE AppendEvent(r)
    BY <1>1, <1>2, <1>6 DEF AppendEvent, QueriesRan, Says, Heard, Submitted, Phase
  <1>7. CASE Respond(r)
    BY <1>1, <1>2, <1>7, QueriesKept DEF Respond
  <1>8. CASE Disconnect(r)
    BY <1>1, <1>2, <1>8, QueriesKept DEF Disconnect
  <1> QED
    BY <1>3, <1>4, <1>5, <1>6, <1>7, <1>8 DEF Local

(* What one request does leaves the others where they are.                 *)
LEMMA Others ==
    ASSUME TypeOK, NEW r \in Requests, NEW q \in Requests \ {r},
           Acquire(r) \/ Refused(r) \/ Answered(r) \/ GivenUp(r) \/ Local(r) \/ Executed(r)
    PROVE  /\ cmd'[q] = cmd[q] /\ sql'[q] = sql[q]
           /\ pc'[q] = pc[q] /\ client'[q] = client[q]
           /\ ran \subseteq ran'
PROOF
  <1> USE DEF TypeOK, Move, pool, vars
  <1>1. CASE Acquire(r)
    BY <1>1 DEF Acquire
  <1>2. CASE Refused(r) \/ GivenUp(r)
    BY <1>2 DEF Refused, GivenUp, Discard, Fails, InsertFails, ReplayFails, GetFails
  <1>3. CASE Answered(r)
    BY <1>3 DEF Answered, GiveBack, Inserted, Conflicted, InsertFails, Replay,
       ReplayFails, Get, GetNotFound, GetFails
  <1>4. CASE Local(r)
    BY <1>4 DEF Local, Receive, Mint, MintFails, AppendEvent, Respond, Disconnect
  <1>5. CASE Executed(r)
    BY <1>5 DEF Executed, Postgres, Commit, Conflict, Abort
  <1> QED
    BY <1>1, <1>2, <1>3, <1>4, <1>5

(* No step makes an answer of a query that did not run.                    *)
LEMMA QueriesStep ==
    ASSUME IInv, FinitePool, [PooledNext]_pvars, NEW q \in Requests
    PROVE  QueriesRan(q)'
PROOF
  <1>1. TypeOK /\ SizedPool /\ QueriesRan(q)
    BY DEF IInv, FinitePool
  <1>2. ASSUME NEW r \in Requests, r # q,
               \/ Acquire(r) \/ Refused(r) \/ Answered(r)
               \/ GivenUp(r) \/ Local(r) \/ Executed(r)
        PROVE  QueriesRan(q)'
    BY <1>1, <1>2, Others, QueriesKept
  <1>3. CASE Acquire(q)
    BY <1>1, <1>3, QueriesKept DEF Acquire, vars
  <1>4. CASE Refused(q) \/ GivenUp(q)
    <2>1. ran' = ran /\ cmd' = cmd /\ sql' = sql /\ client' = client /\ pc'[q] = "error"
      BY <1>1, <1>4 DEF Refused, GivenUp, Discard, Fails, InsertFails, ReplayFails,
         GetFails, Move, TypeOK, pool
    <2> QED
      BY <1>1, <2>1, QueriesKept
  <1>5. CASE Answered(q)
    BY <1>1, <1>5, QueriesAnswered
  <1>6. CASE Local(q)
    BY <1>1, <1>6, QueriesLocal
  <1>7. CASE Executed(q)
    <2>1. /\ ran' = ran /\ cmd' = cmd /\ pc' = pc /\ client' = client
          /\ sql[q] # "committed"
      BY <1>7 DEF Executed, Postgres, Commit, Conflict, Abort, pool
    <2> QED
      BY <1>1, <2>1, QueriesKept
  <1>8. CASE (\E c \in Requests \X Query : Destroyed(c)) \/ Close \/ Passes \/ UNCHANGED pvars
    <2>1. ran' = ran /\ cmd' = cmd /\ pc' = pc /\ client' = client /\ sql' = sql
      BY <1>8 DEF Destroyed, Close, Passes, Tick, pvars, vars, pool
    <2> QED
      BY <1>1, <2>1, QueriesKept
  <1>9. CASE Restart
    <2>1. /\ ran' = ran /\ cmd' = cmd /\ sql' = sql
          /\ pc'[q] \in {pc[q], "done"} /\ client'[q] \in {client[q], "lost"}
      BY <1>9 DEF Restart, Crash, vars
    <2> QED
      BY <1>1, <2>1, QueriesKept
  <1> QED
    BY <1>2, <1>3, <1>4, <1>5, <1>6, <1>7, <1>8, <1>9 DEF PooledNext

(* No request waits for a connection while it holds one, a request that is *)
(* over has left none behind, the pool keeps its size, and what was asked  *)
(* of Postgres is known at each place of a request.                        *)
THEOREM PoolIsSafe == PooledSpec => []PoolInv
PROOF
  <1>1. PooledInit => FinitePool
    BY FinitePoolInit
  <1>2. IInv /\ FinitePool /\ [PooledNext]_pvars => FinitePool'
    BY SizedPoolStep, QueriesStep DEF FinitePool, IInv
  <1>3. PooledSpec => []IInv
    BY PooledImplementsSubmit, Invariance, PTL DEF ImplementsSubmit
  <1>4. FinitePool => PoolInv
    BY DEF FinitePool, SizedPool, PoolInv
  <1> QED
    BY <1>1, <1>2, <1>3, <1>4, PTL DEF PooledSpec

(* In particular the pool never holds more connections than MaxConns, the  *)
(* ones that are being destroyed included.                                 *)
THEOREM PoolNeverOverfull == PooledSpec => []PoolTypeOK
PROOF
  <1>1. PoolInv => PoolTypeOK
    BY DEF PoolInv
  <1> QED
    BY <1>1, PoolIsSafe, PTL

(* No request waits for a connection while it holds one, so the replay's   *)
(* second query cannot starve behind its own first.                        *)
THEOREM NoHold == PooledSpec => []NoHoldAndWait
PROOF
  <1>1. PoolInv => NoHoldAndWait
    BY DEF PoolInv
  <1> QED
    BY <1>1, PoolIsSafe, PTL

(* And a client is told of a task, or that there is none, only by a        *)
(* request whose queries all ran: one that the pool refused at either of   *)
(* them, or that was given up while it waited, is answered by an error.    *)
THEOREM AnswersHaveQueries == PooledSpec => []NoAnswerWithoutQuery
PROOF
  <1>1. PoolInv => NoAnswerWithoutQuery
    BY DEF PoolInv, QueriesRan, Says, NoAnswerWithoutQuery
  <1> QED
    BY <1>1, PoolIsSafe, PTL
=============================================================================
