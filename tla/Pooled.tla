------------------------------- MODULE Pooled -------------------------------
(***************************************************************************)
(* Submit on a pool of connections.                                        *)
(*                                                                         *)
(* WithinTx opens no transaction, so every statement takes a connection of *)
(* its own: a submit whose INSERT conflicts gives one back and then waits  *)
(* for another to read the task it is to replay.  A query that is given up *)
(* while it runs loses its connection, which keeps its place in the pool   *)
(* until it is destroyed.  The server closes the pool after the drain,     *)
(* with requests still in flight when the drain has timed out.             *)
(*                                                                         *)
(* Each action is an action of Submit with what it does to the pool, or a  *)
(* step of the pool that leaves the requests alone.                        *)
(***************************************************************************)
EXTENDS Submit, FiniteSets

CONSTANT MaxConns

ASSUME ConnsAssumption == MaxConns \in Nat \ {0}

VARIABLES
    conns,    \* the connections in use, each named for its query
    dying,    \* those being destroyed
    ran,      \* the queries that were given a connection so far
    closed    \* Close was called on the pool

pool  == <<conns, dying, ran, closed>>
pvars == <<vars, pool>>

Query == {"insert", "replay", "read"}

Conn(r)    == <<r, pc[r]>>
Waiting(r) == pc[r] \in Query /\ Conn(r) \notin conns
HasRoom    == Cardinality(conns \cup dying) < MaxConns

(* The types, and the size of the pool: a connection that is being         *)
(* destroyed still counts.                                                 *)
PoolTypeOK ==
    /\ conns \subseteq Requests \X Query
    /\ dying \subseteq Requests \X Query
    /\ Cardinality(conns \cup dying) <= MaxConns
    /\ ran \subseteq Requests \X Query
    /\ closed \in BOOLEAN

PooledInit ==
    /\ Init
    /\ conns = {} /\ dying = {} /\ ran = {}
    /\ closed = FALSE

---------------------------------------------------------------------------
(* The pool.                                                               *)

(* A waiting query is given a connection, an idle one or a new one.  The   *)
(* pool serves its waiters in order; here any of them may be next.         *)
(* (Mutant: a pool of unlimited size.)                                     *)
Acquire_MutUnbounded(r) ==
    /\ Waiting(r) /\ ~closed
    /\ conns' = conns \cup {Conn(r)}
    /\ ran' = ran \cup {Conn(r)}
    /\ UNCHANGED <<vars, dying, closed>>

Acquire(r) ==
    /\ Waiting(r) /\ HasRoom /\ ~closed
    /\ conns' = conns \cup {Conn(r)}
    /\ ran' = ran \cup {Conn(r)}
    /\ UNCHANGED <<vars, dying, closed>>

(* The answer was read, so the connection is idle again; a closed pool     *)
(* destroys it instead.                                                    *)
GiveBack(r) ==
    /\ Conn(r) \in conns
    /\ conns' = conns \ {Conn(r)}
    /\ dying' = IF closed THEN dying \cup {Conn(r)} ELSE dying
    /\ UNCHANGED <<ran, closed>>

(* The query was given up, or its connection broke: a busy connection is   *)
(* not used again.  (Mutant: its place is never vacated.)                  *)
Discard_MutLeaks(r) ==
    /\ Conn(r) \in conns
    /\ UNCHANGED pool

Discard(r) ==
    /\ Conn(r) \in conns
    /\ conns' = conns \ {Conn(r)}
    /\ dying' = dying \cup {Conn(r)}
    /\ UNCHANGED <<ran, closed>>

Destroyed(c) ==
    /\ c \in dying
    /\ dying' = dying \ {c}
    /\ UNCHANGED <<vars, conns, ran, closed>>

Close ==
    /\ ~closed
    /\ closed' = TRUE
    /\ UNCHANGED <<vars, conns, dying, ran>>

---------------------------------------------------------------------------
(* The server's steps in one request.                                      *)

(* Those that use no connection.                                           *)
Local(r) ==
    /\ \/ \E c \in Command : Receive(r, c)
       \/ \E id \in Ids : Mint(r, id)
       \/ MintFails(r) \/ AppendEvent(r) \/ Respond(r) \/ Disconnect(r)
    /\ UNCHANGED pool

Fails(r) == InsertFails(r) \/ ReplayFails(r) \/ GetFails(r)

(* Postgres has answered, be it with an error.  (Mutant: the connection of *)
(* the INSERT is kept until the request is over, as one transaction around *)
(* the whole of Submit would keep it.)                                     *)
Answered_MutHolds(r) ==
    /\ \/ Inserted(r) \/ Conflicted(r)
       \/ sql[r] = "aborted" /\ InsertFails(r)
       \/ Replay(r) \/ ReplayFails(r)
       \/ Get(r) \/ GetNotFound(r) \/ GetFails(r)
    /\ IF pc'[r] = "replay" THEN UNCHANGED pool ELSE GiveBack(r)
    /\ Conn(r) \in conns

Answered(r) ==
    /\ \/ Inserted(r) \/ Conflicted(r)
       \/ sql[r] = "aborted" /\ InsertFails(r)
       \/ Replay(r) \/ ReplayFails(r)
       \/ Get(r) \/ GetNotFound(r) \/ GetFails(r)
    /\ GiveBack(r)

(* Given up while the query runs: the caller has gone, or the connection   *)
(* has.                                                                    *)
GivenUp(r) == Fails(r) /\ Discard(r)

(* No connection: the caller has gone, Postgres refuses one, or the pool   *)
(* is closed.  Nothing was sent.  (Mutants: the lost query is taken for    *)
(* one that succeeded; any error of a SELECT is taken for no row.)         *)
Refused_MutSwallowed(r) ==
    /\ Waiting(r)
    /\ Move(r, pc[r], "append")
    /\ UNCHANGED <<tasks, cmd, t, sql, client, clock, pool>>

Refused_MutNotFound(r) ==
    /\ Waiting(r)
    /\ \/ InsertFails(r) \/ ReplayFails(r)
       \/ /\ Move(r, "read", "not_found")
          /\ UNCHANGED <<tasks, cmd, t, sql, client, clock>>
    /\ UNCHANGED pool

Refused(r) == Waiting(r) /\ Fails(r) /\ UNCHANGED pool

(* Postgres works on what it was sent, whether or not the connection it    *)
(* came on still exists.                                                   *)
Executed(r) == <<r, "insert">> \in ran /\ Postgres(r) /\ UNCHANGED pool

(* The process ends, by a crash or after Close, and another one starts.    *)
(* Close waits for the connections, not for the requests: those that are   *)
(* between two queries end with the process, as in a crash.                *)
Restart ==
    /\ \/ Crash
       \/ /\ closed /\ conns \cup dying = {}
          /\ \A r \in Requests : pc[r] \notin InFlight
          /\ UNCHANGED vars
    /\ conns' = {} /\ dying' = {} /\ closed' = FALSE
    /\ UNCHANGED ran

Passes == Tick /\ UNCHANGED pool

PooledNext ==
    \/ \E r \in Requests :
         \/ Acquire(r) \/ Refused(r)
         \/ Answered(r) \/ GivenUp(r)
         \/ Local(r) \/ Executed(r)
    \/ \E c \in Requests \X Query : Destroyed(c)
    \/ Close
    \/ Restart
    \/ Passes

PooledSpec == PooledInit /\ [][PooledNext]_pvars

(* Fairness: as in Submit; a free place goes to a waiter, who learns that  *)
(* the pool is closed when there is one; and the destruction of a          *)
(* connection is cut off after fifteen seconds.  No query is forced to be  *)
(* given up.                                                               *)
Advance(r) ==
    \/ Acquire(r)
    \/ closed /\ HasRoom /\ Refused(r)
    \/ Progress(r) /\ (Local(r) \/ Answered(r))

PooledFairSpec ==
    /\ PooledSpec
    /\ \A r \in Requests : WF_pvars(Advance(r)) /\ WF_pvars(Executed(r))
    /\ \A c \in Requests \X Query : WF_pvars(Destroyed(c))

---------------------------------------------------------------------------
(* Properties.  Served of module Submit is one of them: every request that *)
(* was received is over at last, with as little as one connection for all  *)
(* of them, because the replay's second query always finds its turn.       *)

(* A connection in use is used by the query its request is at: a request   *)
(* that waits for a connection holds none, and one that has its answer has *)
(* left none behind.                                                       *)
NoHoldAndWait == \A c \in conns : pc[c[1]] = c[2]

(* An answer other than an error is what Postgres said, in all the queries *)
(* it takes: a 200 or a 404 follows the SELECT; a 201 the INSERT that has  *)
(* stored the task, or else both queries of a replay.  A request refused a *)
(* connection at any of them, its pool closed after a drain that timed out *)
(* or its caller gone, is not answered as if it had found nothing, nor     *)
(* with the task it has merely minted (commander.go:78-101,                *)
(* querier.go:30-42, postgres.go:67-72).                                   *)
Heard(r) ==
    IF Submitted(r)
    THEN <<r, "insert">> \in ran /\ (sql[r] = "committed" \/ <<r, "replay">> \in ran)
    ELSE <<r, "read">> \in ran

NoAnswerWithoutQuery ==
    \A r \in Requests :
        /\ client[r] = "ok" => Heard(r)
        /\ client[r] = "not_found" => <<r, "read">> \in ran

(* Once the pool is closed the last of its connections goes, so Close      *)
(* returns and the process ends.                                           *)
CloseReturns == closed ~> conns \cup dying = {}

(* What the clients see of the pool is nothing new.                        *)
ImplementsSubmit == Spec

(* The invariant that gives the two safety properties above: what was      *)
(* asked so far at each place of a request, be the answer still on its way *)
(* or with the client.                                                     *)
Says(r, outcome) == pc[r] = outcome \/ client[r] = outcome

QueriesRan(r) ==
    /\ pc[r] \in {"append", "replay"} => <<r, "insert">> \in ran
    /\ Says(r, "ok") => Heard(r)
    /\ Says(r, "not_found") => <<r, "read">> \in ran

PoolInv ==
    /\ PoolTypeOK
    /\ NoHoldAndWait
    /\ conns \subseteq ran
    /\ \A r \in Requests : QueriesRan(r)
=============================================================================
