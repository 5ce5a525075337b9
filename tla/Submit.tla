------------------------------ MODULE Submit -------------------------------
(***************************************************************************)
(* POST /v1/tasks and GET /v1/tasks/{id}, from the moment the API handler  *)
(* calls the task service until the client has its answer.                 *)
(*                                                                         *)
(* A request is one HTTP attempt.  A client that retries sends another     *)
(* request with the same key, possibly while the server still works on the *)
(* first one.  The INSERT runs in Postgres: the statement of a request     *)
(* whose server has stopped waiting (cancelled context, broken connection, *)
(* crash) may still commit later.                                          *)
(***************************************************************************)
EXTENDS Tasks

CONSTANT Requests

VARIABLES
    tasks,   \* the tasks table
    pc,      \* where the server is in each request
    cmd,     \* what each request asks for
    t,       \* the aggregate each request holds: minted, then maybe read
    sql,     \* the INSERT statement of each request, as Postgres sees it
    client,  \* what the sender of each request has seen
    clock    \* seconds; a response carries created_at in seconds

vars == <<tasks, pc, cmd, t, sql, client, clock>>

Outcome == {"ok", "not_found", "error"}
InFlight == {"mint", "insert", "append", "replay", "read"} \cup Outcome

NoCommand == [op |-> "none", key |-> NoKey, id |-> NoId]
Command ==
    [op : {"submit"}, key : Keys \cup {NoKey}, id : {NoId}]
      \cup [op : {"get"}, key : {NoKey}, id : Ids]

(* The types: only a minted id reaches a statement, hence the table, and   *)
(* an aggregate never carries a column of the table it should not show.    *)
TypeOK ==
    /\ tasks \subseteq Row
    /\ pc \in [Requests -> {"free", "done"} \cup InFlight]
    /\ cmd \in [Requests -> Command \cup {NoCommand}]
    /\ t \in [Requests -> Task]
    /\ sql \in [Requests -> {"none", "sent", "committed", "conflict", "aborted"}]
    /\ client \in [Requests -> {"waiting", "lost"} \cup Outcome]
    /\ clock \in Time

Init ==
    /\ tasks = {}
    /\ pc = [r \in Requests |-> "free"]
    /\ cmd = [r \in Requests |-> NoCommand]
    /\ t = [r \in Requests |-> NoTask]
    /\ sql = [r \in Requests |-> "none"]
    /\ client = [r \in Requests |-> "waiting"]
    /\ clock = 0

Move(r, from, to) == pc[r] = from /\ pc' = [pc EXCEPT ![r] = to]

---------------------------------------------------------------------------
(* The server's steps in one request.                                      *)

(* A decoded and validated request reaches the handler.                    *)
Receive(r, c) ==
    /\ Move(r, "free", IF c.op = "submit" THEN "mint" ELSE "read")
    /\ cmd' = [cmd EXCEPT ![r] = c]
    /\ UNCHANGED <<tasks, t, sql, client, clock>>

(* newID and now, then WithinTx, which is fn(ctx): the INSERT is sent on a *)
(* pool connection, outside any transaction.                               *)
Mint(r, id) ==
    /\ Move(r, "mint", "insert")
    /\ t' = [t EXCEPT ![r] = [id |-> id, createdAt |-> clock]]
    /\ sql' = [sql EXCEPT ![r] = "sent"]
    /\ UNCHANGED <<tasks, cmd, client, clock>>

MintFails(r) ==
    /\ Move(r, "mint", "error")
    /\ UNCHANGED <<tasks, cmd, t, sql, client, clock>>

(* Insert returns nil.  (Mutant: the INSERT is not waited for.)            *)
Inserted_MutNoWait(r) ==
    /\ sql[r] \in {"sent", "committed"}
    /\ Move(r, "insert", "append")
    /\ UNCHANGED <<tasks, cmd, t, sql, client, clock>>

Inserted(r) ==
    /\ sql[r] = "committed"
    /\ Move(r, "insert", "append")
    /\ UNCHANGED <<tasks, cmd, t, sql, client, clock>>

(* Insert returns ErrConflict: the index does not say whether it was the   *)
(* primary key or the idempotency key.  Only a keyed request replays.      *)
(* (Mutant: the conflict is taken for success.)                            *)
Conflicted_MutSwallowed(r) ==
    /\ sql[r] = "conflict"
    /\ Move(r, "insert", "append")
    /\ UNCHANGED <<tasks, cmd, t, sql, client, clock>>

Conflicted(r) ==
    /\ sql[r] = "conflict"
    /\ Move(r, "insert", IF cmd[r].key = NoKey THEN "error" ELSE "replay")
    /\ UNCHANGED <<tasks, cmd, t, sql, client, clock>>

(* Insert returns any other error.  Nobody knows what the statement did:   *)
(* it may have failed, have committed, or still run.                       *)
InsertFails(r) ==
    /\ Move(r, "insert", "error")
    /\ UNCHANGED <<tasks, cmd, t, sql, client, clock>>

(* The outbox discards the event; Submit answers the aggregate it minted.  *)
AppendEvent(r) ==
    /\ Move(r, "append", "ok")
    /\ UNCHANGED <<tasks, cmd, t, sql, client, clock>>

(* The replay read, on a connection of its own.  (Mutant: the answer takes *)
(* the id of the stored task but the creation time of this attempt.)       *)
Replay_MutOwnTime(r) ==
    \E row \in GetTaskByIdempotencyKey(tasks, cmd[r].key) :
        /\ Move(r, "replay", "ok")
        /\ t' = [t EXCEPT ![r].id = row.id]
        /\ UNCHANGED <<tasks, cmd, sql, client, clock>>

Replay(r) ==
    \E row \in GetTaskByIdempotencyKey(tasks, cmd[r].key) :
        /\ Move(r, "replay", "ok")
        /\ t' = [t EXCEPT ![r] = toDomain(row)]
        /\ UNCHANGED <<tasks, cmd, sql, client, clock>>

(* No row (the collision was on the primary key) or a database error: the  *)
(* request fails, it never answers a zero Task.                            *)
ReplayFails(r) ==
    /\ Move(r, "replay", "error")
    /\ UNCHANGED <<tasks, cmd, t, sql, client, clock>>

(* Querier.Get: the row, the typed 404, or an error.                       *)
Get(r) ==
    \E row \in GetTaskByID(tasks, cmd[r].id) :
        /\ Move(r, "read", "ok")
        /\ t' = [t EXCEPT ![r] = toDomain(row)]
        /\ UNCHANGED <<tasks, cmd, sql, client, clock>>

GetNotFound(r) ==
    /\ GetTaskByID(tasks, cmd[r].id) = {}
    /\ Move(r, "read", "not_found")
    /\ UNCHANGED <<tasks, cmd, t, sql, client, clock>>

GetFails(r) ==
    /\ Move(r, "read", "error")
    /\ UNCHANGED <<tasks, cmd, t, sql, client, clock>>

(* The response is written; a client that has gone does not see it.        *)
Respond(r) ==
    /\ pc[r] \in Outcome
    /\ pc' = [pc EXCEPT ![r] = "done"]
    /\ client' = [client EXCEPT ![r] = IF @ = "waiting" THEN pc[r] ELSE @]
    /\ UNCHANGED <<tasks, cmd, t, sql, clock>>

---------------------------------------------------------------------------
(* Postgres: one implicit transaction per statement.  now() is the start   *)
(* of that transaction, which lies between the mint and the commit.        *)

Commit(r, now) ==
    /\ sql[r] = "sent"
    /\ now \in t[r].createdAt .. clock
    /\ ~UniqueViolation(tasks, t[r].id, cmd[r].key)
    /\ tasks' = CreateTask(tasks, t[r], cmd[r].key, now)
    /\ sql' = [sql EXCEPT ![r] = "committed"]
    /\ UNCHANGED <<pc, cmd, t, client, clock>>

Conflict(r) ==
    /\ sql[r] = "sent"
    /\ UniqueViolation(tasks, t[r].id, cmd[r].key)
    /\ sql' = [sql EXCEPT ![r] = "conflict"]
    /\ UNCHANGED <<tasks, pc, cmd, t, client, clock>>

(* Any other end without effect: rejected data, a lost backend, a          *)
(* connection that was never acquired.                                     *)
Abort(r) ==
    /\ sql[r] = "sent"
    /\ sql' = [sql EXCEPT ![r] = "aborted"]
    /\ UNCHANGED <<tasks, pc, cmd, t, client, clock>>

---------------------------------------------------------------------------
(* The environment.                                                        *)

(* The client times out or its connection breaks; the server works on.     *)
Disconnect(r) ==
    /\ pc[r] \in InFlight
    /\ client[r] = "waiting"
    /\ client' = [client EXCEPT ![r] = "lost"]
    /\ UNCHANGED <<tasks, pc, cmd, t, sql, clock>>

(* The server process dies and is started again: it keeps no state.        *)
Crash ==
    /\ \E r \in Requests : pc[r] \in InFlight
    /\ pc' = [r \in Requests |-> IF pc[r] \in InFlight THEN "done" ELSE pc[r]]
    /\ client' = [r \in Requests |->
                    IF pc[r] \in InFlight /\ client[r] = "waiting"
                      THEN "lost" ELSE client[r]]
    /\ UNCHANGED <<tasks, cmd, t, sql, clock>>

Tick ==
    /\ clock < MaxTime
    /\ clock' = clock + 1
    /\ UNCHANGED <<tasks, pc, cmd, t, sql, client>>

---------------------------------------------------------------------------
Submitting(r) ==
    \/ \E id \in Ids : Mint(r, id)
    \/ MintFails(r)
    \/ Inserted(r) \/ Conflicted(r) \/ InsertFails(r)
    \/ AppendEvent(r)
    \/ Replay(r) \/ ReplayFails(r)

Reading(r) == Get(r) \/ GetNotFound(r) \/ GetFails(r)

Postgres(r) == (\E now \in Time : Commit(r, now)) \/ Conflict(r) \/ Abort(r)

Server(r) == Submitting(r) \/ Reading(r) \/ Respond(r)

Next ==
    \/ \E r \in Requests :
         \/ \E c \in Command : Receive(r, c)
         \/ Server(r)
         \/ Postgres(r)
         \/ Disconnect(r)
    \/ Crash
    \/ Tick

Spec == Init /\ [][Next]_vars

(* The steps that fairness may ask for (see module Pooled): a goroutine    *)
(* that can run does, and Postgres ends a statement it was sent.  Nothing  *)
(* bounds the wait for Postgres - there is no statement timeout and the    *)
(* server sets no write timeout - so giving up on a statement that still   *)
(* runs is never forced, nor is a failure of the mint, of a read or of the *)
(* client.                                                                 *)
Progress(r) ==
    \/ \E id \in Ids : Mint(r, id)
    \/ Inserted(r) \/ Conflicted(r)
    \/ sql[r] = "aborted" /\ InsertFails(r)
    \/ AppendEvent(r)
    \/ Replay(r)
    \/ GetTaskByIdempotencyKey(tasks, cmd[r].key) = {} /\ ReplayFails(r)
    \/ Get(r) \/ GetNotFound(r)
    \/ Respond(r)

---------------------------------------------------------------------------
(* Properties.                                                             *)

Submitted(r) == cmd[r].op = "submit"
Created(r)   == Submitted(r) /\ client[r] = "ok"

(* Two submits that were answered 201 name the same task exactly when they *)
(* carry the same idempotency key, whatever concurrent attempts, lost      *)
(* statements, crashes and retries lie between them; keyless submits never *)
(* share a task.  This is what the replay branch of Submit promises.       *)
SameTaskIffSameKey ==
    \A r, s \in Requests :
        r # s /\ Created(r) /\ Created(s) =>
            (t[r].id = t[s].id <=> cmd[r].key = cmd[s].key /\ cmd[r].key # NoKey)

(* A 201 is never given for a task that is not stored, under the key of    *)
(* the request: not when the statement was lost, nor after a crash.        *)
CreatedIsStored ==
    \A r \in Requests : Created(r) =>
        \E row \in tasks : row.id = t[r].id /\ row.key = cmd[r].key

(* Every row was inserted by the one statement of one submit: a request    *)
(* that failed, was cancelled or crashed stores at most one task, and an   *)
(* attempt that lost the race for a key stores none.                       *)
EachRowHasItsSubmit ==
    \A row \in tasks :
        \E r \in Requests :
            /\ Submitted(r) /\ sql[r] = "committed"
            /\ t[r].id = row.id /\ cmd[r].key = row.key
            /\ \A s \in Requests \ {r} : sql[s] = "committed" => t[s].id # row.id

(* Everything the server reads back of one task is the same: two replays,  *)
(* two GETs, or one of each, never disagree on created_at.  (The first     *)
(* answer, given by the request that stored the task, is not read back.)   *)
ReadBack(r) == client[r] = "ok" /\ sql[r] # "committed"
StableView ==
    \A r, s \in Requests :
        ReadBack(r) /\ ReadBack(s) /\ t[r].id = t[s].id => t[r] = t[s]

(* Once some client has been told of a task by a 201, no GET that reads    *)
(* the table afterwards answers 404 for it.                                *)
ReadYourWrites ==
    [][\A r, s \in Requests :
         pc[r] = "read" /\ pc'[r] = "not_found" /\ Created(s) =>
             cmd[r].id # t[s].id]_vars

(* If Postgres ends its statements and the server runs, every request that *)
(* was received is eventually over.                                        *)
Served == \A r \in Requests : pc[r] # "free" ~> pc[r] = "done"

(* What README.md says of a replay: the caller cannot tell it from the     *)
(* first submit, so two 201 answers under one key show the same task.      *)
ReplayIndistinguishable ==
    \A r, s \in Requests :
        Created(r) /\ Created(s) /\ cmd[r].key = cmd[s].key /\ cmd[r].key # NoKey =>
            t[r] = t[s]

---------------------------------------------------------------------------
(* The abstract promise this server implements.  A request has stored a    *)
(* task once its statement has committed, whoever knows of it.             *)
Asked    == {r \in Requests : Submitted(r)}
KeyOf    == [r \in Requests |-> cmd[r].key]
Accepted == [r \in Requests |-> IF sql[r] = "committed" THEN t[r].id ELSE NoId]
Told     == [r \in Requests |-> IF Created(r) THEN t[r].id ELSE NoId]

Promise == INSTANCE IdempotentSubmit
    WITH asked <- Asked, key <- KeyOf, accepted <- Accepted, told <- Told

ImplementsPromise == Promise!Spec

---------------------------------------------------------------------------
(* Why the properties hold: the table behaves like its two indexes, the    *)
(* committed statements own its rows, and where the server is in a request *)
(* says what its statement has done.                                       *)

IdUnique == \A a, b \in tasks : a.id = b.id => a = b

KeyUnique == \A a, b \in tasks : a.key = b.key /\ a.key # NoKey => a = b

OneOwner ==
    \A r, s \in Requests :
        sql[r] = "committed" /\ sql[s] = "committed" /\ r # s => t[r].id # t[s].id

Owned ==
    \A row \in tasks : \E r \in Requests :
        sql[r] = "committed" /\ t[r].id = row.id /\ cmd[r].key = row.key

Phase(r) ==
    /\ pc[r] = "free" => cmd[r] = NoCommand
    /\ pc[r] \in {"free", "mint"} => sql[r] = "none"
    /\ pc[r] \in {"mint", "insert", "append", "replay"} => Submitted(r)
    /\ pc[r] = "read" => ~Submitted(r)
    /\ pc[r] = "append" => sql[r] = "committed"
    /\ pc[r] = "replay" => sql[r] = "conflict" /\ cmd[r].key # NoKey
    /\ client[r] = "ok" => pc[r] = "done"
    /\ sql[r] # "none" => Submitted(r) /\ t[r].id \in Ids

Stored(r) ==
    sql[r] = "committed" =>
        \E row \in tasks : row.id = t[r].id /\ row.key = cmd[r].key

(* An answer that the statement of its own request did not produce was     *)
(* read from the table; for a submit, under its key.                       *)
Answer(r) ==
    (pc[r] = "ok" \/ client[r] = "ok") /\ sql[r] # "committed" =>
        \E row \in tasks :
            /\ t[r] = toDomain(row)
            /\ Submitted(r) => /\ sql[r] = "conflict"
                               /\ row.key = cmd[r].key
                               /\ row.key # NoKey

IInv ==
    /\ TypeOK
    /\ IdUnique /\ KeyUnique /\ OneOwner /\ Owned
    /\ \A r \in Requests : Phase(r) /\ Stored(r) /\ Answer(r)
=============================================================================
