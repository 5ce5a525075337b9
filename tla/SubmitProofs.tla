---------------------------- MODULE SubmitProofs ----------------------------
(***************************************************************************)
(* Proofs about Submit, for every set of requests, ids and keys and every  *)
(* bound on the clock: its invariant and what follows from it, and that it *)
(* implements IdempotentSubmit.                                            *)
(***************************************************************************)
EXTENDS Submit, TLAPS

USE IdsAssumption, KeysAssumption, TimeAssumption

(* Creating a row needs an id that no row has, and a key that no row has.  *)
LEMMA CreateTaskKeepsIndexes ==
    ASSUME IdUnique, KeyUnique,
           NEW a, NEW key, NEW now,
           ~UniqueViolation(tasks, a.id, key),
           tasks' = CreateTask(tasks, a, key, now)
    PROVE  IdUnique' /\ KeyUnique'
PROOF
  <1>1. PICK new : /\ new = [id |-> a.id, key |-> key, createdAt |-> now]
                   /\ tasks' = tasks \cup {new}
    BY DEF CreateTask
  <1>2. /\ \A row \in tasks : row.id # new.id
        /\ new.key # NoKey => \A row \in tasks : row.key # new.key
    BY <1>1 DEF UniqueViolation, IdTaken, KeyTaken
  <1> QED
    BY <1>1, <1>2 DEF IdUnique, KeyUnique

(* The types hold before the first request.                                *)
LEMMA TypeOKInit == Init => TypeOK
PROOF
  BY DEF Init, TypeOK, Time, Task, NoTask

(* The types need one fact more than themselves: only a minted id is sent. *)
LEMMA TypeOKStep ==
    ASSUME TypeOK, \A r \in Requests : Phase(r), [Next]_vars
    PROVE  TypeOK'
PROOF
  <1> USE DEF TypeOK, Move, InFlight, Outcome
  <1>1. ASSUME NEW r \in Requests, NEW c \in Command, Receive(r, c)
        PROVE  TypeOK'
    BY <1>1 DEF Receive
  <1>2. ASSUME NEW r \in Requests, NEW id \in Ids, Mint(r, id)
        PROVE  TypeOK'
    <2>1. [id |-> id, createdAt |-> clock] \in Task
      BY DEF Task
    <2> QED
      BY <1>2, <2>1 DEF Mint
  <1>3. ASSUME NEW r \in Requests,
               \/ MintFails(r) \/ Inserted(r) \/ Conflicted(r) \/ InsertFails(r)
               \/ AppendEvent(r) \/ ReplayFails(r) \/ GetNotFound(r) \/ GetFails(r)
        PROVE  TypeOK'
    BY <1>3 DEF MintFails, Inserted, Conflicted, InsertFails, AppendEvent,
                ReplayFails, GetNotFound, GetFails
  <1>4. ASSUME NEW r \in Requests, Replay(r) \/ Get(r)
        PROVE  TypeOK'
    <2>1. \A row \in tasks : toDomain(row) \in Task
      BY DEF toDomain, Row, Task
    <2> QED
      BY <1>4, <2>1
         DEF Replay, Get, GetTaskByIdempotencyKey, GetTaskByID
  <1>5. ASSUME NEW r \in Requests, Respond(r)
        PROVE  TypeOK'
    BY <1>5 DEF Respond
  <1>6. ASSUME NEW r \in Requests, NEW now \in Time, Commit(r, now)
        PROVE  TypeOK'
    <2>1. t[r].id \in Ids /\ cmd[r].key \in Keys \cup {NoKey}
      BY <1>6 DEF Commit, Phase, Command, NoCommand
    <2>2. [id |-> t[r].id, key |-> cmd[r].key, createdAt |-> now] \in Row
      BY <2>1 DEF Row
    <2> QED
      BY <1>6, <2>2 DEF Commit, CreateTask
  <1>7. ASSUME NEW r \in Requests, Conflict(r) \/ Abort(r) \/ Disconnect(r)
        PROVE  TypeOK'
    BY <1>7 DEF Conflict, Abort, Disconnect
  <1>8. CASE Crash
    BY <1>8 DEF Crash
  <1>9. CASE Tick
    BY <1>9 DEF Tick, Time
  <1>10. CASE UNCHANGED vars
    BY <1>10 DEF vars
  <1> QED
    BY <1>1, <1>2, <1>3, <1>4, <1>5, <1>6, <1>7, <1>8, <1>9, <1>10
       DEF Next, Server, Submitting, Reading, Postgres

---------------------------------------------------------------------------
(* The invariant holds of an empty table and of requests not yet received. *)
LEMMA IInvInit == Init => IInv
PROOF
  <1> SUFFICES ASSUME Init PROVE IInv
    OBVIOUS
  <1>1. TypeOK
    BY TypeOKInit
  <1>2. IdUnique /\ KeyUnique /\ OneOwner /\ Owned
    BY DEF Init, IdUnique, KeyUnique, OneOwner, Owned
  <1>3. \A r \in Requests : Phase(r) /\ Stored(r) /\ Answer(r)
    BY DEF Init, Phase, Stored, Answer, Submitted, NoCommand
  <1> QED
    BY <1>1, <1>2, <1>3 DEF IInv

(* A step of the server or of a client in request r, which leaves the      *)
(* table, the statements and the other requests alone, keeps the           *)
(* invariant if it keeps r's own part of it.                               *)
LEMMA LocalStep ==
    ASSUME IInv, TypeOK',
           NEW r \in Requests,
           tasks' = tasks, sql' = sql,
           sql[r] = "committed" => t'[r] = t[r] /\ cmd'[r] = cmd[r],
           \A q \in Requests \ {r} :
               /\ pc'[q] = pc[q] /\ cmd'[q] = cmd[q]
               /\ t'[q] = t[q] /\ client'[q] = client[q],
           Phase(r)', Answer(r)'
    PROVE  IInv'
PROOF
  <1>1. IdUnique' /\ KeyUnique'
    BY DEF IInv, IdUnique, KeyUnique
  <1>2. \A q \in Requests : sql[q] = "committed" => t'[q] = t[q] /\ cmd'[q] = cmd[q]
    OBVIOUS
  <1>3. OneOwner' /\ Owned'
    BY <1>2 DEF IInv, OneOwner, Owned
  <1>4. ASSUME NEW q \in Requests PROVE Stored(q)'
    BY <1>2 DEF IInv, Stored
  <1>5. ASSUME NEW q \in Requests \ {r} PROVE Phase(q)' /\ Answer(q)'
    BY DEF IInv, Phase, Answer, Submitted
  <1> QED
    BY <1>1, <1>3, <1>4, <1>5 DEF IInv

(* The statement of request r ends without a row: the table and what the   *)
(* server and the clients know stay as they are.                           *)
LEMMA StatementStep ==
    ASSUME IInv, TypeOK',
           NEW r \in Requests, NEW end \in {"conflict", "aborted"},
           sql[r] = "sent",
           sql' = [sql EXCEPT ![r] = end],
           UNCHANGED <<tasks, pc, cmd, t, client, clock>>
    PROVE  IInv'
PROOF
  <1>1. \A q \in Requests : sql'[q] = "committed" <=> sql[q] = "committed"
    BY DEF IInv, TypeOK
  <1>2. IdUnique' /\ KeyUnique' /\ OneOwner' /\ Owned'
    BY <1>1 DEF IInv, IdUnique, KeyUnique, OneOwner, Owned
  <1>3. ASSUME NEW q \in Requests PROVE Phase(q)'
    BY DEF IInv, TypeOK, Phase, Submitted
  <1>4. ASSUME NEW q \in Requests PROVE Stored(q)' /\ Answer(q)'
    BY <1>1 DEF IInv, TypeOK, Stored, Answer, Submitted
  <1> QED
    BY <1>2, <1>3, <1>4 DEF IInv

(* The statement of request r commits: r owns the new row, and no other    *)
(* request can own it, because the id was not in the table.                *)
LEMMA CommitStep ==
    ASSUME IInv, TypeOK',
           NEW r \in Requests, NEW now \in Time, Commit(r, now)
    PROVE  IInv'
PROOF
  <1> DEFINE new == [id |-> t[r].id, key |-> cmd[r].key, createdAt |-> now]
  <1>1. /\ tasks' = tasks \cup {new}
        /\ sql' = [sql EXCEPT ![r] = "committed"]
        /\ sql[r] = "sent"
        /\ pc' = pc /\ cmd' = cmd /\ t' = t /\ client' = client
    BY DEF Commit, CreateTask
  <1>2. IdUnique' /\ KeyUnique'
    BY CreateTaskKeepsIndexes DEF IInv, Commit
  <1>3. \A row \in tasks : row.id # new.id
    BY DEF Commit, UniqueViolation, IdTaken
  <1>4. \A q \in Requests : sql'[q] = "committed" <=> sql[q] = "committed" \/ q = r
    BY <1>1 DEF IInv, TypeOK
  <1>5. \A q \in Requests \ {r} : sql[q] = "committed" => t[q].id # t[r].id
    BY <1>3 DEF IInv, Stored
  <1>6. OneOwner'
    BY <1>1, <1>4, <1>5 DEF IInv, OneOwner
  <1>7. Owned'
    BY <1>1, <1>4 DEF IInv, Owned
  <1>8. ASSUME NEW q \in Requests PROVE Phase(q)'
    BY <1>1, <1>4 DEF IInv, TypeOK, Phase, Submitted
  <1>9. ASSUME NEW q \in Requests PROVE Stored(q)'
    <2>1. new \in tasks' /\ new.id = t'[r].id /\ new.key = cmd'[r].key
      BY <1>1
    <2>2. CASE q = r
      BY <2>1, <2>2 DEF Stored
    <2>3. CASE q # r
      BY <1>1, <1>4, <2>3 DEF IInv, Stored
    <2> QED
      BY <2>2, <2>3
  <1>10. ASSUME NEW q \in Requests PROVE Answer(q)'
    BY <1>1, <1>4 DEF IInv, TypeOK, Answer, Submitted
  <1> QED
    BY <1>2, <1>6, <1>7, <1>8, <1>9, <1>10 DEF IInv

(* A crash ends every request in flight and touches nothing else: neither  *)
(* the table nor the statements that were sent.                            *)
LEMMA CrashStep ==
    ASSUME IInv, TypeOK', Crash
    PROVE  IInv'
PROOF
  <1>1. IdUnique' /\ KeyUnique' /\ OneOwner' /\ Owned'
    BY DEF IInv, Crash, IdUnique, KeyUnique, OneOwner, Owned
  <1>2. ASSUME NEW r \in Requests PROVE Phase(r)' /\ Stored(r)' /\ Answer(r)'
    BY DEF IInv, TypeOK, Crash, InFlight, Outcome, Phase, Stored, Answer, Submitted
  <1> QED
    BY <1>1, <1>2 DEF IInv

(* Every action keeps the invariant.                                       *)
LEMMA IInvStep == IInv /\ [Next]_vars => IInv'
PROOF
  <1> SUFFICES ASSUME IInv, [Next]_vars PROVE IInv'
    OBVIOUS
  <1>0. TypeOK /\ TypeOK'
    BY TypeOKStep DEF IInv
  <1>1. ASSUME NEW r \in Requests, NEW c \in Command, Receive(r, c)
        PROVE  IInv'
    <2>1. sql[r] = "none" /\ client[r] # "ok" /\ pc[r] = "free"
      BY <1>1 DEF IInv, Phase, Receive, Move
    <2>2. Phase(r)' /\ Answer(r)'
      BY <1>0, <1>1, <2>1 DEF TypeOK, Receive, Move, Phase, Answer, Submitted
    <2> QED
      BY <1>0, <1>1, <2>1, <2>2, LocalStep DEF TypeOK, Receive, Move
  <1>2. ASSUME NEW r \in Requests, NEW id \in Ids, Mint(r, id)
        PROVE  IInv'
    <2>1. /\ pc[r] = "mint" /\ sql[r] = "none" /\ Submitted(r) /\ client[r] # "ok"
          /\ t' = [t EXCEPT ![r] = [id |-> id, createdAt |-> clock]]
          /\ sql' = [sql EXCEPT ![r] = "sent"]
          /\ pc' = [pc EXCEPT ![r] = "insert"]
          /\ tasks' = tasks /\ cmd' = cmd /\ client' = client
      BY <1>2 DEF IInv, Phase, Mint, Move
    <2>2. \A q \in Requests : sql'[q] = "committed" <=> sql[q] = "committed"
      BY <1>0, <2>1 DEF TypeOK
    <2>3. \A q \in Requests : sql[q] = "committed" => t'[q] = t[q]
      BY <1>0, <2>1 DEF TypeOK
    <2>4. IdUnique' /\ KeyUnique' /\ OneOwner' /\ Owned'
      BY <2>1, <2>2, <2>3 DEF IInv, IdUnique, KeyUnique, OneOwner, Owned
    <2>5. ASSUME NEW q \in Requests PROVE Phase(q)'
      BY <1>0, <2>1 DEF IInv, TypeOK, Phase, Submitted
    <2>6. ASSUME NEW q \in Requests PROVE Stored(q)' /\ Answer(q)'
      BY <1>0, <2>1, <2>2, <2>3 DEF IInv, TypeOK, Stored, Answer, Submitted
    <2> QED
      BY <1>0, <2>4, <2>5, <2>6 DEF IInv
  <1>3. ASSUME NEW r \in Requests,
               \/ MintFails(r) \/ Inserted(r) \/ Conflicted(r) \/ InsertFails(r)
               \/ AppendEvent(r) \/ ReplayFails(r) \/ GetNotFound(r) \/ GetFails(r)
        PROVE  IInv'
    <2> USE <1>0, <1>3 DEF MintFails, Inserted, Conflicted, InsertFails, AppendEvent,
            ReplayFails, GetNotFound, GetFails, Move
    <2>1. Phase(r)' /\ Answer(r)'
      BY DEF IInv, TypeOK, Phase, Answer, Submitted
    <2>2. \A q \in Requests \ {r} : pc'[q] = pc[q]
      BY DEF TypeOK
    <2> QED
      BY <2>1, <2>2, LocalStep
  <1>4. ASSUME NEW r \in Requests, Replay(r)
        PROVE  IInv'
    <2>1. PICK row \in tasks : /\ row.key = cmd[r].key /\ row.key # NoKey
                               /\ t' = [t EXCEPT ![r] = toDomain(row)]
      BY <1>4 DEF Replay, GetTaskByIdempotencyKey
    <2>2. /\ pc[r] = "replay" /\ pc' = [pc EXCEPT ![r] = "ok"]
          /\ UNCHANGED <<tasks, cmd, sql, client, clock>>
      BY <1>4 DEF Replay, Move
    <2>3. sql[r] = "conflict" /\ Submitted(r) /\ client[r] # "ok"
      BY <2>2 DEF IInv, Phase
    <2>4. Phase(r)'
      <3>1. toDomain(row).id \in Ids
        BY <1>0 DEF TypeOK, Row, toDomain
      <3> QED
        BY <1>0, <2>1, <2>2, <2>3, <3>1 DEF IInv, TypeOK, Phase, Submitted
    <2>5. Answer(r)'
      BY <1>0, <2>1, <2>2, <2>3 DEF TypeOK, Answer, Submitted
    <2> QED
      BY <1>0, <2>1, <2>2, <2>3, <2>4, <2>5, LocalStep DEF TypeOK
  <1>5. ASSUME NEW r \in Requests, Get(r)
        PROVE  IInv'
    <2>1. PICK row \in tasks : t' = [t EXCEPT ![r] = toDomain(row)]
      BY <1>5 DEF Get, GetTaskByID
    <2>2. /\ pc[r] = "read" /\ pc' = [pc EXCEPT ![r] = "ok"]
          /\ UNCHANGED <<tasks, cmd, sql, client, clock>>
      BY <1>5 DEF Get, Move
    <2>3. sql[r] = "none" /\ ~Submitted(r) /\ client[r] # "ok"
      BY <1>0, <2>2 DEF IInv, TypeOK, Phase
    <2>4. Phase(r)' /\ Answer(r)'
      BY <1>0, <2>1, <2>2, <2>3 DEF IInv, TypeOK, Phase, Answer, Submitted
    <2> QED
      BY <1>0, <2>1, <2>2, <2>3, <2>4, LocalStep DEF TypeOK
  <1>6. ASSUME NEW r \in Requests, Respond(r) \/ Disconnect(r)
        PROVE  IInv'
    <2> USE <1>0, <1>6 DEF Respond, Disconnect, InFlight, Outcome
    <2>1. Phase(r)'
      BY DEF IInv, TypeOK, Phase, Submitted
    <2>2. Answer(r)'
      BY DEF IInv, TypeOK, Answer, Submitted
    <2>3. /\ tasks' = tasks /\ sql' = sql /\ t' = t /\ cmd' = cmd
          /\ \A q \in Requests \ {r} : pc'[q] = pc[q] /\ client'[q] = client[q]
      BY DEF TypeOK
    <2> QED
      BY <2>1, <2>2, <2>3, LocalStep
  <1>7. ASSUME NEW r \in Requests, NEW now \in Time, Commit(r, now)
        PROVE  IInv'
    BY <1>0, <1>7, CommitStep
  <1>8. ASSUME NEW r \in Requests, Conflict(r) \/ Abort(r)
        PROVE  IInv'
    BY <1>0, <1>8, StatementStep DEF Conflict, Abort
  <1>9. CASE Crash
    BY <1>0, <1>9, CrashStep
  <1>10. CASE Tick \/ UNCHANGED vars
    BY <1>0, <1>10 DEF Tick, vars, IInv, IdUnique, KeyUnique, OneOwner, Owned,
                      Phase, Stored, Answer, Submitted
  <1> QED
    BY <1>1, <1>2, <1>3, <1>4, <1>5, <1>6, <1>7, <1>8, <1>9, <1>10
       DEF Next, Server, Submitting, Reading, Postgres

---------------------------------------------------------------------------
(* The invariant holds of every behaviour.                                 *)
THEOREM Invariance == Spec => []IInv
PROOF
  <1>1. Init => IInv
    BY IInvInit
  <1>2. IInv /\ [Next]_vars => IInv'
    BY IInvStep
  <1> QED
    BY <1>1, <1>2, PTL DEF Spec

(* Type correctness: in particular, only minted ids reach the table.       *)
THEOREM TypeCorrect == Spec => []TypeOK
PROOF
  <1>1. IInv => TypeOK
    BY DEF IInv
  <1> QED
    BY <1>1, Invariance, PTL

(* A submit that was answered 201 has a row, under its own key, which it   *)
(* inserted itself or else found by that key.                              *)
LEMMA CreatedHasRow ==
    IInv => \A r \in Requests : Created(r) =>
        \E row \in tasks : /\ row.id = t[r].id
                           /\ row.key = cmd[r].key
                           /\ sql[r] = "committed" \/ row.key # NoKey
PROOF
  <1> SUFFICES ASSUME IInv, NEW r \in Requests, Created(r)
               PROVE  \E row \in tasks : /\ row.id = t[r].id
                                         /\ row.key = cmd[r].key
                                         /\ sql[r] = "committed" \/ row.key # NoKey
    OBVIOUS
  <1>1. CASE sql[r] = "committed"
    BY <1>1 DEF IInv, Stored
  <1>2. CASE sql[r] # "committed"
    <2>1. PICK row \in tasks :
             t[r] = toDomain(row) /\ row.key = cmd[r].key /\ row.key # NoKey
      BY <1>2 DEF IInv, Answer, Created
    <2> QED
      BY <2>1 DEF toDomain
  <1> QED
    BY <1>1, <1>2

(* No 201 without a stored task: neither a lost statement nor a crash nor  *)
(* a lost race for the key makes the server answer a task it did not keep. *)
THEOREM CreatedStored == Spec => []CreatedIsStored
PROOF
  <1>1. IInv => CreatedIsStored
    BY CreatedHasRow DEF CreatedIsStored
  <1> QED
    BY <1>1, Invariance, PTL

(* The promise of Submit: two 201 answers name the same task exactly when  *)
(* they carry the same key.                                                *)
THEOREM SameTask == Spec => []SameTaskIffSameKey
PROOF
  <1>1. ASSUME IInv, NEW r \in Requests, NEW s \in Requests,
               r # s, Created(r), Created(s)
        PROVE  t[r].id = t[s].id <=> cmd[r].key = cmd[s].key /\ cmd[r].key # NoKey
    <2>1. PICK a \in tasks : /\ a.id = t[r].id /\ a.key = cmd[r].key
                             /\ sql[r] = "committed" \/ a.key # NoKey
      BY <1>1, CreatedHasRow
    <2>2. PICK b \in tasks : /\ b.id = t[s].id /\ b.key = cmd[s].key
                             /\ sql[s] = "committed" \/ b.key # NoKey
      BY <1>1, CreatedHasRow
    <2>3. ASSUME t[r].id = t[s].id
          PROVE  cmd[r].key = cmd[s].key /\ cmd[r].key # NoKey
      <3>1. a = b
        BY <1>1, <2>1, <2>2, <2>3 DEF IInv, IdUnique
      <3>2. ~(sql[r] = "committed" /\ sql[s] = "committed")
        BY <1>1, <2>3 DEF IInv, OneOwner
      <3> QED
        BY <2>1, <2>2, <3>1, <3>2
    <2>4. ASSUME cmd[r].key = cmd[s].key, cmd[r].key # NoKey
          PROVE  t[r].id = t[s].id
      BY <1>1, <2>1, <2>2, <2>4 DEF IInv, KeyUnique
    <2> QED
      BY <2>3, <2>4
  <1>2. IInv => SameTaskIffSameKey
    BY <1>1 DEF SameTaskIffSameKey
  <1> QED
    BY <1>2, Invariance, PTL

(* Every row is the work of exactly one submit.                            *)
THEOREM RowsHaveSubmits == Spec => []EachRowHasItsSubmit
PROOF
  <1>1. IInv => EachRowHasItsSubmit
    BY DEF IInv, Owned, OneOwner, Phase, EachRowHasItsSubmit
  <1> QED
    BY <1>1, Invariance, PTL

(* What is read back of one task never changes.                            *)
THEOREM ViewsAgree == Spec => []StableView
PROOF
  <1>1. ASSUME IInv, NEW r \in Requests, NEW s \in Requests,
               ReadBack(r), ReadBack(s), t[r].id = t[s].id
        PROVE  t[r] = t[s]
    <2>1. PICK a \in tasks : t[r] = toDomain(a)
      BY <1>1 DEF IInv, Answer, ReadBack
    <2>2. PICK b \in tasks : t[s] = toDomain(b)
      BY <1>1 DEF IInv, Answer, ReadBack
    <2>3. a = b
      BY <1>1, <2>1, <2>2 DEF IInv, IdUnique, toDomain
    <2> QED
      BY <2>1, <2>2, <2>3
  <1>2. IInv => StableView
    BY <1>1 DEF StableView
  <1> QED
    BY <1>2, Invariance, PTL

(* A GET that reads the table after a 201 was delivered finds its task.    *)
THEOREM ReadsFollowWrites == Spec => ReadYourWrites
PROOF
  <1> DEFINE Untold == \A r, s \in Requests :
               pc[r] = "read" /\ pc'[r] = "not_found" /\ Created(s) =>
                   cmd[r].id # t[s].id
  <1>1. ASSUME IInv, [Next]_vars PROVE [Untold]_vars
    <2> SUFFICES ASSUME NEW r \in Requests, NEW s \in Requests,
                        pc[r] = "read", pc'[r] = "not_found", Created(s),
                        cmd[r].id = t[s].id
                 PROVE  FALSE
      OBVIOUS
    <2>1. PICK row \in tasks : row.id = cmd[r].id
      BY <1>1, CreatedHasRow
    <2>2. GetNotFound(r)
      <3> USE <1>1 DEF Move, InFlight, Outcome
      <3>1. ASSUME NEW q \in Requests, NEW c \in Command PROVE ~Receive(q, c)
        BY DEF Receive, IInv, TypeOK
      <3>2. ASSUME NEW q \in Requests, Submitting(q) PROVE FALSE
        BY <3>2 DEF Submitting, Mint, MintFails, Inserted, Conflicted,
                    InsertFails, AppendEvent, Replay, ReplayFails, IInv, TypeOK
      <3>3. ASSUME NEW q \in Requests, Get(q) \/ GetFails(q) \/ Respond(q) PROVE FALSE
        BY <3>3 DEF Get, GetFails, Respond, IInv, TypeOK
      <3>4. ASSUME NEW q \in Requests, Postgres(q) \/ Disconnect(q) PROVE FALSE
        BY <3>4 DEF Postgres, Commit, Conflict, Abort, Disconnect
      <3>5. ~Crash /\ ~Tick /\ ~UNCHANGED vars
        BY DEF Crash, Tick, vars
      <3>6. PICK q \in Requests : GetNotFound(q)
        BY <3>1, <3>2, <3>3, <3>4, <3>5 DEF Next, Server, Reading
      <3> QED
        BY <3>6 DEF GetNotFound, IInv, TypeOK
    <2> QED
      BY <2>1, <2>2 DEF GetNotFound, GetTaskByID
  <1> QED
    BY <1>1, Invariance, PTL DEF Spec, ReadYourWrites

---------------------------------------------------------------------------
(* Submit implements IdempotentSubmit: every step of the server, of        *)
(* Postgres and of the clients is a step of the abstract promise or leaves *)
(* it unchanged.                                                           *)

(* Initially nothing is asked, accepted or told.                           *)
LEMMA InitImplements == Init => Promise!Init
PROOF
  BY DEF Init, Promise!Init, Asked, KeyOf, Accepted, Told, Submitted, Created,
         NoCommand

(* A committed statement accepts its request: its id and its key are new.  *)
LEMMA CommitImplements ==
    ASSUME IInv, TypeOK',
           NEW r \in Requests, NEW now \in Time, Commit(r, now)
    PROVE  Promise!Accept(r, t[r].id)
PROOF
  <1>1. /\ sql[r] = "sent" /\ sql' = [sql EXCEPT ![r] = "committed"]
        /\ cmd' = cmd /\ t' = t /\ client' = client
        /\ ~IdTaken(tasks, t[r].id) /\ ~KeyTaken(tasks, cmd[r].key)
    BY DEF Commit, UniqueViolation
  <1>2. Submitted(r) /\ t[r].id \in Ids
    BY <1>1 DEF IInv, Phase
  <1>3. ASSUME NEW s \in Requests, sql[s] = "committed"
        PROVE  /\ t[s].id # t[r].id
               /\ cmd[r].key = NoKey \/ cmd[s].key # cmd[r].key
    BY <1>1, <1>3 DEF IInv, Stored, IdTaken, KeyTaken
  <1>4. \A s \in Requests : Accepted[s] # t[r].id
    BY <1>2, <1>3 DEF Accepted
  <1>5. \A s \in Asked : Promise!SameKey(r, s) => Accepted[s] = NoId
    <2> SUFFICES ASSUME NEW s \in Requests, KeyOf[r] = KeyOf[s], KeyOf[r] # NoKey
                 PROVE  Accepted[s] = NoId
      BY DEF Asked, Promise!SameKey
    <2>1. cmd[r].key = cmd[s].key /\ cmd[r].key # NoKey
      BY DEF KeyOf
    <2> QED
      BY <1>3, <2>1 DEF Accepted
  <1>6. Accepted' = [Accepted EXCEPT ![r] = t[r].id]
    BY <1>1 DEF Accepted, IInv, TypeOK
  <1>7. Asked' = Asked /\ KeyOf' = KeyOf /\ Told' = Told
    BY <1>1 DEF Asked, KeyOf, Told, Submitted, Created
  <1>8. r \in Asked /\ Accepted[r] = NoId
    BY <1>1, <1>2 DEF Asked, Accepted
  <1> QED
    BY <1>4, <1>5, <1>6, <1>7, <1>8
       DEF Promise!Accept

(* A 201 that reaches its client tells it of the task its own request      *)
(* created, or of the one stored under its key.                            *)
LEMMA RespondImplements ==
    ASSUME IInv, TypeOK', NEW r \in Requests, Respond(r)
    PROVE  (\E s \in Requests : Promise!Tell(r, s)) \/ UNCHANGED Promise!avars
PROOF
  <1>1. /\ pc[r] \in Outcome
        /\ client' = [client EXCEPT ![r] = IF @ = "waiting" THEN pc[r] ELSE @]
        /\ tasks' = tasks /\ cmd' = cmd /\ t' = t /\ sql' = sql
    BY DEF Respond
  <1>2. Asked' = Asked /\ KeyOf' = KeyOf /\ Accepted' = Accepted
    BY <1>1 DEF Asked, KeyOf, Accepted, Submitted
  <1>3. client[r] # "ok"
    BY <1>1 DEF IInv, Phase, Outcome
  <1>4. CASE ~(pc[r] = "ok" /\ client[r] = "waiting" /\ Submitted(r))
    <2>1. \A q \in Requests : Created(q)' <=> Created(q)
      BY <1>1, <1>3, <1>4 DEF Created, Submitted, IInv, TypeOK
    <2>2. Told' = Told
      BY <1>1, <2>1 DEF Told
    <2> QED
      BY <1>2, <2>2 DEF Promise!avars
  <1>5. CASE pc[r] = "ok" /\ client[r] = "waiting" /\ Submitted(r)
    <2>1. Told' = [Told EXCEPT ![r] = t[r].id] /\ Told[r] = NoId
      <3>1. \A q \in Requests : Created(q)' <=> Created(q) \/ q = r
        BY <1>1, <1>5 DEF Created, Submitted, IInv, TypeOK
      <3> QED
        BY <1>1, <1>3, <3>1 DEF Told, Created
    <2>2. CASE sql[r] = "committed"
      <3>1. Accepted[r] = t[r].id /\ t[r].id # NoId
        BY <2>2 DEF Accepted, IInv, Phase
      <3>2. Promise!Tell(r, r)
        BY <1>2, <1>5, <2>1, <3>1 DEF Promise!Tell, Asked
      <3> QED
        BY <3>2
    <2>3. CASE sql[r] # "committed"
      <3>1. PICK row \in tasks :
               t[r] = toDomain(row) /\ row.key = cmd[r].key /\ row.key # NoKey
        BY <1>5, <2>3 DEF IInv, Answer
      <3>2. PICK s \in Requests :
               sql[s] = "committed" /\ t[s].id = row.id /\ cmd[s].key = row.key
        BY DEF IInv, Owned
      <3>3. Accepted[s] = t[r].id /\ t[r].id # NoId /\ Submitted(s)
        BY <3>1, <3>2 DEF Accepted, toDomain, IInv, Phase
      <3>4. Promise!SameKey(r, s)
        BY <3>1, <3>2 DEF Promise!SameKey, KeyOf
      <3>5. Promise!Tell(r, s)
        BY <1>2, <1>5, <2>1, <3>3, <3>4
           DEF Promise!Tell, Asked
      <3> QED
        BY <3>5
    <2> QED
      BY <2>2, <2>3
  <1> QED
    BY <1>4, <1>5

(* Every other step of one request leaves the promise as it is: what it    *)
(* changes belongs to a request that has neither committed nor answered.   *)
LEMMA QuietStep ==
    ASSUME cmd' = cmd,
           \A q \in Requests : /\ sql'[q] = "committed" <=> sql[q] = "committed"
                               /\ client'[q] = "ok" <=> client[q] = "ok"
                               /\ sql[q] = "committed" \/ client[q] = "ok" => t'[q] = t[q]
    PROVE  UNCHANGED Promise!avars
PROOF
  <1>1. Asked' = Asked /\ KeyOf' = KeyOf
    BY DEF Asked, KeyOf, Submitted
  <1>2. \A q \in Requests : Created(q)' <=> Created(q)
    BY DEF Created, Submitted
  <1>3. Accepted' = Accepted
    BY DEF Accepted
  <1>4. Told' = Told
    BY <1>2 DEF Told, Created
  <1> QED
    BY <1>1, <1>3, <1>4 DEF Promise!avars

(* A step of the server is a step of the promise, or changes nothing that it*)
(* speaks of.                                                              *)
LEMMA StepImplements == IInv /\ TypeOK' /\ [Next]_vars => [Promise!Next]_Promise!avars
PROOF
  <1> SUFFICES ASSUME IInv, TypeOK', [Next]_vars
               PROVE  Promise!Next \/ UNCHANGED Promise!avars
    OBVIOUS
  <1>0. TypeOK
    BY DEF IInv
  <1>1. ASSUME NEW r \in Requests, NEW c \in Command, Receive(r, c)
        PROVE  Promise!Next \/ UNCHANGED Promise!avars
    <2>1. /\ cmd[r] = NoCommand /\ cmd' = [cmd EXCEPT ![r] = c]
          /\ client[r] # "ok" /\ sql[r] = "none"
          /\ t' = t /\ sql' = sql /\ client' = client
      BY <1>1 DEF Receive, Move, IInv, Phase
    <2>2. ~Submitted(r)
      BY <2>1 DEF Submitted, NoCommand
    <2>3. Accepted' = Accepted
      BY <2>1 DEF Accepted
    <2>4. Told' = Told
      <3>1. \A q \in Requests : Created(q)' <=> Created(q)
        BY <1>0, <2>1 DEF Created, Submitted, TypeOK
      <3> QED
        BY <2>1, <3>1 DEF Told
    <2>5. KeyOf' = [KeyOf EXCEPT ![r] = c.key] /\ KeyOf[r] = NoKey
      <3>1. \A q \in Requests : cmd'[q].key = IF q = r THEN c.key ELSE cmd[q].key
        BY <1>0, <2>1 DEF TypeOK
      <3>2. KeyOf' = [q \in Requests |-> IF q = r THEN c.key ELSE KeyOf[q]]
        BY <3>1 DEF KeyOf
      <3>3. KeyOf[r] = NoKey
        BY <2>1 DEF KeyOf, NoCommand
      <3>4. [KeyOf EXCEPT ![r] = c.key]
              = [q \in Requests |-> IF q = r THEN c.key ELSE KeyOf[q]]
        BY DEF KeyOf
      <3> QED
        BY <3>2, <3>3, <3>4
    <2>6. CASE c.op = "submit"
      <3>1. Asked' = Asked \cup {r}
        BY <1>0, <2>1, <2>6 DEF Asked, Submitted, TypeOK
      <3>2. c.key \in Keys \cup {NoKey}
        BY <2>6 DEF Command
      <3>3. Promise!Ask(r, c.key)
        BY <2>2, <2>3, <2>4, <2>5, <3>1 DEF Promise!Ask, Asked
      <3> QED
        BY <3>2, <3>3 DEF Promise!Next
    <2>7. CASE c.op # "submit"
      <3>1. c.key = NoKey
        BY <2>7 DEF Command
      <3>2. KeyOf' = KeyOf
        BY <2>5, <3>1 DEF KeyOf
      <3>3. Asked' = Asked
        BY <1>0, <2>1, <2>2, <2>7 DEF Asked, Submitted, TypeOK
      <3> QED
        BY <2>3, <2>4, <3>2, <3>3 DEF Promise!avars
    <2> QED
      BY <2>6, <2>7
  <1>2. ASSUME NEW r \in Requests, NEW id \in Ids, Mint(r, id)
        PROVE  UNCHANGED Promise!avars
    <2>1. /\ pc[r] = "mint" /\ sql[r] = "none" /\ client[r] # "ok"
          /\ t' = [t EXCEPT ![r] = [id |-> id, createdAt |-> clock]]
          /\ sql' = [sql EXCEPT ![r] = "sent"]
          /\ cmd' = cmd /\ client' = client
      BY <1>2 DEF Mint, Move, IInv, Phase
    <2> QED
      BY <1>0, <2>1, QuietStep DEF TypeOK
  <1>3. ASSUME NEW r \in Requests,
               \/ MintFails(r) \/ Inserted(r) \/ Conflicted(r) \/ InsertFails(r)
               \/ AppendEvent(r) \/ ReplayFails(r) \/ GetNotFound(r) \/ GetFails(r)
        PROVE  UNCHANGED Promise!avars
    <2>1. UNCHANGED <<cmd, t, sql, client>>
      BY <1>3 DEF MintFails, Inserted, Conflicted, InsertFails, AppendEvent,
                  ReplayFails, GetNotFound, GetFails
    <2> QED
      BY <2>1, QuietStep
  <1>4. ASSUME NEW r \in Requests, Replay(r) \/ Get(r)
        PROVE  UNCHANGED Promise!avars
    <2>1. PICK row \in tasks : t' = [t EXCEPT ![r] = toDomain(row)]
      BY <1>4 DEF Replay, Get, GetTaskByIdempotencyKey, GetTaskByID
    <2>2. pc[r] \in {"replay", "read"} /\ UNCHANGED <<cmd, sql, client>>
      BY <1>4 DEF Replay, Get, Move
    <2>3. sql[r] # "committed" /\ client[r] # "ok"
      BY <1>0, <2>2 DEF IInv, Phase, TypeOK
    <2> QED
      BY <1>0, <2>1, <2>2, <2>3, QuietStep DEF TypeOK
  <1>5. ASSUME NEW r \in Requests, Respond(r)
        PROVE  Promise!Next \/ UNCHANGED Promise!avars
    BY <1>5, RespondImplements DEF Promise!Next
  <1>6. ASSUME NEW r \in Requests, NEW now \in Time, Commit(r, now)
        PROVE  Promise!Next
    <2>1. t[r].id \in Ids
      BY <1>6 DEF Commit, IInv, Phase
    <2> QED
      BY <1>6, <2>1, CommitImplements DEF Promise!Next
  <1>7. ASSUME NEW r \in Requests, Conflict(r) \/ Abort(r)
        PROVE  UNCHANGED Promise!avars
    BY <1>0, <1>7, QuietStep DEF Conflict, Abort, TypeOK
  <1>8. ASSUME NEW r \in Requests, Disconnect(r)
        PROVE  UNCHANGED Promise!avars
    BY <1>0, <1>8, QuietStep DEF Disconnect, TypeOK
  <1>9. CASE Crash
    BY <1>0, <1>9, QuietStep DEF Crash, TypeOK
  <1>10. CASE Tick \/ UNCHANGED vars
    BY <1>10, QuietStep DEF Tick, vars
  <1> QED
    BY <1>1, <1>2, <1>3, <1>4, <1>5, <1>6, <1>7, <1>8, <1>9, <1>10
       DEF Next, Server, Submitting, Reading, Postgres

(* The server keeps the promise, for any number of requests.               *)
THEOREM Implements == Spec => ImplementsPromise
PROOF
  <1>1. IInv => TypeOK
    BY DEF IInv
  <1> QED
    BY <1>1, InitImplements, StepImplements, Invariance, PTL
       DEF Spec, ImplementsPromise, Promise!Spec
=============================================================================
