------------------------------- MODULE Tasks -------------------------------
(***************************************************************************)
(* The tasks table and the repository that reads and writes it.            *)
(*                                                                         *)
(* A row keeps the columns that decide an answer: the primary key, the     *)
(* idempotency key (NULL is NoKey) and created_at.  The handler, the       *)
(* payload and the status, which no code under src/ ever changes after the *)
(* insert, are left out.  A Task is what the domain aggregate and the two  *)
(* response bodies show of a row: it has no key.                           *)
(***************************************************************************)
EXTENDS Naturals

CONSTANTS
    Ids,        \* the UUIDs newID can mint
    NoId,       \* the id of an aggregate that has not been minted
    Keys,       \* the idempotency keys clients choose from
    NoKey,      \* a request without a key: NULL in the table
    MaxTime     \* bound on the clock, in seconds

ASSUME IdsAssumption == NoId \notin Ids
ASSUME KeysAssumption == NoKey \notin Keys
ASSUME TimeAssumption == MaxTime \in Nat

Time == 0 .. MaxTime
Row  == [id : Ids, key : Keys \cup {NoKey}, createdAt : Time]
Task == [id : Ids \cup {NoId}, createdAt : Time]

NoTask == [id |-> NoId, createdAt |-> 0]

(* Mutants (definitions whose name holds "_Mut") are plausible bugs, each  *)
(* a wrong form of the definition it precedes; no specification uses them. *)

(* The primary key and the partial unique index of the migration.          *)
IdTaken_MutDropped(rows, id) == FALSE
KeyTaken_MutDropped(rows, key) == FALSE
IdTaken(rows, id)   == \E row \in rows : row.id = id
KeyTaken(rows, key) == key # NoKey /\ \E row \in rows : row.key = key

UniqueViolation(rows, id, key) == IdTaken(rows, id) \/ KeyTaken(rows, key)

(* INSERT ... RETURNING: created_at is not among the inserted columns, so  *)
(* the row carries the database's now(), not the aggregate's createdAt.    *)
CreateTask(rows, t, key, now) ==
    rows \cup {[id |-> t.id, key |-> key, createdAt |-> now]}

(* The two SELECTs, as the set of the rows they return.                    *)
GetTaskByID(rows, id) == {row \in rows : row.id = id}
GetTaskByIdempotencyKey(rows, key) ==
    {row \in rows : row.key = key /\ key # NoKey}

toDomain(row) == [id |-> row.id, createdAt |-> row.createdAt]
=============================================================================
