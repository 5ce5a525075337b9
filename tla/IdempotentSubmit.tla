-------------------------- MODULE IdempotentSubmit --------------------------
(***************************************************************************)
(* What submitting a task promises its clients, without a server, a table  *)
(* or a statement.  Each request may be accepted once, creating a task; a  *)
(* key is accepted at most once; a client is told of the task its own      *)
(* request created, or of the one created under its key.  A request may    *)
(* never be answered (a failure), and may be accepted after it has failed. *)
(***************************************************************************)
CONSTANTS Requests, Ids, NoId, Keys, NoKey

VARIABLES
    asked,     \* the requests received so far
    key,       \* the idempotency key of each of them
    accepted,  \* the task each request created, or NoId
    told       \* the task each client was told of, or NoId

avars == <<asked, key, accepted, told>>

SameKey(r, s) == key[r] = key[s] /\ key[r] # NoKey

Init ==
    /\ asked = {}
    /\ key = [r \in Requests |-> NoKey]
    /\ accepted = [r \in Requests |-> NoId]
    /\ told = [r \in Requests |-> NoId]

Ask(r, k) ==
    /\ r \notin asked
    /\ asked' = asked \cup {r}
    /\ key' = [key EXCEPT ![r] = k]
    /\ UNCHANGED <<accepted, told>>

Accept(r, id) ==
    /\ r \in asked
    /\ accepted[r] = NoId
    /\ \A s \in Requests : accepted[s] # id
    /\ \A s \in asked : SameKey(r, s) => accepted[s] = NoId
    /\ accepted' = [accepted EXCEPT ![r] = id]
    /\ UNCHANGED <<asked, key, told>>

Tell(r, s) ==
    /\ {r, s} \subseteq asked
    /\ told[r] = NoId
    /\ accepted[s] # NoId
    /\ r = s \/ SameKey(r, s)
    /\ told' = [told EXCEPT ![r] = accepted[s]]
    /\ UNCHANGED <<asked, key, accepted>>

Next ==
    \E r \in Requests :
        \/ \E k \in Keys \cup {NoKey} : Ask(r, k)
        \/ \E id \in Ids : Accept(r, id)
        \/ \E s \in Requests : Tell(r, s)

Spec == Init /\ [][Next]_avars
=============================================================================
