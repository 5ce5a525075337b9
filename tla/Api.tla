-------------------------------- MODULE Api --------------------------------
(***************************************************************************)
(* One HTTP exchange through the ogen server, the API handler and          *)
(* api.ErrorHandler: routing, decoding and validation, the call of the     *)
(* task service, the translation of what it returns, the response, and     *)
(* what the span and the counters record of it.                            *)
(*                                                                         *)
(* Exchanges share nothing, so one at a time is enough.  The service is    *)
(* any of the answers that module Submit shows it can give.  A string is   *)
(* its length in characters.                                               *)
(***************************************************************************)
EXTENDS Naturals

CONSTANTS
    Lengths,   \* lengths of the strings clients send
    Absent     \* an optional field that is not in the body

ASSUME LengthsAssumption == Lengths \subseteq Nat
ASSUME AbsentAssumption == Absent \notin Nat

VARIABLES
    at,        \* the stage of the exchange
    req,       \* the request
    call,      \* the arguments the service was called with
    answer,    \* what the service returned
    err,       \* the Go error on its way to the ErrorHandler
    wire,      \* what was sent: status line and the body's status or code
    cut,       \* the body could not be written
    recorded,  \* codeRecorder.status
    span,      \* the status of the operation's span
    errors     \* increments of the error counter

avars == <<at, req, call, answer, err, wire, cut, recorded, span, errors>>

(* "malformed" is not JSON, not an object, a field of a wrong type, a null *)
(* key or no handler at all; "unread" is a body whose sender broke off.    *)
CreateTaskRequest ==
    [op : {"createTask"}, media : {"none", "json", "other"},
     body : {"empty", "unread", "malformed", "trailing", "object"},
     handler : Lengths, key : Lengths \cup {Absent}]
GetTaskRequest ==
    [op : {"getTask"}, id : {"uuid", "not_uuid", "empty", "bad_escape"}]
Unrouted == [op : {"path", "method", "options"}]
NoRequest == [op |-> "none"]

(* The TEXT column could hold anything: "other" is any other text.         *)
Status == {"pending", "running", "complete", "failed", "canceled", "other"}
Answers(op) ==
    [kind : {"task"}, status : Status]
      \cup [kind : {"error"}]
      \cup IF op = "getTask" THEN [kind : {"not_found"}] ELSE {}
NoAnswer == [kind |-> "none"]
NoCall == [handler |-> Absent, key |-> Absent]

(* What api/openapi.yaml publishes. *)
TaskStatus == {"pending", "running", "succeeded", "failed", "cancelled"}
ErrorCode == {"invalid_request_body", "invalid_parameter", "task_not_found",
              "internal_error"}
Unsent == [status |-> 0, body |-> "none"]

Fresh == /\ call' = NoCall /\ answer' = NoAnswer /\ err' = "none"
         /\ wire' = Unsent /\ cut' = FALSE
         /\ recorded' = 0 /\ span' = "unset" /\ errors' = 0

Init ==
    /\ at = "idle" /\ req = NoRequest
    /\ call = NoCall /\ answer = NoAnswer /\ err = "none"
    /\ wire = Unsent /\ cut = FALSE
    /\ recorded = 0 /\ span = "unset" /\ errors = 0

Goto(from, to) == at = from /\ at' = to

Fail(from, stage) == Goto(from, "error") /\ err' = stage

---------------------------------------------------------------------------
Arrive(request) ==
    /\ at \in {"idle", "done"} /\ at' = "route"
    /\ req' = request
    /\ Fresh

(* ServeHTTP.  What it does not route is answered without an envelope, and *)
(* unrecorded: an unknown path, another method, an OPTIONS request.        *)
NotRouted ==
    /\ req.op \in {"path", "method", "options"}
    /\ Goto("route", "done")
    /\ wire' = CASE req.op = "path"    -> [status |-> 404, body |-> "text"]
                 [] req.op = "method"  -> [status |-> 405, body |-> "none"]
                 [] req.op = "options" -> [status |-> 204, body |-> "none"]
    /\ UNCHANGED <<req, call, answer, err, cut, recorded, span, errors>>

Routed ==
    /\ req.op \in {"createTask", "getTask"}
    /\ Goto("route", "decode")
    /\ UNCHANGED <<req, call, answer, err, wire, cut, recorded, span, errors>>

(* CreateTaskRequest.Validate.  (Mutant: a handler or key may be empty.)   *)
Valid_MutMayBeEmpty(length) == length <= 128
Valid(length) == length >= 1 /\ length <= 128

decodeCreateTaskRequest ==
    /\ req.media = "json"
    /\ req.body = "object"
    /\ Valid(req.handler)
    /\ req.key # Absent => Valid(req.key)

decodeGetTaskParams == req.id = "uuid"

Decode ==
    /\ at = "decode"
    /\ IF req.op = "createTask"
         THEN \/ Goto("decode", "handler") /\ decodeCreateTaskRequest /\ UNCHANGED err
              \/ Fail("decode", "DecodeRequest") /\ ~decodeCreateTaskRequest
         ELSE \/ Goto("decode", "handler") /\ decodeGetTaskParams /\ UNCHANGED err
              \/ Fail("decode", "DecodeParams") /\ ~decodeGetTaskParams
    /\ UNCHANGED <<req, call, answer, wire, cut, recorded, span, errors>>

---------------------------------------------------------------------------
(* Handler.CreateTask and Handler.GetTask.  An absent key is "".           *)
CallService ==
    /\ Goto("handler", "service")
    /\ call' = IF req.op = "getTask" THEN NoCall
               ELSE [handler |-> req.handler,
                     key |-> IF req.key = Absent THEN 0 ELSE req.key]
    /\ UNCHANGED <<req, answer, err, wire, cut, recorded, span, errors>>

MarshalFails ==
    /\ Fail("handler", "Internal")
    /\ UNCHANGED <<req, call, answer, wire, cut, recorded, span, errors>>

(* Only a not-found read is an answer of its own; any other error goes to  *)
(* the ErrorHandler.                                                       *)
ServiceReturns(a) ==
    /\ answer' = a
    /\ IF a.kind = "error" THEN Fail("service", "Internal")
       ELSE Goto("service", IF a.kind = "task" THEN "mapping" ELSE "encode")
            /\ UNCHANGED err
    /\ UNCHANGED <<req, call, wire, cut, recorded, span, errors>>

(* The published spelling of a stored status.  (Mutant: the stored one.)   *)
toOASStatus_MutAsIs(s) == s
toOASStatus(s) == CASE s = "complete" -> "succeeded"
                    [] s = "canceled" -> "cancelled"
                    [] OTHER          -> s

Mapped == answer.status # "other"

Map ==
    /\ \/ Goto("mapping", "encode") /\ Mapped /\ UNCHANGED err
       \/ Fail("mapping", "Internal") /\ ~Mapped
    /\ UNCHANGED <<req, call, answer, wire, cut, recorded, span, errors>>

---------------------------------------------------------------------------
(* The response.  net/http sends the first status line only; codeRecorder  *)
(* keeps the last.                                                         *)
WriteHeader(status, body) ==
    /\ recorded' = status
    /\ wire' = IF wire = Unsent THEN [status |-> status, body |-> body] ELSE wire

(* The body may fail to be written after the status line was sent.         *)
Encode ==
    /\ at = "encode"
    /\ IF answer.kind = "not_found" THEN WriteHeader(404, "task_not_found")
       ELSE WriteHeader(IF req.op = "createTask" THEN 201 ELSE 200,
                        toOASStatus(answer.status))
    /\ \/ Goto("encode", "done") /\ UNCHANGED <<err, cut>>
       \/ Fail("encode", "EncodeResponse") /\ cut' = TRUE
    /\ UNCHANGED <<req, call, answer, span, errors>>

(* (Mutant: only a body is the caller's fault, a parameter is not.)        *)
ErrorHandler_MutBodyOnly ==
    /\ Goto("error", "record")
    /\ IF err = "DecodeRequest" THEN WriteHeader(400, "invalid_request_body")
       ELSE WriteHeader(500, "internal_error")
    /\ UNCHANGED <<req, call, answer, err, cut, span, errors>>

ErrorHandler ==
    /\ Goto("error", "record")
    /\ CASE err = "DecodeRequest" -> WriteHeader(400, "invalid_request_body")
         [] err = "DecodeParams"  -> WriteHeader(400, "invalid_parameter")
         [] OTHER                 -> WriteHeader(500, "internal_error")
    /\ UNCHANGED <<req, call, answer, err, cut, span, errors>>

(* Deferred, so that it sees the status the ErrorHandler has written.      *)
(* (Mutant: called first, it finds status 0.)                              *)
SpanStatus_MutNotDeferred(code) == "error"
SpanStatus(code) == IF code < 100 \/ code >= 500 THEN "error" ELSE "unset"

recordError ==
    /\ Goto("record", "done")
    /\ span' = SpanStatus(recorded)
    /\ errors' = errors + 1
    /\ UNCHANGED <<req, call, answer, err, wire, cut, recorded>>

(* What the generated handlers of the two operations have in common. *)
Exchange ==
    \/ Decode \/ CallService
    \/ \E a \in Answers(req.op) : ServiceReturns(a)
    \/ Map \/ Encode \/ ErrorHandler \/ recordError

handleCreateTaskRequest == req.op = "createTask" /\ (Exchange \/ MarshalFails)
handleGetTaskRequest == req.op = "getTask" /\ Exchange

Next ==
    \/ \E r \in CreateTaskRequest \cup GetTaskRequest \cup Unrouted : Arrive(r)
    \/ NotRouted \/ Routed
    \/ handleCreateTaskRequest \/ handleGetTaskRequest

Spec == Init /\ [][Next]_avars

---------------------------------------------------------------------------
(* Properties.                                                             *)

Over == at = "done" /\ req.op \in {"createTask", "getTask"}

(* The service is called only for a request the spec allows, and a submit  *)
(* is without a key only if the client sent none: an empty key, which the  *)
(* service would store as NULL and never replay, does not get through.     *)
OnlyValidReachesService ==
    call # NoCall =>
        /\ call.handler \in 1 .. 128 /\ call.key <= 128
        /\ call.key = 0 <=> req.key = Absent

(* Whose fault it was: 400 is sent exactly when the service was never      *)
(* called for what the client sent, 404 exactly when the service found     *)
(* nothing, 500 only when the server or its database failed - and the body *)
(* carries the code, or the published status, that goes with it.           *)
EnvelopeFits ==
    Over => \/ wire = [status |-> 400, body |-> "invalid_request_body"]
                 /\ call = NoCall /\ req.op = "createTask"
            \/ wire = [status |-> 400, body |-> "invalid_parameter"]
                 /\ answer = NoAnswer /\ req.id # "uuid"
            \/ wire = [status |-> 404, body |-> "task_not_found"]
                 /\ answer.kind = "not_found"
            \/ wire = [status |-> 500, body |-> "internal_error"]
                 /\ err = "Internal" /\ answer.kind # "not_found"
            \/ wire.status \in {200, 201} /\ wire.body \in TaskStatus
                 /\ answer.kind = "task"

(* The span of a request is marked failed, as the server's operators see   *)
(* it, exactly when the client got a 5xx or a response that broke off; the *)
(* recorded status is the one on the wire unless the response broke off,   *)
(* when it says 500 for a status line that said otherwise.                 *)
SpanTellsTheWire ==
    Over => /\ span = "error" <=> wire.status >= 500 \/ cut
            /\ recorded = IF cut THEN 500 ELSE wire.status
            /\ errors = 1 <=> wire.status \in {400, 500} \/ cut

(* What api/openapi.yaml says each operation answers.                      *)
Declared == [createTask |-> {201, 400, 500}, getTask |-> {200, 404, 500}]
DeclaredStatusOnly == Over => wire.status \in Declared[req.op]
=============================================================================
