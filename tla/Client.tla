------------------------------- MODULE Client -------------------------------
(***************************************************************************)
(* The generated client calling the server of module Api: build the URL,   *)
(* encode the request, send it, decode the response into one of the types  *)
(* the operation declares, and end the client's span.                      *)
(*                                                                         *)
(* The arguments are typed, so the id is always a UUID; but nothing is     *)
(* validated before it is sent.  The context may end at any time, and the  *)
(* connection may break: the server goes on without its client.            *)
(***************************************************************************)
EXTENDS Api

VARIABLES
    stage,    \* the client's stage, as its span would name it
    asked,    \* the operation and arguments of the call, and the URL
    got,      \* the status line and body that came back
    result,   \* the value that is returned, by its Go type
    failed,   \* the error that is returned, by the stage it comes from
    sent,     \* the request reached the server
    tries,    \* counters: requests and errors
    cspan     \* the client's span

client == <<stage, asked, got, result, failed, sent, tries, cspan>>
clvars == <<avars, client>>

(* requestURL: the URL of NewClient, or one put in the context, which may  *)
(* lead to another path.  A payload may hold a value that is no JSON: an   *)
(* empty one.                                                              *)
Call ==
    [op : {"createTask"}, url : {"api", "astray"}, handler : Lengths,
     key : Lengths \cup {Absent}, payload : {"json", "empty_raw"}]
      \cup [op : {"getTask"}, url : {"api", "astray"}]
NoneAsked == [op |-> "none", url |-> "api"]

ClientInit ==
    /\ Init
    /\ stage = "idle" /\ asked = NoneAsked
    /\ got = Unsent /\ result = "none" /\ failed = "none" /\ sent = FALSE
    /\ tries = [requests |-> 0, errors |-> 0] /\ cspan = "none"

Stage(from, to) == stage = from /\ stage' = to

---------------------------------------------------------------------------
(* sendCreateTask and sendGetTask up to the URL.  One call after another:  *)
(* the counters start afresh with each, and the next one waits for the     *)
(* server to be done with the last.                                        *)
Begin(c) ==
    /\ stage \in {"idle", "return"} /\ stage' = "BuildURL"
    /\ at \in {"idle", "done"}
    /\ cspan \in {"none", "ok", "SendRequest", "DecodeResponse"}
    /\ asked' = c
    /\ got' = Unsent /\ result' = "none" /\ failed' = "none" /\ sent' = FALSE
    /\ tries' = [requests |-> 1, errors |-> 0]
    /\ cspan' = "open"
    /\ UNCHANGED avars

BuildURL ==
    /\ Stage("BuildURL", "EncodeRequest")
    /\ UNCHANGED <<avars, asked, got, result, failed, sent, tries, cspan>>

EncodeRequest ==
    /\ Stage("EncodeRequest", "SendRequest")
    /\ UNCHANGED <<avars, asked, got, result, failed, sent, tries, cspan>>

(* What the server finds in the request.  An optional field that is set is *)
(* written even when it is empty.                                          *)
Encoded ==
    [op |-> "createTask", media |-> "json",
     body |-> IF asked.payload = "json" THEN "object" ELSE "malformed",
     handler |-> asked.handler, key |-> asked.key]

Send ==
    /\ stage = "SendRequest" /\ ~sent
    /\ sent' = TRUE
    /\ Arrive(IF asked.url = "astray" THEN [op |-> "path"]
              ELSE IF asked.op = "createTask" THEN Encoded
              ELSE [op |-> "getTask", id |-> "uuid"])
    /\ UNCHANGED <<stage, asked, got, result, failed, tries, cspan>>

(* Client.Do returns an error: the request was never sent, or its answer   *)
(* is not waited for, or is lost.                                          *)
SendFails ==
    /\ Stage("SendRequest", "return")
    /\ failed' = "SendRequest"
    /\ UNCHANGED <<avars, asked, got, result, sent, tries, cspan>>

(* Client.Do returns the response.                                         *)
Response ==
    /\ Stage("SendRequest", "DecodeResponse")
    /\ sent /\ at = "done"
    /\ got' = wire
    /\ UNCHANGED <<avars, asked, result, failed, sent, tries, cspan>>

---------------------------------------------------------------------------
(* The types an operation declares, by status.                             *)
decodeCreateTaskResponse(status) ==
    CASE status = 201 -> "Task"
      [] status = 400 -> "CreateTaskBadRequest"
      [] status = 500 -> "CreateTaskInternalServerError"
      [] OTHER        -> "none"

decodeGetTaskResponse(status) ==
    CASE status = 200 -> "Task"
      [] status = 404 -> "GetTaskNotFound"
      [] status = 500 -> "GetTaskInternalServerError"
      [] OTHER        -> "none"

Declares(status) == IF asked.op = "createTask" THEN decodeCreateTaskResponse(status)
                    ELSE decodeGetTaskResponse(status)

(* A whole JSON body, which decodes as that type and passes its validator. *)
Parses(type) == got.body \in (IF type = "Task" THEN TaskStatus ELSE ErrorCode)

(* (Mutant: a body that is no task is returned as an empty one.)           *)
DecodeResponse_MutTrusts ==
    /\ Stage("DecodeResponse", "return")
    /\ ~cut /\ Declares(got.status) # "none"
    /\ result' = Declares(got.status)
    /\ UNCHANGED <<avars, asked, got, failed, sent, tries, cspan>>

DecodeResponse ==
    /\ Stage("DecodeResponse", "return")
    /\ ~cut /\ Declares(got.status) # "none" /\ Parses(Declares(got.status))
    /\ result' = Declares(got.status)
    /\ UNCHANGED <<avars, asked, got, failed, sent, tries, cspan>>

(* A status the operation does not declare, another media type, a body     *)
(* that breaks off: the connection may also break after the status line.   *)
(* (Mutant: an answer that does not parse is asked for again.)             *)
DecodeFails_MutRetries ==
    /\ Stage("DecodeResponse", "SendRequest")
    /\ \/ cut \/ Declares(got.status) = "none"
       \/ ~Parses(Declares(got.status))
    /\ sent' = FALSE
    /\ UNCHANGED <<avars, asked, got, result, failed, tries, cspan>>

DecodeFails ==
    /\ Stage("DecodeResponse", "return")
    /\ failed' = "DecodeResponse"
    /\ \/ cut \/ Declares(got.status) = "none"
       \/ ~Parses(Declares(got.status))
    /\ UNCHANGED <<avars, asked, got, result, sent, tries, cspan>>

ConnectionBreaks ==
    /\ stage = "DecodeResponse" /\ got.body # "none"
    /\ got' = [got EXCEPT !.body = "none"]
    /\ UNCHANGED <<avars, stage, asked, result, failed, sent, tries, cspan>>

(* The deferred function: only an error marks the span.                    *)
EndSpan ==
    /\ stage = "return" /\ cspan = "open"
    /\ IF failed = "none" THEN cspan' = "ok" /\ UNCHANGED tries
       ELSE cspan' = failed /\ tries' = [tries EXCEPT !.errors = @ + 1]
    /\ UNCHANGED <<avars, stage, asked, got, result, failed, sent>>

(* The server's own steps.                                                 *)
Serve ==
    /\ NotRouted \/ Routed \/ handleCreateTaskRequest \/ handleGetTaskRequest
    /\ UNCHANGED client

(* A request of somebody else, which may be anything.  Exchanges share     *)
(* nothing, so it is enough to let them come before the calls.             *)
Other ==
    /\ stage = "idle"
    /\ \E r \in CreateTaskRequest \cup GetTaskRequest \cup Unrouted : Arrive(r)
    /\ UNCHANGED client

ClientNext ==
    \/ Other
    \/ \E c \in Call : Begin(c)
    \/ BuildURL \/ EncodeRequest \/ Send \/ SendFails
    \/ Response \/ ConnectionBreaks \/ DecodeResponse \/ DecodeFails \/ EndSpan
    \/ Serve

ClientSpec == ClientInit /\ [][ClientNext]_clvars

(* Fairness: both sides run, the answer of a server that is done arrives,  *)
(* and the service answers; nothing is forced to fail.                     *)
Progress ==
    \/ BuildURL \/ EncodeRequest \/ Send \/ Response
    \/ DecodeResponse \/ DecodeFails \/ EndSpan \/ Serve

ClientFairSpec == ClientSpec /\ WF_clvars(Progress)

---------------------------------------------------------------------------
(* Properties.                                                             *)

Returned == stage = "return"

(* Every answer the server gives to a call of the client parses: an error  *)
(* comes from the transport or from a URL that leads elsewhere, never from *)
(* a status, a code or a spelling that one side has and the other has not  *)
(* (what internal/api/errors.go promises of a client generated from the    *)
(* spec).                                                                  *)
EveryAnswerParses ==
    Returned /\ failed = "DecodeResponse" =>
        asked.url = "astray" \/ cut \/ got.body = "none"

(* What a call returns is what happened: a task only if the service gave   *)
(* one for these very arguments, "not found" only if it found none, "bad   *)
(* request" exactly for arguments the service was never called with.       *)
ResultIsTrue ==
    Returned /\ result # "none" =>
        /\ result = "Task" <=> answer.kind = "task" /\ err = "none"
        /\ result = "GetTaskNotFound" <=> answer.kind = "not_found"
        /\ result = "CreateTaskBadRequest" <=>
               asked.op = "createTask" /\ call = NoCall /\ err = "DecodeRequest"
        /\ result = "Task" /\ asked.op = "createTask" =>
               /\ call.handler = asked.handler /\ Valid(asked.handler)
               /\ call.key = IF asked.key = Absent THEN 0 ELSE asked.key

(* Once both are over, the two spans of a call agree when nothing went     *)
(* wrong in between, but for a 5xx: the server's span is failed, the       *)
(* client's is not, because to the client it is a value like any other.    *)
SpansAgree ==
    cspan = "ok" =>
        (span = "error" <=>
           result \in {"CreateTaskInternalServerError", "GetTaskInternalServerError"})

(* A call always ends, if the server does not hang.                        *)
CallReturns == stage = "BuildURL" ~> stage = "return"
=============================================================================
