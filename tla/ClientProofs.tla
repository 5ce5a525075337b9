---------------------------- MODULE ClientProofs ----------------------------
(***************************************************************************)
(* The exchange of module Api and the call of module Client, for strings   *)
(* of any lengths.  The invariant of the server says at each stage what is *)
(* on the wire and whose fault it is; the client's says which answer of    *)
(* the server it is looking at.                                            *)
(***************************************************************************)
EXTENDS Client, TLAPS

Asks == CreateTaskRequest \cup GetTaskRequest
Early == {"route", "decode", "handler", "service", "mapping", "encode"}
Stages == Early \cup {"idle", "error", "record", "done"}
Routes == {"createTask", "getTask"}

Types ==
    /\ at \in Stages
    /\ req \in Asks \cup Unrouted \cup {NoRequest}
    /\ answer \in Answers("getTask") \cup {NoAnswer}
    /\ err \in {"none", "DecodeRequest", "DecodeParams", "Internal", "EncodeResponse"}
    /\ at = "idle" <=> req = NoRequest
    /\ at \in Stages \ {"idle", "route", "done"} => req.op \in Routes

(* What was decoded: the service is called for nothing else.               *)
Decoded ==
    IF req.op = "createTask" THEN decodeCreateTaskRequest ELSE decodeGetTaskParams

Arguments ==
    [handler |-> req.handler, key |-> IF req.key = Absent THEN 0 ELSE req.key]

(* The answer of the service, to these arguments, as it was sent.          *)
SentAnswer ==
    \/ /\ answer = [kind |-> "not_found"] /\ req.op = "getTask"
       /\ wire = [status |-> 404, body |-> "task_not_found"]
    \/ /\ answer.kind = "task" /\ Mapped
       /\ wire = [status |-> IF req.op = "createTask" THEN 201 ELSE 200,
                  body |-> toOASStatus(answer.status)]
       /\ req.op = "createTask" => call = Arguments

(* What each error stands for, before the ErrorHandler has seen it.        *)
Cause ==
    \/ /\ err = "DecodeRequest" /\ req.op = "createTask"
       /\ call = NoCall /\ answer = NoAnswer
    \/ err = "DecodeParams" /\ req.op = "getTask" /\ answer = NoAnswer /\ req.id # "uuid"
    \/ err = "Internal" /\ answer.kind # "not_found" /\ Decoded
    \/ err = "EncodeResponse" /\ SentAnswer /\ Decoded

(* And what it has sent for it.                                            *)
SentError ==
    /\ err = "DecodeRequest" => wire = [status |-> 400, body |-> "invalid_request_body"]
    /\ err = "DecodeParams"  => wire = [status |-> 400, body |-> "invalid_parameter"]
    /\ err = "Internal"      => wire = [status |-> 500, body |-> "internal_error"]
    /\ recorded = IF err \in {"DecodeRequest", "DecodeParams"} THEN 400 ELSE 500

Quiet == span = "unset" /\ errors = 0

ServerInv ==
    /\ Types
    /\ call # NoCall => req.op = "createTask" /\ Decoded /\ call = Arguments
    /\ at \in {"idle"} \cup Early =>
          wire = Unsent /\ err = "none" /\ ~cut /\ recorded = 0 /\ Quiet
    /\ at \in {"route", "decode", "handler"} => call = NoCall
    /\ at \in {"route", "decode", "handler", "service"} => answer = NoAnswer
    /\ at \in {"handler", "service", "mapping", "encode"} => Decoded
    /\ at \in {"service", "mapping", "encode"} /\ req.op = "createTask" =>
          call = Arguments
    /\ at = "mapping" => answer.kind = "task"
    /\ at = "encode" =>
          \/ answer = [kind |-> "not_found"] /\ req.op = "getTask"
          \/ answer.kind = "task" /\ Mapped
    /\ at = "error" => /\ Cause /\ Quiet
                       /\ cut <=> err = "EncodeResponse"
                       /\ err # "EncodeResponse" => wire = Unsent
    /\ at = "record" => /\ Cause /\ Quiet /\ SentError
                        /\ cut <=> err = "EncodeResponse"
    /\ at = "done" /\ req.op \in Routes =>
          \/ /\ err = "none" /\ SentAnswer /\ Decoded
             /\ recorded = wire.status /\ ~cut /\ Quiet
          \/ /\ Cause /\ SentError
             /\ cut <=> err = "EncodeResponse"
             /\ span = SpanStatus(recorded) /\ errors = 1
    /\ at = "done" /\ req.op \notin Routes =>
          wire.body \in {"text", "none"} /\ ~cut

---------------------------------------------------------------------------
(* What the client sent, if it has.                                        *)
Request ==
    IF asked.url = "astray" THEN [op |-> "path"]
    ELSE IF asked.op = "createTask" THEN Encoded
    ELSE [op |-> "getTask", id |-> "uuid"]

(* The response is the server's, but for a body that broke off.            *)
FromServer ==
    /\ sent /\ at = "done"
    /\ got.status = wire.status /\ got.body \in {wire.body, "none"}

Unfit == cut \/ Declares(got.status) = "none" \/ ~Parses(Declares(got.status))

CallInv ==
    /\ stage \in {"idle", "BuildURL", "EncodeRequest", "SendRequest",
                  "DecodeResponse", "return"}
    /\ sent \in BOOLEAN
    /\ failed \in {"none", "SendRequest", "DecodeResponse"}
    /\ stage # "idle" => asked \in Call
    /\ sent => at # "idle" /\ req = Request
    /\ stage \in {"idle", "BuildURL", "EncodeRequest"} => ~sent
    /\ stage = "DecodeResponse" => FromServer
    /\ stage # "return" => result = "none" /\ failed = "none"
    /\ stage = "return" /\ result # "none" =>
          FromServer /\ failed = "none" /\ result = Declares(got.status) /\ ~Unfit
    /\ stage = "return" /\ failed = "DecodeResponse" => FromServer /\ Unfit
    /\ stage = "return" /\ failed = "none" => result # "none"
    /\ cspan = "ok" => stage = "return" /\ failed = "none"

ClientInv == ServerInv /\ CallInv

---------------------------------------------------------------------------
(* The server.                                                             *)

(* The fields of the two kinds of request.                                 *)
LEMMA RequestFields ==
    ASSUME NEW r \in Asks
    PROVE  /\ r.op \in Routes
           /\ r.op = "createTask" => r \in CreateTaskRequest
           /\ r.op = "getTask" => r \in GetTaskRequest
BY DEF Asks, Routes, CreateTaskRequest, GetTaskRequest

(* What the server starts with.                                            *)
LEMMA InitInv == Init => ServerInv
BY AbsentAssumption DEF Init, ServerInv, Types, Stages, Early, NoRequest, Routes, NoAnswer, NoCall, Unsent, Quiet

(* A request that arrives finds nothing of the one before.                 *)
LEMMA ArriveInv ==
    ASSUME ServerInv, NEW r \in Asks \cup Unrouted, Arrive(r)
    PROVE  ServerInv'
<1>1. r.op \in {"createTask", "getTask", "path", "method", "options"}
  BY DEF Asks, Unrouted, CreateTaskRequest, GetTaskRequest
<1>2. Types'
  BY <1>1 DEF Types, Arrive, Fresh, NoAnswer, NoRequest, Stages, Early, Routes
<1> QED
  BY <1>2 DEF ServerInv, Arrive, Fresh, NoAnswer, NoCall, Unsent, Quiet, Early

(* What is not routed is answered without an envelope.                     *)
LEMMA NotRoutedInv == ASSUME ServerInv, NotRouted PROVE ServerInv'
BY DEF ServerInv, NotRouted, Goto, Types, Stages, Early, Routes

(* Routing changes the stage only.                                         *)
LEMMA RoutedInv == ASSUME ServerInv, Routed PROVE ServerInv'
BY DEF ServerInv, Routed, Goto, Types, Stages, Early, Routes, Quiet

(* Decoding: what gets through is decoded, what does not is the caller's.  *)
LEMMA DecodeInv == ASSUME ServerInv, Decode PROVE ServerInv'
BY DEF ServerInv, Decode, Goto, Fail, Types, Stages, Early, Routes, Quiet, Cause,
       Decoded, decodeCreateTaskRequest, decodeGetTaskParams

(* The service is called with the arguments of the request.                *)
LEMMA CallServiceInv == ASSUME ServerInv, CallService PROVE ServerInv'
BY DEF ServerInv, CallService, Goto, Types, Stages, Early, Routes, Quiet,
       Decoded, Arguments, decodeCreateTaskRequest, decodeGetTaskParams

(* A payload that does not marshal is the server's fault.                  *)
LEMMA MarshalFailsInv ==
    ASSUME ServerInv, MarshalFails, req.op = "createTask"
    PROVE  ServerInv'
BY DEF ServerInv, MarshalFails, Goto, Fail, Types, Stages, Early, Routes, Quiet,
       Cause, NoAnswer, Decoded, decodeCreateTaskRequest, decodeGetTaskParams

(* Whatever the service returns, "not found" answers a read only.          *)
LEMMA ServiceReturnsInv ==
    ASSUME ServerInv, NEW a \in Answers(req.op), ServiceReturns(a)
    PROVE  ServerInv'
<1>1. UNCHANGED <<req, call, wire, cut, recorded, span, errors>> /\ answer' = a
  BY DEF ServiceReturns
<1>2. Decoded' /\ Arguments' = Arguments
  BY <1>1 DEF ServerInv, ServiceReturns, Goto, Fail, Decoded, Arguments,
     decodeCreateTaskRequest, decodeGetTaskParams
<1>3. /\ a \in Answers("getTask")
      /\ a.kind = "not_found" => a = [kind |-> "not_found"] /\ req.op = "getTask"
      /\ a.kind \in {"task", "error", "not_found"}
  BY DEF Answers
<1>4. CASE a.kind = "error"
  <2>1. at' = "error" /\ err' = "Internal" /\ at = "service"
    BY <1>4 DEF ServiceReturns, Fail, Goto
  <2>2. Types'
    BY <1>1, <1>3, <2>1 DEF ServerInv, Types, Stages, Early, Routes
  <2>3. Cause' /\ Quiet'
    BY <1>1, <1>2, <1>4, <2>1 DEF ServerInv, Cause, Quiet, Early
  <2> QED
    BY <1>1, <1>2, <2>1, <2>2, <2>3 DEF ServerInv, Early
<1>5. CASE a.kind # "error"
  <2>1. /\ at = "service" /\ UNCHANGED err
        /\ at' = IF a.kind = "task" THEN "mapping" ELSE "encode"
    BY <1>5 DEF ServiceReturns, Goto
  <2>2. Types'
    BY <1>1, <1>3, <2>1 DEF ServerInv, Types, Stages, Early, Routes
  <2>3. Quiet'
    BY <1>1, <2>1 DEF ServerInv, Quiet, Early
  <2> QED
    BY <1>1, <1>2, <1>3, <1>5, <2>1, <2>2, <2>3 DEF ServerInv, Early
<1> QED BY <1>4, <1>5

(* A status the API does not know never reaches the encoder.               *)
LEMMA MapInv == ASSUME ServerInv, Map PROVE ServerInv'
<1>1. /\ UNCHANGED <<req, call, answer, wire, cut, recorded, span, errors>>
      /\ at = "mapping" /\ answer.kind = "task"
      /\ \/ at' = "encode" /\ Mapped /\ UNCHANGED err
         \/ at' = "error" /\ err' = "Internal"
  BY DEF ServerInv, Map, Goto, Fail
<1>2. Types'
  BY <1>1 DEF ServerInv, Types, Stages, Early, Routes
<1>3. Decoded' /\ Arguments' = Arguments /\ Quiet' /\ (Mapped => Mapped')
  BY <1>1 DEF ServerInv, Early, Quiet, Mapped, Decoded, Arguments,
     decodeCreateTaskRequest, decodeGetTaskParams
<1> QED
  BY <1>1, <1>2, <1>3 DEF ServerInv, Early, Cause

(* The answer is on the wire, whole or broken off.                         *)
LEMMA EncodeInv == ASSUME ServerInv, Encode PROVE ServerInv'
<1>1. /\ UNCHANGED <<req, call, answer, span, errors>> /\ at = "encode"
      /\ recorded' = wire'.status
      /\ \/ at' = "done" /\ UNCHANGED <<err, cut>>
         \/ at' = "error" /\ err' = "EncodeResponse" /\ cut' = TRUE
  BY DEF Encode, WriteHeader, ServerInv, Early, Goto, Fail
<1>2. Decoded' /\ Arguments' = Arguments
  BY <1>1 DEF ServerInv, Decoded, Arguments, decodeCreateTaskRequest, decodeGetTaskParams
<1>3. Types'
  BY <1>1 DEF ServerInv, Types, Stages, Early, Routes
<1>4. SentAnswer'
  BY <1>2 DEF SentAnswer, Encode, WriteHeader, ServerInv, Early, Mapped
<1>5. Quiet' /\ err = "none" /\ cut = FALSE
  BY <1>1 DEF ServerInv, Quiet, Early
<1> QED
  BY <1>1, <1>2, <1>3, <1>4, <1>5 DEF ServerInv, Early, Cause, Types

(* The ErrorHandler writes what goes with the cause, if nothing was sent.  *)
LEMMA ErrorHandlerInv == ASSUME ServerInv, ErrorHandler PROVE ServerInv'
<1>1. /\ UNCHANGED <<req, call, answer, err, cut, span, errors>>
      /\ at = "error" /\ at' = "record"
  BY DEF ErrorHandler, Goto
<1>2. /\ Cause /\ Quiet
      /\ cut <=> err = "EncodeResponse"
      /\ err # "EncodeResponse" => wire = Unsent
      /\ err \in {"DecodeRequest", "DecodeParams", "Internal", "EncodeResponse"}
  BY <1>1 DEF ServerInv, Cause
<1>3. SentError' /\ (err = "EncodeResponse" => wire' = wire)
  <2>1. CASE err = "DecodeRequest"
    BY <1>1, <1>2, <2>1 DEF SentError, ErrorHandler, WriteHeader
  <2>2. CASE err = "DecodeParams"
    BY <1>1, <1>2, <2>2 DEF SentError, ErrorHandler, WriteHeader
  <2>3. CASE err \in {"Internal", "EncodeResponse"}
    <3>1. WriteHeader(500, "internal_error")
      BY <2>3 DEF ErrorHandler
    <3>2. err = "EncodeResponse" => wire # Unsent
      BY <1>2 DEF Cause, SentAnswer, Unsent
    <3> QED
      BY <1>1, <1>2, <2>3, <3>1, <3>2 DEF SentError, WriteHeader
  <2> QED BY <1>2, <2>1, <2>2, <2>3
<1>4. Types'
  BY <1>1 DEF ServerInv, Types, Stages, Early, Routes
<1>5. (Decoded' <=> Decoded) /\ Arguments' = Arguments /\ Quiet'
  BY <1>1, <1>2 DEF Decoded, Arguments, Quiet, decodeCreateTaskRequest, decodeGetTaskParams
<1>6. Cause'
  BY <1>1, <1>2, <1>3, <1>5 DEF Cause, SentAnswer, Mapped
<1> QED
  BY <1>1, <1>2, <1>3, <1>4, <1>5, <1>6 DEF ServerInv, Early

(* The record is made of what the ErrorHandler has written.                *)
LEMMA recordErrorInv == ASSUME ServerInv, recordError PROVE ServerInv'
<1>1. /\ UNCHANGED <<req, call, answer, err, wire, cut, recorded>>
      /\ at = "record" /\ at' = "done"
      /\ span' = SpanStatus(recorded') /\ errors' = errors + 1
  BY DEF recordError, Goto
<1>2. Cause /\ Quiet /\ SentError /\ (cut <=> err = "EncodeResponse")
  BY <1>1 DEF ServerInv
<1>3. Types'
  BY <1>1 DEF ServerInv, Types, Stages, Early, Routes
<1>4. (Decoded' <=> Decoded) /\ Arguments' = Arguments
  BY <1>1 DEF Decoded, Arguments, decodeCreateTaskRequest, decodeGetTaskParams
<1>5. Cause' /\ SentError'
  BY <1>1, <1>2, <1>4 DEF Cause, SentAnswer, Mapped, SentError
<1> QED
  BY <1>1, <1>2, <1>3, <1>4, <1>5 DEF ServerInv, Early, Quiet, Types

(* A step of the handlers, and a step that leaves the exchange alone.      *)
LEMMA ServeInv ==
    ASSUME ServerInv, NotRouted \/ Routed \/ handleCreateTaskRequest \/ handleGetTaskRequest
    PROVE  ServerInv'
<1>1. CASE NotRouted \/ Routed
  BY <1>1, NotRoutedInv, RoutedInv
<1>2. CASE req.op = "createTask" /\ MarshalFails
  BY <1>2, MarshalFailsInv
<1>3. CASE Exchange
  <2>1. CASE Decode \/ CallService \/ Map \/ Encode \/ ErrorHandler \/ recordError
    BY <2>1, DecodeInv, CallServiceInv, MapInv, EncodeInv, ErrorHandlerInv, recordErrorInv
  <2>2. CASE \E a \in Answers(req.op) : ServiceReturns(a)
    BY <2>2, ServiceReturnsInv
  <2> QED BY <1>3, <2>1, <2>2 DEF Exchange
<1> QED BY <1>1, <1>2, <1>3 DEF handleCreateTaskRequest, handleGetTaskRequest

(* A step of somebody else leaves the exchange alone.                      *)
LEMMA UnchangedServerInv == ASSUME ServerInv, UNCHANGED avars PROVE ServerInv'
<1>1. /\ Types' /\ Arguments' = Arguments
      /\ Decoded' <=> Decoded
      /\ Mapped' <=> Mapped
      /\ Quiet' <=> Quiet
  BY DEF ServerInv, Types, Arguments, Decoded, decodeCreateTaskRequest,
     decodeGetTaskParams, Mapped, Quiet, avars
<1>2. SentAnswer' <=> SentAnswer
  BY <1>1 DEF SentAnswer, avars
<1>3. (SentError' <=> SentError) /\ (Cause' <=> Cause)
  BY <1>1, <1>2 DEF SentError, Cause, avars
<1> QED
  BY <1>1, <1>2, <1>3 DEF ServerInv, avars

(* So does any step of an exchange.                                        *)
LEMMA ServerStep == ASSUME ServerInv, [Next]_avars PROVE ServerInv'
<1>1. CASE \E r \in CreateTaskRequest \cup GetTaskRequest \cup Unrouted : Arrive(r)
  BY <1>1, ArriveInv DEF Asks
<1>2. CASE NotRouted \/ Routed \/ handleCreateTaskRequest \/ handleGetTaskRequest
  BY <1>2, ServeInv
<1> QED
  BY <1>1, <1>2, UnchangedServerInv DEF Next

(* The server keeps the invariant, whatever it is asked.                   *)
THEOREM ServerIsConsistent == Spec => []ServerInv
<1>1. Init => ServerInv
  BY InitInv
<1>2. ServerInv /\ [Next]_avars => ServerInv'
  BY ServerStep
<1> QED
  BY <1>1, <1>2, PTL DEF Spec

(* The service is called only for what validates.                          *)
LEMMA OnlyValidLemma == ServerInv => OnlyValidReachesService
<1> SUFFICES ASSUME ServerInv, call # NoCall PROVE OnlyValidReachesService
  BY DEF OnlyValidReachesService
<1>1. /\ call = Arguments /\ req \in CreateTaskRequest
      /\ Valid(req.handler) /\ (req.key # Absent => Valid(req.key))
  BY RequestFields DEF ServerInv, Types, Decoded, decodeCreateTaskRequest,
     Unrouted, NoRequest, Routes
<1>2. req.handler \in Nat /\ req.key \in Nat \cup {Absent}
  BY <1>1, LengthsAssumption DEF CreateTaskRequest
<1> QED
  BY <1>1, <1>2, AbsentAssumption DEF OnlyValidReachesService, Arguments, Valid

(* The status line and the body of an answer of the service.               *)
LEMMA AnswerFits ==
    ASSUME ServerInv, SentAnswer
    PROVE  \/ /\ wire = [status |-> 404, body |-> "task_not_found"]
              /\ answer.kind = "not_found" /\ req.op = "getTask"
           \/ /\ answer.kind = "task" /\ wire.body \in TaskStatus
              /\ wire.status = IF req.op = "createTask" THEN 201 ELSE 200
<1>1. CASE answer = [kind |-> "not_found"]
  BY <1>1 DEF SentAnswer
<1>2. CASE answer.kind = "task" /\ Mapped
  <2>1. answer \in [kind : {"task"}, status : Status]
    BY <1>2 DEF ServerInv, Types, Answers, NoAnswer
  <2>2. toOASStatus(answer.status) \in TaskStatus
    BY <1>2, <2>1 DEF Status, TaskStatus, toOASStatus, Mapped
  <2> QED
    BY <1>2, <2>2 DEF SentAnswer
<1> QED BY <1>1, <1>2 DEF SentAnswer

(* Who is to blame is what the envelope says.                              *)
LEMMA EnvelopeLemma == ServerInv => EnvelopeFits
<1> SUFFICES ASSUME ServerInv, Over PROVE EnvelopeFits
  BY DEF EnvelopeFits
<1>1. CASE SentAnswer
  BY <1>1, AnswerFits DEF EnvelopeFits
<1>2. CASE Cause /\ SentError /\ err # "EncodeResponse"
  BY <1>2 DEF Cause, SentError, EnvelopeFits
<1> QED
  BY <1>1, <1>2 DEF ServerInv, Over, Routes, Cause

(* What is recorded is what the client saw.                                *)
LEMMA SpanLemma == ServerInv => SpanTellsTheWire
<1> SUFFICES ASSUME ServerInv, Over PROVE SpanTellsTheWire
  BY DEF SpanTellsTheWire
<1>1. CASE /\ err = "none" /\ SentAnswer
           /\ recorded = wire.status /\ ~cut /\ Quiet
  BY <1>1, AnswerFits DEF Quiet, SpanTellsTheWire
<1>2. CASE /\ Cause /\ SentError /\ span = SpanStatus(recorded) /\ errors = 1
           /\ cut <=> err = "EncodeResponse"
  <2>1. CASE err = "EncodeResponse"
    BY <1>2, <2>1, AnswerFits DEF Cause, SentError, SpanStatus, SpanTellsTheWire
  <2>2. CASE err # "EncodeResponse"
    BY <1>2, <2>2 DEF Cause, SentError, SpanStatus, SpanTellsTheWire
  <2> QED BY <2>1, <2>2
<1> QED
  BY <1>1, <1>2 DEF ServerInv, Over, Routes

(* A request the service is called for is within the limits of the spec.   *)
THEOREM ServiceSeesOnlyValid == Spec => []OnlyValidReachesService
BY ServerIsConsistent, OnlyValidLemma, PTL

(* The status line and the envelope say whose fault it was.                *)
THEOREM EnvelopeSaysWhoseFault == Spec => []EnvelopeFits
BY ServerIsConsistent, EnvelopeLemma, PTL

(* Span, recorded status and error counter agree with the wire.            *)
THEOREM SpanIsHonest == Spec => []SpanTellsTheWire
BY ServerIsConsistent, SpanLemma, PTL

---------------------------------------------------------------------------
(* The client.                                                             *)

(* What the client starts with.                                            *)
LEMMA ClientInitInv == ClientInit => CallInv
BY DEF ClientInit, Init, CallInv

(* The requests of others come before the calls.                           *)
LEMMA OtherInv == ASSUME CallInv, Other PROVE CallInv'
BY DEF CallInv, Other, client, Arrive

(* A call starts afresh.                                                   *)
LEMMA BeginInv == ASSUME CallInv, NEW c \in Call, Begin(c) PROVE CallInv'
BY DEF CallInv, Begin, avars

(* Nothing is sent before the URL is built ...                             *)
LEMMA BuildURLInv == ASSUME CallInv, BuildURL PROVE CallInv'
BY DEF CallInv, BuildURL, Stage, avars

(* ... and the request encoded.                                            *)
LEMMA EncodeRequestInv == ASSUME CallInv, EncodeRequest PROVE CallInv'
BY DEF CallInv, EncodeRequest, Stage, avars

(* What the server finds is the request of this call.                      *)
LEMMA SendInv == ASSUME CallInv, Send PROVE CallInv'
<1>1. Request' = Request /\ req' = Request
  BY DEF Send, Arrive, Request, Encoded
<1> QED
  BY <1>1 DEF CallInv, Send, Arrive

(* Without an answer there is no result.                                   *)
LEMMA SendFailsInv == ASSUME CallInv, SendFails PROVE CallInv'
<1>1. Request' = Request
  BY DEF SendFails, Request, Encoded
<1> QED
  BY <1>1 DEF CallInv, SendFails, Stage, avars

(* The response is what the server has sent when it is done.               *)
LEMMA ResponseInv == ASSUME CallInv, Response PROVE CallInv'
<1>1. Request' = Request
  BY DEF Response, Request, Encoded
<1> QED
  BY <1>1 DEF CallInv, Response, Stage, FromServer, avars

(* A body that breaks off keeps its status line.                           *)
LEMMA ConnectionBreaksInv == ASSUME CallInv, ConnectionBreaks PROVE CallInv'
<1>1. Request' = Request
  BY DEF ConnectionBreaks, Request, Encoded
<1>2. FromServer'
  BY DEF CallInv, ConnectionBreaks, FromServer, avars
<1> QED
  BY <1>1, <1>2 DEF CallInv, ConnectionBreaks, avars

(* The answer that is decoded is still what the server sent.               *)
LEMMA SameAnswer ==
    ASSUME UNCHANGED <<avars, asked, got, sent>>
    PROVE  /\ Request' = Request
           /\ FromServer' <=> FromServer
           /\ Unfit' <=> Unfit
           /\ Declares(got.status)' = Declares(got.status)
<1>1. Declares(got.status)' = Declares(got.status)
  BY DEF Declares
<1> QED
  BY <1>1 DEF Request, Encoded, FromServer, Unfit, Parses, avars

(* A result is of the type the status declares.                            *)
LEMMA DecodeResponseInv == ASSUME CallInv, DecodeResponse PROVE CallInv'
BY SameAnswer DEF CallInv, DecodeResponse, Stage, Unfit, avars

(* What fails to decode is unfit.                                          *)
LEMMA DecodeFailsInv == ASSUME CallInv, DecodeFails PROVE CallInv'
BY SameAnswer DEF CallInv, DecodeFails, Stage, Unfit, avars

(* The span is ended by what is returned.                                  *)
LEMMA EndSpanInv == ASSUME CallInv, EndSpan PROVE CallInv'
BY SameAnswer DEF CallInv, EndSpan, avars
(* The server's steps end at "done", and none starts there.                *)
LEMMA ServeInvClient == ASSUME ServerInv, CallInv, Serve PROVE CallInv'
<1>1. at \notin {"idle", "done"} /\ at' # "idle" /\ UNCHANGED req /\ UNCHANGED client
  BY DEF Serve, NotRouted, Routed, handleCreateTaskRequest, handleGetTaskRequest,
     Exchange, MarshalFails, Decode, CallService, ServiceReturns, Map, Encode,
     ErrorHandler, recordError, Goto, Fail
<1>2. Request' = Request
  BY <1>1 DEF Request, Encoded, client
<1>3. ~FromServer
  BY <1>1 DEF FromServer
<1> QED
  BY <1>1, <1>2, <1>3 DEF CallInv, client

(* Nothing changes.                                                        *)
LEMMA StutterInv == ASSUME CallInv, UNCHANGED clvars PROVE CallInv'
BY SameAnswer DEF CallInv, clvars, client, avars

(* What the client sends is one of the requests a server may find.         *)
LEMMA RequestIsOne == ASSUME asked \in Call PROVE Request \in Asks \cup Unrouted
<1>1. CASE asked.url = "astray"
  BY <1>1 DEF Request, Unrouted
<1>2. CASE asked.url # "astray" /\ asked.op = "createTask"
  <2>1. asked.handler \in Lengths /\ asked.key \in Lengths \cup {Absent}
    BY <1>2 DEF Call
  <2> QED BY <1>2, <2>1 DEF Request, Encoded, Asks, CreateTaskRequest
<1>3. CASE asked.url # "astray" /\ asked.op # "createTask"
  BY <1>3 DEF Request, Asks, GetTaskRequest
<1> QED BY <1>1, <1>2, <1>3

(* For the server the client is one more caller.                           *)
LEMMA ClientStepIsServerStep ==
    ASSUME CallInv, [ClientNext]_clvars
    PROVE  [Next]_avars
<1>1. CASE Send
  <2>1. Arrive(Request) /\ asked \in Call
    BY <1>1 DEF CallInv, Send, Request
  <2> QED
    BY <2>1, RequestIsOne DEF Next, Asks
<1>2. CASE Other
  BY <1>2 DEF Other, Next
<1>3. CASE Serve
  BY <1>3 DEF Serve, Next
<1>4. CASE UNCHANGED avars
  BY <1>4
<1> QED
  BY <1>1, <1>2, <1>3, <1>4 DEF ClientNext, clvars, Begin, BuildURL, EncodeRequest,
     SendFails, Response, ConnectionBreaks, DecodeResponse, DecodeFails, EndSpan

(* Each step of the composition keeps both invariants.                     *)
LEMMA ClientStep ==
    ASSUME ClientInv, [ClientNext]_clvars
    PROVE  ClientInv'
<1>1. ServerInv'
  BY ClientStepIsServerStep, ServerStep DEF ClientInv
<1>2. CallInv'
  <2> USE DEF ClientInv
  <2>1. CASE \E c \in Call : Begin(c)
    BY <2>1, BeginInv
  <2>2. CASE Other \/ BuildURL \/ EncodeRequest \/ Send \/ SendFails
    BY <2>2, OtherInv, BuildURLInv, EncodeRequestInv, SendInv, SendFailsInv
  <2>3. CASE Response \/ ConnectionBreaks \/ DecodeResponse \/ DecodeFails \/ EndSpan
    BY <2>3, ResponseInv, ConnectionBreaksInv, DecodeResponseInv, DecodeFailsInv, EndSpanInv
  <2>4. CASE Serve
    BY <2>4, ServeInvClient
  <2> QED
    BY <2>1, <2>2, <2>3, <2>4, StutterInv DEF ClientNext
<1> QED BY <1>1, <1>2 DEF ClientInv

(* Both sides keep their invariants together.                              *)
THEOREM ClientIsConsistent == ClientSpec => []ClientInv
<1>1. ClientInit => ClientInv
  BY InitInv, ClientInitInv DEF ClientInit, ClientInv
<1>2. ClientInv /\ [ClientNext]_clvars => ClientInv'
  BY ClientStep
<1> QED
  BY <1>1, <1>2, PTL DEF ClientSpec

(* The client drives the server through exchanges of module Api and no     *)
(* others: what holds of the server for any caller holds for this one.     *)
THEOREM ClientUsesApi == ClientSpec => Spec
<1>1. ClientInit => Init
  BY DEF ClientInit
<1>2. ClientInv /\ [ClientNext]_clvars => [Next]_avars
  BY ClientStepIsServerStep DEF ClientInv
<1> QED
  BY <1>1, <1>2, ClientIsConsistent, PTL DEF Spec, ClientSpec

(* What a call of the API is answered, when the answer is whole: what the  *)
(* service returned, "bad request" to a submit it was never called for, or *)
(* "internal error".                                                       *)
LEMMA WholeAnswer ==
    ASSUME ClientInv, FromServer, asked.url = "api", ~cut
    PROVE  /\ req.op = asked.op /\ req.op \in Routes
           /\ \/ /\ err = "none" /\ SentAnswer /\ Decoded /\ span = "unset"
              \/ /\ err = "DecodeRequest" /\ req.op = "createTask"
                 /\ call = NoCall /\ answer = NoAnswer /\ span = "unset"
                 /\ wire = [status |-> 400, body |-> "invalid_request_body"]
              \/ /\ err = "Internal" /\ answer.kind # "not_found" /\ span = "error"
                 /\ wire = [status |-> 500, body |-> "internal_error"]
<1>1. asked \in Call /\ req = Request /\ at = "done"
  BY DEF ClientInv, CallInv, FromServer
<1>2. /\ req.op = asked.op /\ req.op \in Routes
      /\ req.op = "getTask" => req.id = "uuid"
  BY <1>1 DEF Request, Encoded, Call, Routes
<1>3. CASE /\ err = "none" /\ SentAnswer /\ Decoded /\ Quiet
  BY <1>2, <1>3 DEF Quiet
<1>4. CASE /\ Cause /\ SentError /\ err # "EncodeResponse"
           /\ span = SpanStatus(recorded)
  BY <1>2, <1>4 DEF Cause, SentError, SpanStatus
<1> QED
  BY <1>1, <1>2, <1>3, <1>4 DEF ClientInv, ServerInv

(* The text of net/http stands for no type of the API.                     *)
LEMMA AstrayIsUnfit ==
    ASSUME ClientInv, FromServer, asked.url # "api"
    PROVE  Unfit
<1>1. asked.url = "astray" /\ req = [op |-> "path"] /\ at = "done"
  BY DEF ClientInv, CallInv, FromServer, Call, Request
<1>2. got.body \in {"text", "none"}
  BY <1>1 DEF ClientInv, ServerInv, Routes, FromServer
<1> QED
  BY <1>2 DEF Unfit, Parses, TaskStatus, ErrorCode

(* A whole answer to a call of the API is of a declared type.              *)
LEMMA WholeAnswerParses ==
    ASSUME ClientInv, FromServer, asked.url = "api", ~cut, got.body # "none"
    PROVE  ~Unfit
<1>1. got.status = wire.status /\ got.body = wire.body
  BY DEF FromServer
<1>2. CASE SentAnswer
  BY <1>1, <1>2, WholeAnswer, AnswerFits DEF ClientInv, Unfit, Declares, Parses,
     decodeCreateTaskResponse, decodeGetTaskResponse, ErrorCode, Routes
<1>3. CASE wire = [status |-> 400, body |-> "invalid_request_body"] /\ asked.op = "createTask"
  BY <1>1, <1>3 DEF Unfit, Declares, Parses, decodeCreateTaskResponse, ErrorCode
<1>4. CASE wire = [status |-> 500, body |-> "internal_error"]
  BY <1>1, <1>4 DEF Unfit, Declares, Parses, decodeCreateTaskResponse,
     decodeGetTaskResponse, ErrorCode
<1> QED BY <1>2, <1>3, <1>4, WholeAnswer

(* What a call returned stands for what the server sent it.                *)
LEMMA ReturnedAnswer ==
    ASSUME ClientInv, Returned, result # "none"
    PROVE  /\ FromServer /\ asked.url = "api" /\ ~cut /\ failed = "none"
           /\ result = Declares(wire.status)
<1>1. FromServer /\ failed = "none" /\ result = Declares(got.status) /\ ~Unfit
  BY DEF ClientInv, CallInv, Returned
<1>2. asked.url = "api" /\ ~cut
  BY <1>1, AstrayIsUnfit DEF Unfit
<1> QED BY <1>1, <1>2 DEF FromServer

(* The three properties of the client, read off the invariant.             *)
LEMMA ParsesLemma == ClientInv => EveryAnswerParses
BY WholeAnswerParses DEF ClientInv, CallInv, EveryAnswerParses, Returned, Unfit, Call

(* What is returned is what happened.                                      *)
LEMMA ResultLemma == ClientInv => ResultIsTrue
<1> SUFFICES ASSUME ClientInv, Returned, result # "none"
             PROVE  ResultIsTrue
  BY DEF ResultIsTrue
<1>1. /\ FromServer /\ asked.url = "api" /\ ~cut
      /\ result = IF asked.op = "createTask" THEN decodeCreateTaskResponse(wire.status)
                  ELSE decodeGetTaskResponse(wire.status)
  BY ReturnedAnswer DEF Declares
<1>2. req.op = asked.op /\ req.op \in Routes
  BY <1>1, WholeAnswer
<1>3. CASE err = "none" /\ SentAnswer /\ Decoded
  <2>1. CASE answer.kind = "not_found" /\ req.op = "getTask"
             /\ wire = [status |-> 404, body |-> "task_not_found"]
    BY <1>1, <1>2, <1>3, <2>1 DEF ResultIsTrue, decodeGetTaskResponse
  <2>2. CASE answer.kind = "task" /\ req.op = "getTask" /\ wire.status = 200
    BY <1>1, <1>2, <1>3, <2>2 DEF ResultIsTrue, decodeGetTaskResponse
  <2>3. CASE answer.kind = "task" /\ req.op = "createTask" /\ wire.status = 201
    <3>1. call = Arguments /\ Valid(req.handler)
      BY <1>3, <2>3 DEF SentAnswer, Decoded, decodeCreateTaskRequest
    <3>2. req = Encoded
      BY <1>1, <1>2, <2>3 DEF ClientInv, CallInv, FromServer, Request
    <3>3. req.handler = asked.handler /\ req.key = asked.key
      BY <3>2 DEF Encoded
    <3> QED
      BY <1>1, <1>2, <1>3, <2>3, <3>1, <3>3
         DEF ResultIsTrue, decodeCreateTaskResponse, Arguments
  <2> QED BY <1>2, <1>3, <2>1, <2>2, <2>3, AnswerFits DEF ClientInv, Routes
<1>4. CASE /\ err = "DecodeRequest" /\ req.op = "createTask"
           /\ call = NoCall /\ answer = NoAnswer
           /\ wire = [status |-> 400, body |-> "invalid_request_body"]
  BY <1>1, <1>2, <1>4 DEF ResultIsTrue, decodeCreateTaskResponse, NoAnswer
<1>5. CASE /\ err = "Internal" /\ answer.kind # "not_found"
           /\ wire = [status |-> 500, body |-> "internal_error"]
  BY <1>1, <1>2, <1>5 DEF ResultIsTrue, decodeCreateTaskResponse, decodeGetTaskResponse
<1> QED BY <1>1, <1>3, <1>4, <1>5, WholeAnswer

(* The spans differ on a 5xx only.                                         *)
LEMMA SpansLemma == ClientInv => SpansAgree
<1> SUFFICES ASSUME ClientInv, cspan = "ok" PROVE SpansAgree
  BY DEF SpansAgree
<1>1. Returned /\ result # "none"
  BY DEF ClientInv, CallInv, Returned
<1>2. /\ FromServer /\ asked.url = "api" /\ ~cut
      /\ result = IF asked.op = "createTask" THEN decodeCreateTaskResponse(wire.status)
                  ELSE decodeGetTaskResponse(wire.status)
  BY <1>1, ReturnedAnswer DEF Declares
<1>3. CASE SentAnswer /\ span = "unset"
  BY <1>2, <1>3, AnswerFits DEF ClientInv, SpansAgree, decodeCreateTaskResponse,
     decodeGetTaskResponse
<1>4. CASE wire.status = 400 /\ asked.op = "createTask" /\ span = "unset"
  BY <1>2, <1>4 DEF SpansAgree, decodeCreateTaskResponse
<1>5. CASE wire.status = 500 /\ span = "error"
  BY <1>2, <1>5 DEF SpansAgree, decodeCreateTaskResponse, decodeGetTaskResponse
<1> QED BY <1>2, <1>3, <1>4, <1>5, WholeAnswer

(* Every whole answer of the server is of a type the client knows: codes,  *)
(* spellings and statuses of both sides agree.                             *)
THEOREM AnswersParse == ClientSpec => []EveryAnswerParses
BY ClientIsConsistent, ParsesLemma, PTL

(* What a call returns is what happened to it at the service.              *)
THEOREM ResultsAreTrue == ClientSpec => []ResultIsTrue
BY ClientIsConsistent, ResultLemma, PTL

(* The two spans of a call differ on a 5xx and on nothing else.            *)
THEOREM SpansOfACallAgree == ClientSpec => []SpansAgree
BY ClientIsConsistent, SpansLemma, PTL

(* And under this client, the server's promises hold unchanged.            *)
COROLLARY ApiUnderClient ==
    ClientSpec => [](OnlyValidReachesService /\ EnvelopeFits /\ SpanTellsTheWire)
BY ClientUsesApi, ServiceSeesOnlyValid, EnvelopeSaysWhoseFault, SpanIsHonest, PTL
=============================================================================
