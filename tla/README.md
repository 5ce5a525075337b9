# flowhand: a TLA+ model of the control plane

flowhand accepts tasks over HTTP and stores them in PostgreSQL. At this commit
the running code is the *submit* path: a client posts a task, possibly under an
idempotency key, and may read it back. Workflows, schedules, workers, the relay
and the transactional outbox exist as seams (stubs, package comments) only.

The model covers that path end to end - the generated client, the router, the
codecs, the API, the service, the connection pool, the table -, the life of the
server process around it, its configuration, and the reference producer that is
shipped with it. `PROJECT.json` lists the components, the runs, the findings,
the hazards, the theorems, and for each definition the lines of the repository
it translates. Paths below are relative to the repository root.

## 1. The system

| Component | Where | State | Operations |
| --- | --- | --- | --- |
| Task service | `internal/service/task` | none of its own; per request: the command, the aggregate | `Commander.Submit`, `Querier.Get` |
| Repository and table | `internal/repository/tasks`, `internal/storage/queries`, `migrations` | the `tasks` table with two unique constraints | `Insert`, `Get`, `GetByIdempotencyKey` |
| Transaction manager, outbox | `internal/storage/txmgr`, `internal/repository/outbox` | none: stubs | `WithinTx` calls its argument, `Resolve` gives the pool, `Append` discards |
| Connection pool | `internal/storage/pool.go`, pgx | connections in use, being destroyed; closed | acquire, release, discard, `Close` |
| HTTP API | `internal/api`, `internal/api/oas` (generated server, router) | per exchange: request, error, recorded status, span | routing, `CreateTask`, `GetTask`, `ErrorHandler`, encoding |
| Generated client, codecs | `internal/api/oas` | per call: stage, span, counters; per body: position, bit set | `CreateTask`, `GetTask`; `Decode`, `Validate`, `Encode` of three structs |
| Server process | `internal/cli/server.go`, `internal/server`, `internal/obs/shutdown.go` | main goroutine, serving goroutine, `errCh`, pool, providers | start-up, `Run`, drain, deferred clean-up |
| Producer | `cmd/flowhand-demo` | `n`, `lastID`, counters; its listener | the submit loop, `/metrics`, shutdown |
| Configuration | `internal/config`, `internal/storage/pool.go`, `internal/obs` | koanf's map, resolved once | `Load`, `NewLogger`, `newResource`, `NewPool` |
| Logging, metrics | `internal/obs` | none | record handlers, views |
| Command line, worker protocol, workflows, schedules, client library | `internal/cli`, `api/proto`, `internal/{domain,service,repository}/...` | none | not implemented yet |

How they interact: the HTTP server runs one goroutine per request, which routes,
decodes, calls the service, and through it makes one or two statements, each on
a connection of its own from the pool. Requests share nothing but the table and
the pool. PostgreSQL runs a statement on its own: once sent it may commit
although the caller has been cancelled, has lost its connection, or is dead. The
signal cancels the main goroutine's context only; requests learn nothing of it.
The producer sees the server through HTTP alone.

What is hard to get right, and what makes each part correct:

* **Submit.** Two attempts under one key race; a statement commits after its
  request was given up on; the server dies between commit and response; the
  replay reads on another connection. Correct if one key is one task whatever
  happens, no 201 names a task that is not stored, and reads follow writes.
* **Pool.** A replay needs a second connection; a query given up costs its
  connection; the pool may be closed under running requests. Correct if nobody
  waits while holding, a query refused a connection is answered by an error,
  everybody gets a turn and `Close` returns.
* **Server process.** A signal, a listener that fails, a drain that times out,
  a pool that waits for connections and a flush that must come after all spans,
  in any order. Correct if success means nothing was cut off, a failure is
  reported, and the clean-up is complete on every way out once `obs.Init` has
  succeeded.
* **API and client.** One error switch for decoding, service, mapping and
  encoding errors, deferred recorders, two status vocabularies; and a client
  generated from the same contract. Correct if status, code, span and counters
  agree on whose fault it was, and a call returns what really happened.
* **Codecs and router.** Duplicated, missing and unknown members; optional
  fields between required ones; escapes in paths that may be undone never, once
  or twice. Correct against a definition that looks at the whole input at once.
* **Producer.** Its own time-outs and failures must not look like a server that
  does not replay. Correct if it raises no false alarm, its counters mean what
  they are documented to mean, and a signal ends it.
* **Configuration.** Four layers that may each say something of a setting,
  values that do not parse, defaults of flags that look like values, a pool that
  takes zero for unset. Correct if the last layer that speaks wins and logger,
  telemetry and pool get what someone wrote, or the start fails.

The hazards, each at its line with the properties that cover it, are in
`PROJECT.json`.

## 2. Modules

An arrow reads "is extended by"; `Submit` is shown to implement
`IdempotentSubmit`, and `Pooled` to implement `Submit`.

```
Tasks --> Submit --+--> SubmitProofs
                   +--> Pooled --> (with SubmitProofs) PooledProofs
                   +--> Demo --+--> Producer --> (with SubmitProofs) DemoProofs
                   |           +--> MCDemo
                   +--> MCSubmit
Lifecycle --> LifecycleProofs
Api --> Client --> ClientProofs
Codec --> CodecProofs
Router --> RouterProofs
Config --> ConfigProofs
```

**Tasks** is the table: a row is its id, key and `created_at`. `UniqueViolation`
is the pair of constraints, which raise the same SQLSTATE; `CreateTask` gives a
row the database's time, because `created_at` is not among the inserted columns;
`toDomain` drops the key. The handler, payload and status columns are left out:
nothing under `internal/` changes them, and nothing reads them before it
answers.

**Submit** composes the task service, the repository, the stubs and
PostgreSQL. A *request* is one HTTP attempt, so a retry is another request
with the same key. `pc[r]` is where the server is in it: `mint`, `insert` (it
waits for the statement), `append`, `replay`, `read`, an outcome, `done`. `t[r]`
is the aggregate the request holds, `sql[r]` its INSERT as PostgreSQL sees it,
`client[r]` what the sender has seen. Correspondence:

| Code | Actions |
| --- | --- |
| `Handler.CreateTask`, `GetTask` are called | `Receive` |
| `Submit`: `newID`, `now`, `WithinTx`, INSERT is sent | `Mint`, `MintFails` |
| `Repo.Insert` returns nil / `ErrConflict` / another error | `Inserted` / `Conflicted` / `InsertFails` |
| `outbox.Append`, `return t, nil` | `AppendEvent` |
| `GetByIdempotencyKey` on the conflict branch | `Replay`, `ReplayFails` |
| `Querier.Get` | `Get`, `GetNotFound`, `GetFails` |
| the response is written | `Respond` |
| PostgreSQL | `Commit`, `Conflict`, `Abort` |
| client gone, process killed, time passes | `Disconnect`, `Crash`, `Tick` |

`InsertFails` and the database's actions are independent on purpose: a caller
that got an error knows nothing of the statement. `Crash` forgets every request
and leaves every statement that was sent.

**IdempotentSubmit** is the promise: a request may be accepted once and create a
task, a key is accepted at most once, a client is told of the task its request
created or of the one created under its key. It has no server, table or
statement. `Submit` implements it with *accepted* = the statement has committed
and *told* = the client has seen a 201.

**Pooled** is `Submit` on at most `MaxConns` connections. `WithinTx` opens no
transaction, so `conns` names a connection for its query: `<<r, "insert">>`,
`<<r, "replay">>`, `<<r, "read">>`. Every action of `Submit` is taken with what
it does to the pool: an answer gives the connection back (`Answered`), giving up
destroys it (`GivenUp`, then `Destroyed`, until which it keeps its place), a
query that never got one fails with nothing sent (`Refused`), PostgreSQL works on
an INSERT once it was sent on a connection (`Executed`). `ran` remembers which
queries were given one; `NoAnswerWithoutQuery` compares the answers with it.
`Close` is the deferred `pool.Close` after the drain; `Restart` is a crash, or
the exit once `Close` has returned. The refinement mapping is the identity on
`Submit`'s variables.

**Lifecycle** is `flowhand server`: `main` is the main goroutine's position in
`RunE`, `obs.Init`, `NewPool`, `Run` and the deferred calls; `serve` and `errCh`
are the goroutine of `ListenAndServe` and its channel; `handler[h]` is a request
that takes up to two connections one after the other (insert, replay read) from
`pool`; `span[h]` is its telemetry. A call that may fail is one action with both
results. Shutdown's time-out is an action without a clock: it may come at any
moment of the drain.

**Api** is one exchange on the server: `Arrive`, `Routed`/`NotRouted`, decoding,
the call of the service or a payload that cannot be marshalled, what the service
returns, the mapper, `Encode`, `ErrorHandler`, `recordError`. A string is its
length, a JSON body its decoding result. What the service may answer is what
`Submit` shows it can: a task (with any stored status), not found, an error.
`WriteHeader` has the two memories of the code: net/http sends the first status,
the generated recorder keeps the last.

**Client** composes `Api` with the generated client: `stage` follows the
client's own stage names (`BuildURL`, `EncodeRequest`, `SendRequest`,
`DecodeResponse`), `Send` is the server's `Arrive`, `Response` brings back the
server's status line and body, `ConnectionBreaks` and `SendFails` lose them.
`DecodeResponse` takes the types an operation declares by status;
`DecodeFails` is every answer that does not fit. `EndSpan` is the deferred
function. `Other` is a request from any other client, which may be anything.

**Codec** decodes a body member by member (`Field`, `FieldFails`, `Skip`,
`End`), keeps `requiredBitSet` as the set `seen`, reports missing fields lowest
bit first (`ReportMissing`, `Required`), looks at what follows the object
(`Trailing`), validates, and then encodes what it accepted and decodes it once
more. The three structs are tables of fields; `Error` stands for its four
aliases. A text is a word that every field takes (`Proper`) or one that is wrong
where there is a format or a limit (`Odd`). The payload is decoded into a Go map
and written by ranging over it, so its value on the wire has an order besides
its text, which `Field` forgets and `Encode` picks anew (`Orders`).

**Router** is the way of a request line: `Parsed` is net/url's pair of decoded
and raw path, `Mux` what `server.Run` mounts and redirects, `Start`, `Prefix`,
`Leaf`, `Method`, `Params` the generated router and the parameter decoder;
`FindPath` is the generated second copy of the router. A path is a sequence of
tokens, with the escapes of a slash, of a percent sign, of an ordinary
character and of the static prefix.

**Demo** composes the producer's loop with `Submit`. Request `n` of the producer
is request `n` of the server under key `n \div 2`. `GiveUp` is its five-second
time-out; the server works on, and its statement may commit during a later
submit. **Producer** is the process around that loop: environment and interval
(`BadURL`, `envDur`, `NewTicker`), the goroutine that serves `/metrics`, its
readers, the signal and the five-second shutdown. `ShutdownTimeout` may happen
to any server that has listened: Shutdown polls, and a connection that has sent
nothing yet counts as busy, so it may time out with no reader left. A server
that never listened has no connections, and its shutdown cannot.

**Config** is `config.Load` and what is made of its result: `LoadFile`,
`LoadEnv` and `LoadFlags` each merge a layer into `k`, the map of koanf (a
partial function: a path may be gone), `Materialize` takes the settings out or
`OutOfRange` refuses them, `NewLogger`, `NewProviders` and `NewPool` use them. A
text is a number, a duration with its unit or another word, so that what does
not parse becomes zero as it does in koanf; a bare section in a layer wipes its
keys. Six settings stand for all twelve: the others are strings or durations
that are taken out in the same way and have no check of their own. Steps of
`Lifecycle` (`LoadConfig`, `StartTracer`, `StartMeter`, `OpenPool`) are the whole
of this.

Definitions whose name contains `_Mut` are wrong forms of the definition that
follows them, one plausible bug each. No specification uses them; putting one in
place of its original must violate the property it is listed with, which shows
that the property depends on the code.

## 3. What the runs check

| Run | Bounds | Checks |
| --- | --- | --- |
| `submit_safety` | 3 requests, 2 ids, 1 key, 1 tick, after which requests come one at a time (`Quiet`); symmetric | `IInv`, `SameTaskIffSameKey`, `CreatedIsStored`, `EachRowHasItsSubmit`, `StableView`, `ReadYourWrites`, `ImplementsPromise` |
| `submit_replay` | 2 requests, 2 ids, 1 key, 1 tick | `ReplayIndistinguishable` (violated) |
| `pooled` | 2 requests, 1 id, 1 key, 1 tick, 1 connection | `PoolTypeOK`, `NoHoldAndWait`, `NoAnswerWithoutQuery`, `ImplementsSubmit`, `Served`, `CloseReturns` |
| `lifecycle` | 3 requests, 2 connections, 2 queries each | `SuccessCutsNothing`, `ListenFailureSurfaces`, `DrainedSpansFlushed`, `InitIsUndone`, `SignalEnds` |
| `lifecycle_hang` | 1 request, 1 connection | `SignalFlushes` (violated) |
| `api_exchange` | lengths 0, 1, 128, 129 | `OnlyValidReachesService`, `EnvelopeFits`, `SpanTellsTheWire`, `EveryAnswerParses`, `ResultIsTrue`, `SpansAgree`, `CallReturns` |
| `api_declared` | as above | `DeclaredStatusOnly` (violated) |
| `codec` | bodies of at most 4 members, 2 orders of a payload | `LastWins`, `VerdictDeserved`, `MissingNamed`, `RoundTrip` |
| `router_paths` | paths of at most 5 tokens | `OnlyTemplates`, `IdDecodedOnce`, `CopiesAgree` |
| `demo_safety` | 4 submits (2 pairs), 2 ids, a signal at any moment; at most 2 attempts unfinished at once (`Backlog`) | `NoFalseAlarm`, `CountersTellPairs` |
| `producer` | 2 submits (1 pair), 2 ids, 2 readers of the metrics | `ExitTellsWhy`, `LoopGoesOn`, `SignalStops` |
| `config_layers` | 1 entry in the file, 1 in the environment, a flag; `int32` as wide as 3 | `Precedence`, `PoolAsAsked`, `ObsAsAsked` |

Why the bounds are enough. A violation of the submit properties needs two
requests under one key, and a third that is a reader, a keyless bystander or a
second retry. Two ids for three requests force collisions and still allow
distinct rows; one tick separates mint, commit and read. The races need no
clock: once it has moved, `submit_safety` follows one unfinished attempt at a
time, which is enough for two readings of it to differ; while it stands still
all three run at once. One connection and two requests make one wait for the
other, and a replay wait for its second query; more connections only remove
waits, and one id lets the two requests be a task and its replay, or a task and
one that collides with it. Four submits let something left from the first pair
reach the second half of the second; of the attempts that the producer gave up
on, one at a time is still at work beside the one it waits for. Three requests for two
connections leave one waiting while the pool is closed. Each length lies on one
side of an end of the valid range. Four members are all the fields of the
largest struct and one duplicate or stranger. Five tokens are the prefix, the
slash and an id of three, enough for an escaped escape. Keys of the
configuration do not look at each other, so one entry in each layer meets every
case of a key; the numbers lie on both sides of each end of the range and one
of them comes back into it when cut to 32 bits. The theorems below remove these
bounds for every invariant that a run checks; liveness alone depends on them. Runs with
`CHECK_DEADLOCK FALSE` are those whose system stops by itself: requests end, the
process exits, the producer stops, start-up ends, a body or a path ends. `Api`
and `Client` never stop and are checked for deadlock.

### Fairness

* `Pooled!PooledFairSpec`: a goroutine that can take a step takes one
  (`Submit!Progress`), and PostgreSQL ends a statement it was sent. A free place
  goes to a waiter: pgx hands them out in the order of arrival, which the model
  abstracts to fairness for each. A waiter of a closed pool learns of it, and
  the destruction of a connection is cut off after fifteen seconds. Giving up on
  a running query is *not* forced, since the server sets no statement time-out;
  neither is any failure.
* `Lifecycle!FairSpec`: the goroutines run; `ShutdownTimeout` ends the drain;
  queries end. `HangSpec` drops the handlers and their queries, since nothing
  in the code bounds a query. Weak fairness of the disjunction `Main` suffices
  as each step of main excludes the others but in the select and the drain,
  where either choice is progress.
* `Client!ClientFairSpec`: both sides of the call run and the service answers.
  Nothing is forced to fail.
* `Producer!FairProducer`: the main goroutine runs, and its two time-outs, of a
  submit and of the shutdown, expire. The signal is picked from the select
  strongly fairly, because Go picks among ready cases at random and a tick may
  be ready each time; the model's ticks are bounded, so that weak fairness would
  do here. Nothing is assumed of the server, of the readers of the metrics, of
  the listener, or of ticks.

### What the violated runs show

* **`submit_replay`.** `README.md` (lines 193, 236) says a caller cannot tell a
  replay from the first submit. The first answer shows the server's clock, the
  row and every replay show PostgreSQL's `now()`. No clock skew is needed.
  `StableView` says what does hold: everything *read back* agrees.
* **`lifecycle_hang`.** `README.md` (lines 96, 241) says the shutdown flushes
  telemetry. `pool.Close` is deferred after the flush, so it runs first, and has
  no bound: after a drain that timed out on a query that does not end, the flush
  is never reached.
* **`api_declared`.** `api/openapi.yaml` declares 200, 404 and 500 for
  `getTask`; a bad id is answered 400, which `errors_test.go` asserts.

## 4. What is proved

Every invariant that a passing run checks, and both refinements, for every value
of the constants that the named assumptions of the modules allow. No set is
assumed to be finite but the requests of the producer, which are numbered; that
the connections in use are is proved. Each module of proofs has an inductive
invariant, shown to hold initially (`...Init`) and to be kept by every action
(`...Step`); it was model-checked on the instance of the run before it was
proved.

### Submit: `SubmitProofs`

From: `NoId` is not an id, `NoKey` is not a key, `MaxTime` is a natural number.
`SameTaskIffSameKey` is not inductive: it speaks of answered requests only, and
says nothing of a request about to be answered. The inductive invariant `IInv`
adds

1. `IdUnique`, `KeyUnique`: the table obeys its indexes, because a statement
   commits only without `UniqueViolation` (lemma `CreateTaskKeepsIndexes`);
2. `OneOwner`, `Owned`: each row belongs to exactly one committed statement;
3. `Phase(r)`: what the place in the code says of the statement - past `Insert`
   it has committed, in the replay branch it has conflicted and there is a key;
4. `Stored(r)`: a committed statement's row is in the table under its key;
5. `Answer(r)`: any other successful answer is a row of the table, for a submit
   one with its key.

Most steps touch only one request (`LocalStep`), end a statement without a row
(`StatementStep`), commit (`CommitStep`) or crash (`CrashStep`); `IInvStep` goes
through the actions and applies them. For the refinement, `Commit` is `Accept`
(`CommitImplements`), `Respond` is `Tell` or a stutter (`RespondImplements`),
`Receive` of a submit is `Ask`, and every other step, a crash included, changes
nothing abstract (`QuietStep`).

| Theorem | States |
| --- | --- |
| `Invariance`, `TypeCorrect` | `Spec => []IInv`, `Spec => []TypeOK` |
| `SameTask` | `Spec => []SameTaskIffSameKey` |
| `CreatedStored` | `Spec => []CreatedIsStored` |
| `RowsHaveSubmits` | `Spec => []EachRowHasItsSubmit` |
| `ViewsAgree` | `Spec => []StableView` |
| `ReadsFollowWrites` | `Spec => ReadYourWrites` |
| `Implements` | `Spec => ImplementsPromise` |

### The pool: `PooledProofs`

From: `MaxConns` is positive. Every step on the pool is a step of `Submit` or
leaves its variables alone (`PooledStep`), hence `PooledImplementsSubmit`, and
all that is proved of `Submit` holds on the pool; `PooledSameTask` is the
instance that matters most. `PoolIsSafe` is the invariance of `PoolInv`: a
connection is named for the query its request is at, so that leaving a query
without giving its connection back, or destroying it, would break it.
`PoolNeverOverfull` (`[]PoolTypeOK`, with the size of the pool), `NoHold`
(`[]NoHoldAndWait`) and `AnswersHaveQueries` (`[]NoAnswerWithoutQuery`) follow.
For the last, `QueriesRan` says at each place of a request which of its queries
were given a connection so far: a 201 needs the INSERT, and either its commit or
the replay's read as well, a 404 the SELECT.

### The server process: `LifecycleProofs`

`LifecycleInv` is `TypeOK` with three parts. `Outcome` follows the result of
`ListenAndServe` through `errCh` to the exit status: only Shutdown makes it nil,
and `Run` returns that nil only after a drain that left no request.
`Resources` says at which places of main the providers and the pool are up.
`Spans` says that a finished request's span is ended or exported before the
provider is shut down. `SuccessIsGraceful`, `FailureSurfaces`, `SpansAreFlushed`
and `CleanUpIsComplete` state `SuccessCutsNothing`, `ListenFailureSurfaces`,
`DrainedSpansFlushed` and `InitIsUndone`; `LifecycleTypes` is type correctness.

### The producer: `DemoProofs`

From: the requests are 0 to `MaxSubmits - 1`, and there is a key for each pair.
`DemoIsAClient`: the loop takes no step that `Submit` does not allow, so the
server's theorems hold under it. `NoAlarm` states `NoFalseAlarm`: `DemoInv` says
that between the halves of a pair `lastID`, if there is one, is the task the
first half was told of; when the second half is answered, `SameTask` says it is
the same one (`ReplayIsTold`).

`CountersAreTrue` states `CountersTellPairs`. That the counters are the
cardinalities of two sets of pairs is inductive only with two facts more
(`CountInv`): a submit whose outcome the loop knows is over for its client, or
never reached the server, so a late commit cannot make it an answered one
(`FailedIsKept`); and `lastID` is there between the halves whenever the first
was answered. Then an answered submit adds one pair to one set or to none
(`FirstHalf`, `SecondHalf`).

`ProducerRunsLoop`: the process of `Producer` implements `DemoSpec`, so both
theorems hold of it (`ProducerIsTrue`). `ExitIsTrue` states `ExitTellsWhy`:
`ExitInv` says what was started, signalled and shut down at each place of main.
Nothing is claimed of who was cut off when the shutdown times out: there may be
readers or none.

### The API and its client: `ClientProofs`

From: lengths are natural numbers, and an absent key has none. `ServerInv`
follows an exchange stage by stage: what has been decoded when the service is
called, which cause an error still stands for when `ErrorHandler` sees it, what
is on the wire, and what the deferred recorder has made of it. It gives
`ServiceSeesOnlyValid`, `EnvelopeSaysWhoseFault` and `SpanIsHonest`
(`OnlyValidReachesService`, `EnvelopeFits`, `SpanTellsTheWire`).

`ClientUsesApi`: for the server the generated client is one more caller, so the
three hold under it (`ApiUnderClient`). `CallInv` ties the stage of the call to
that of the exchange: the response being decoded is still what the server sent
to *this* request, or a part of it. `AnswersParse`, `ResultsAreTrue` and
`SpansOfACallAgree` (`EveryAnswerParses`, `ResultIsTrue`, `SpansAgree`) follow
from both together, since neither side knows enough alone.

### The codecs: `CodecProofs`

For bodies of any length: what was read up to `pos` (`ReadSoFar`) and what each
later step has established about the whole body (`StepKnows`). `LastOneWins` and
`VerdictIsDeserved` state `LastWins` and `VerdictDeserved`. The structs are the
three of the code (`FieldsFacts`). For `MissingAreNamed` (`MissingNamed`),
`ReportInv` says that the report so far is the lowest missing fields in order,
so that each turn of the loop appends the next. For `RoundTripIsStable`
(`RoundTrip`), `PassInv` says that during the second pass the body is the
encoding of what the first has accepted, and that this is `Sound`: complete,
typed and within its formats. Soundness comes from the verdict
(`AcceptedIsSound`), and the verdict on the second body from its soundness. All
of it is up to the order of the payload's members, which nothing keeps; the
bodies are not equal byte for byte.

### The router: `RouterProofs`

For paths of any length. The router works on `Form`, the raw path less its
needless escapes, or the decoded path if there is no raw one. `FormFacts` says
that, token for token, both agree with the request line on the prefix, on every
slash, and on what one more decoding yields; `RouterInv` says what has been
matched of it at each place. `TemplatesAreServed`, `IdIsDecodedOnce` and
`RouterCopiesAgree` state `OnlyTemplates`, `IdDecodedOnce` and `CopiesAgree`;
the last compares the router's steps with the one-step function `FindPath`
(`FindPathFinds`).

### Configuration: `ConfigProofs`

For layers with any number of entries and any width of an integer. While the
layers are read, `ConfigInv` says that the text of a setting is that of the
highest layer read so far that speaks of it, with what a bare section wipes
(`Cascade`); from then on each part is what it was made from.
`LayersTakePrecedence`, `PoolIsAsAsked` and `ObsIsAsAsked` state `Precedence`,
`PoolAsAsked` and `ObsAsAsked`. `PoolAsAsked` is stated of the layers, not of
koanf: a size or a life-time is the one of the highest layer that speaks of it
(`ReadsAreTheHighest`). Where that gives none, the DSN's stands, whatever it is:
a DSN that sets a life-time of zero makes connections expire at once, and the
code lets it.

### Only model-checked

Liveness, which is out of the prover's reach: `Served`, `CloseReturns`,
`SignalEnds`, `CallReturns`, `LoopGoesOn`, `SignalStops`. So is the absence of
deadlock of `Api` and `Client`.

## 5. What is not modelled

* *Records stamped with a trace.* A log handler keeps no state. One thing about
  it is worth knowing: the comment at `internal/obs/log.go:14` promises trace
  ids on records of a *sampled* span, `Handle` (line 22) asks only whether the
  span context is valid. A caller that sends an unsampled `traceparent` gets
  records that link to a trace nobody exported.
* The format of log records, the views of the meter provider.
* Configuration: a layer that gives both a bare section and a key of it, of
  which koanf keeps one or the other; strings such as addresses and names. A
  duration without a unit is nanoseconds and one that does not parse is 0; no
  document says otherwise, so no property does.
* The contents of payloads, handlers and messages; JSON below its members and
  their kinds; the text `message` of an error. A key that is used again with
  another payload is therefore the same request to the model, as it is to the
  code.
* The Submitted event: the outbox discards it. Insert and Append are two steps,
  so the crash between them is in the model, but there is nothing to lose yet.
* A client without a key that retries after a lost answer creates a second task:
  that is what `SameTaskIffSameKey` says of keyless submits, and no part of the
  code undertakes to do better.
* A second signal during the drain is swallowed (`Signal` of `Lifecycle` says
  so); nothing promises that it is not.
* Getters, setters, options and convenience wrappers of the generated code,
  which keep no state of their own.
* `otelhttp`, pgx, koanf, net/url and net/http beyond what the code relies on;
  these are marked external in the map. The pool's waiting order is abstracted,
  so is its idle and life-time management.
* The stub commands, the worker protocol (a service without methods), the
  packages that only have a comment, the development stack.
* Standby servers: the table is read where it is written.

## 6. Plan

Done, in this order: Tasks and Submit with their invariant, IdempotentSubmit
and the refinement, Lifecycle, Demo, Api, Config; then Pooled as a refinement of
Submit, the proofs about Lifecycle, Demo and the pool, Client, Codec with its
proofs, Producer and Router; then the proofs about Api, Client, Config, Router
and Producer, and the rest of those about Codec, Demo and Pooled.

Next, most important first:

1. *An abstract call.* What `ResultsAreTrue` and `EnvelopeSaysWhoseFault` say
   together, as a specification of its own - a call is asked once, served at most
   once, and returns what was served or an error - which Client implements.
2. *A call on the whole service.* Client, Api and Submit composed, so that the
   promise of the idempotency key is stated of results and not of answers.
3. *An abstract shutdown* for Lifecycle: accept, drain, stop, flush, in this
   order.
4. When the outbox and the transaction manager stop being stubs: `WithinTx` as a
   transaction around Insert and Append, a relay, and the promise that every
   accepted task is announced; `NoHoldAndWait` must then be looked at again.
