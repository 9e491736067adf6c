# A TLA+ model of the MQSS client

The MQSS client is a C++ library (with a C interface and Python bindings) that
submits quantum jobs to a job service, asks for their state, fetches their
results and lists the resources the service offers.  It reaches the service
either over HTTP (REST) or, on HPC nodes, through a RabbitMQ broker and an
offload listener.  Paths below are relative to the repository.

## Inventory

| Component | State it keeps | Operations | Hard part |
|---|---|---|---|
| `MQSSClient` job interface (`src/client.cpp`) | none of its own; `JobRequest::mUuid` | `submitJob`, `cancelJob`, `getJobStatus`, `getJobResult`, `waitForJobResult` | each call is one or many exchanges; an exchange that failed may have been carried out, or may still be; polling under a timeout |
| REST transport (`src/clients/rest_client.cpp`) | base URL, headers (constant after construction) | construct, `request`, `get`, `post`, `del`, `normalizeUrl` | 3 s / 5 s limits; `get` and `post` swallow failures, `del` does not; rewriting of portal URLs |
| HPC transport (`src/clients/hpc_client.cpp`, `rabbitmq_client.cpp`) | connection, response queue, list of declared queues | construct, destroy, `get`, `post`, `del`, `send`, `receive`, `declareQueue` | shared request queue, no correlation ids, unlimited wait, ignored errors, broker restarts |
| Transport interface `MQSSBaseClient` (`include/mqss/client.h`) | - | `get`, `post`, `del` | what a caller may conclude from an answer or its absence |
| Resource queries and parsing (`src/client.cpp`, `src/resource.cpp`) | built `Resource`s | `getAllResources`, `getResourceInfo`, `getNumberPendingJobs`, `Resource(json)` | loops that reuse a moved-from vector; exceptions half way through a list |
| Job requests (`src/job.cpp`, `include/mqss/job.h`) | members of `CircuitJobRequest`, `HamiltonianJobRequest` | constructors, setters, `toJson` | members nobody initialised |
| Result parsing (`src/job.cpp`) | `JobResult` | `JobResult(json)` | which answers throw, which give an empty result |
| C interface, memory (`src/c_bindings`) | blocks handed to the caller | `MQSSClientGetJobResultCounts`, `...ResourceGetInfo`, `...ResourceGetGateInfo`, `...GetAllResources` | a series of allocations, any of which may fail |
| C interface, jobs (`src/c_bindings`) | - | `MQSSClientSubmitJob`, `...CancelJob`, `...GetJobResult`, counts, timestamps, creation and deletion | a job number that is no number, exceptions, widths of `int` and `uint64_t` |
| Python bindings (`bindings`) | - | forwarding | interpreter lock held while waiting |

`MQSSClient` owns one transport and calls it synchronously; the C and Python
layers call `MQSSClient`.  There are no callbacks and no background threads.
Concurrency comes from the application (several threads, several `JobRequest`s,
several clients), and from the other side: network, job service, broker and
listener act on their own.  A REST client may be shared by threads (it is constant
after construction); an HPC client owns one AMQP connection, which the library
allows one thread at a time.

What makes the components correct: a `JobRequest` denotes the job its last
acknowledged submission created; one submission makes at most one job; a result
or an accepted cancellation is about the job that was asked about; a wait keeps
its time budget and gives up early only for a reason; every call returns; an HPC
answer belongs to the call that gets it; a parsed resource is what the text
lists; a C caller can tell from a return code whether a job exists, and gets the
counts and timestamps the service sent; an error return of the C interface leaks
nothing.  The hazards behind
these, line by line, are in `PROJECT.json`.

## Modules

| Module | Models | Used by |
|---|---|---|
| `JobClient` | job interface over the REST transport, with the job service and the network as environment | `MCJobClient`, `JobClientProofs`, `CJobs`, `HpcJobs` |
| `Transport` | the promise of `MQSSBaseClient`, abstract | instanced by `HpcTransport` |
| `HpcTransport` | HPC transport, with broker and listener as environment | `HpcJobs`, `HpcTransportProofs` |
| `HpcJobs` | the job interface over the HPC transport: composes `JobClient` and `HpcTransport`, implements `JobClient` | `HpcJobsProofs` |
| `CJobs` | the C job functions over `JobClient` | `MCCJobs`, `CJobsProofs` |
| `JobData` | what goes into a `JobRequest` and comes out of a `JobResult`, from C too | `MCJobData`, `JobDataProofs` |
| `ResourceParser` | resource queries and `Resource(json)` | `MCResourceParser`, `ResourceParserProofs` |
| `CBindings` | the C functions that hand out memory | `CBindingsProofs` |
| `RestConstruction` | `normalizeUrl`, the REST constructor, construction from C++ and C | `RestConstructionProofs` |

The theorems about a module `M` are in `MProofs`, which extends it.  `CJobsProofs`
also extends `JobClientProofs`, and `HpcJobsProofs` instances `JobClientProofs` and
`HpcTransportProofs`, so that lemmas about a part are used for the whole.
`MC*` modules hold the symmetry sets and the inputs of the small instances.
Operators defined directly before another one, with the same parameters, and not
used anywhere (`SetUuidOnce` before `SetUuid`, `SendTwice` before
`SendAccepted`) are deliberately wrong variants: substituted for the definition
that follows, each makes one of the properties fail.

### JobClient

`mUuid[j]` is the uuid in `JobRequest` `j`.  A thread `t` is at `pc[t]`: `idle`,
at the head of the polling `loop`, waiting for an answer (`sent`), or with an
answer at hand (`answered`).  `call[t]` holds the arguments of its call and `ask[t]`
which exchange it is in; `loop[t]` holds the local variable `timeout` of
`waitForJobResult` (`left`), and, for the properties, the time slept and the status
checks made.  `status`, `ledger`, `latePost` and `lateDelete` belong to the service
and the network; `subs` and `acked` are history.

A call begins in one step (`SubmitJob` ... `WaitForJobResult`), which sends its first
request.  The service answers (`Service*`) or the exchange fails (`RequestFails`):
before the service has seen the request (lost, or still on its way: `latePost`,
`lateDelete`) or after (`answered`, then failed).  The code after the exchange is one
step (`SubmitReturns` ... `ResultReturns`).  `PollReturns` is the body of the polling
loop: fetch the result, give up, or sleep and go round.  `StepsLeft(t)` bounds the
steps that a call still has before it: three for an exchange (an answer, its loss,
the return) and five for each second a wait has left.

Answers are told apart as the code tells them apart (`Body`): failed, not JSON,
JSON without the member, with the member of another type, with a result that is
not itself JSON, as expected.  `get` and `post` map a failed exchange to the empty
string, which the callers treat like text that is not JSON; `del` throws.  `int`
is `-IntHalf .. IntHalf - 1` so that the narrowing of the `size_t` timeout can be
seen in small numbers.

`JobRequest` is not synchronised.  The model keeps to the rule this imposes on the
application: no other call on an object while `submitJob` writes its uuid; calls
that only read may overlap.

The job service is external.  It is assumed to issue a uuid once, to know only
jobs it created, to return a result only of a completed job and to accept a
cancellation only of a job it knows; it may refuse anything, answer anything
unreadable, or not answer.

### Transport and HpcTransport

A call of an HPC object is a `send` on the listener's queue and a `receive` on the
object's own response queue.  Messages are identified by object and number of the
call; the code's messages carry no such number, so the model never uses it to
choose a message.  `conn` distinguishes a connection that is up (`open`), one that is
gone without the object having noticed (`dead`), and a destroyed object.  A queue
declaration that the broker refuses closes the channel and not the connection,
`declareQueue` does not look, and the next synchronous AMQP call has no timeout: this
is the second declaration, in the constructor (`declaring`), or the registration of a
consumer in the first `receive` (`refused`).  Both wait as long as the connection is
up.  `SendError` has both reactions of the code: `del`
throws, `get` and `post` go on to `receive`.  The environment can lose a connection,
restart the broker (queues are not durable: their contents are gone) and fail in
the middle of serving a request, after which the broker delivers it again.  Answers
that were delivered to the library before the connection was lost (`Delivered`; there
is no prefetch limit) can still be received; then `receive` reports the error.

`Transport` says that a call brings back the answer to that very call or none, and
is carried out at most once.  `HpcTransport` implements it
(`ImplementsTransport`, with `busy` mapped to `pc # "idle"` and `heard` to the number
of the message heard) when the broker delivers a request once.  With redelivery
it does not, because answers are not matched with requests; `ReplyLag` bounds by
how much.  The bound counts answers, not calls: a `del` whose `send` failed throws
before `receive` and takes no answer, so the calls around it share a turn.  The
history variable `turn` holds which answer the k-th call takes, and `ReplyLag` is
stated in turns.  (Stated in numbers of calls it fails as soon as such a `del`
stands between two calls, on instances larger than the one that is checked.)

### HpcJobs

`MQSSClient` with `is_hpc`.  The client code is that of `JobClient`: the module
instances it (`C`) and uses its actions for everything between two exchanges.
Where `JobClient` has an exchange, the thread is inside `get`, `post` or `del` of
`HpcTransport` (`T`, whose `pc` is called `wire`).  `Enter` is the step from the one
into the other, `Transport` the way back with what was received (`Returned`): a
message, the text of an AMQP error, which is not JSON, or nothing from `del`.
`log[c][k]` is what the k-th call of an object asked and what the listener answered.
`Serve` lets the listener take a request and the job service carry it out or turn
it down.  A refused cancellation is an error *message*, which `del` drops.

`ImplementsJobClient` states that all this is `JobClient` again, under this mapping:

* an exchange counts as answered as soon as the listener has carried its request
  out (`AbstractAnswered`); if its caller then never receives the answer, this is
  `JobClient`'s exchange that failed after the service had seen it;
* a submission whose caller came back without an answer is late (`AbstractLatePost`),
  for ever if the broker lost it;
* a cancellation carried out after its caller came back is a job that ends;
* a cancellation that returned normally without the service's consent is read as
  one that threw.  This is the one point in which the two transports differ for a
  caller: over HTTP `del` throws (`CancelOkMeansTerminal`), over AMQP it does not,
  and `CancelWasAnswered` says what is left.

What is proved of `JobClient` therefore holds over AMQP, cancellations excepted:
`PromisesOverAmqp` below.

### CJobs

The C job functions keep no state; `CReturn` maps a call and what it returned to
what C sees.  A uuid is in `NumericUuid` if it begins with a number `int` can hold,
which is all that `std::stoi` asks for.

### JobData

The program holds one object at a time.  A request is a function from its members
to values; strings are empty and `mShots`, `mNoModify`, `mQueued` `indeterminate` until they
are given, and `ToJson` sends *some* value for what is indeterminate.  The program speaks in
parameters; which member a constructor or a setter writes, which argument a C function
passes on and which member stands behind a JSON key are tables read off the code
(`Initialiser`, `CArgument`, `Setter`, `Key`).  `told` is history: what the program last said
of each parameter.  `Meaning` is what the service reads under a key, so `PayloadIsAsTold`
compares the way through two or three of these tables with what was said.  A result is made from a JSON object of the
service (`Throws`, `ResultOf`), from which C fetches counts (`unsigned`, then `int`, with
their widths) and timestamps.  A timestamp is the part that `std::get_time` can
read and the digits after the point; when only the date can be read it is the midnight of that day.  The length of a
fraction (`MicroDigits`) and of a day, and the widths (`IntHalf`, `Word`) are parameters so that wrapping
shows in small numbers.  `JsonResult` is the form of the service's JSON; its times lie
between the epoch and 2262, where the nanoseconds of `std::chrono::system_clock` end.
Local time zones are left out: all three timestamps are
read in the same one.

### ResourceParser

Texts are modelled by what the regular expressions find in them.  One step is
one iteration of a loop of the code.  The reference definitions (`InOrder`,
`ListedIn`) pick the entries that list a gate by their positions; the loops of the
code append one after the other.  `supportedQubits` is the vector that
`extractGates` declares outside its loop; `MovedFrom` is its value after the move,
empty in every implementation of the standard library the code is built with.

### CBindings

Each function is a list of allocation steps; `live` are the blocks it holds, `out`
what the caller's pointers are.  Output parameters are written at each allocation,
while the array of `MQSSClientGetAllResources` is a local of the function, which the
caller sees only when it returns (`Shown`).  `AllocationFails` is the code of the error
branch; `operator new` has none, and its exception leaves the function (`throw`).
`CleanAfterFailure` names the two functions that leave something behind:
`MQSSClientGetJobResultCounts` leaves the caller's pointers on arrays it has freed, and
`MQSSClientGetAllResources` loses its array and objects when `operator new` throws.

### RestConstruction

A URL is a record of the parts `normalizeUrl` looks at: the flaw for which it or
libcurl turns the text down, scheme, spelling, host (label, dot, domain: this
tells `x.quantum.lrz.de` from `xquantum.lrz.de` and from `quantum.lrz.de`), port, and a
path of an optional segment and trailing slashes.  `Init` is the call of the
constructor with any URL; then come `NormalizeUrl`, two times `AppendHeader` and
`Probe`, each of which can throw.  `Caught` is the `catch` of
`MQSSClientCreateClient`, by the types it names.  The header list is owned by a `unique_ptr`
(`pHeaders`), while `curl_slist_append` returns the list it was given: `AppendHeader` has
the `release` and the `reset` that keep the two apart, and `slist` the nodes that are
allocated.  An exception and `Delete` destroy the owner.  The construction of an HPC client is in `HpcTransport`.

## Runs

| Run | Checks | Bounds |
|---|---|---|
| `resubmit` | `TypeOK`, `UuidOfLastAcknowledged`, `OneJobPerSubmit`, `CancelOkMeansTerminal`, `SubmitCodeIsTrue`, `FailuresContained` | 2 threads, 1 object, 2 submissions, 2 uuids, one of them numeric |
| `two_jobs` | `OneJobPerSubmit`, `ResultIsOwn` | 2 threads, 2 objects, 1 submission each, 2 uuids |
| `wait` | `WaitBudget`, `EarlyNullIsTrue`, `CallComesToEnd`, `CallReturns` | 2 threads, timeouts 0, 1, 2, 3, 5, 8, 11 with an `int` of -4..3 |
| `doc_null_still_running` | violates `NullMeansStillRunning` | 1 thread, 1 job |
| `doc_null_failed_or_timed_out` | violates `NullMeansFailedOrTimedOut` | 1 thread, 1 job |
| `doc_timeout_is_slept` | violates `TimeoutIsSlept` | 1 thread, timeouts 3 and 4 with an `int` of -4..3 |
| `hpc_safe` | `TypeOK`, `ReplyLag`, `DelWaitsForAnswer`, `CarriedOnce`, `AcceptedCallReturns` | 2 objects, 2 calls each, 1 redelivery, 1 restart |
| `hpc_jobs` | `TypeOK`, `CancelWasAnswered`, `JobCallReturns`, `ImplementsJobClient`, `ImplementsTransport` | 1 object, 3 calls of its transport, 2 submissions, 2 uuids, 1 restart, no redelivery |
| `resources` | `GatesAsListed`, `CompleteOrThrow` | up to 2 resources of up to 2 instructions |
| `c_memory` | `TypeOK`, `ErrorFreesAll`, `CleanAfterFailure`, `SuccessHandsOutAll` | up to 4 elements |
| `job_data` | `TypeOK`, `CountsAsSent`, `TimestampsInOrder`, `PayloadIsAsTold` | 2 setter calls, 2 values; fractions of 0 to 4 digits where 2 are expected, `int` of -1024..1023, `uint64_t` of 0..65535, days of 2 seconds |
| `rest_construction` | `TypeOK`, `Idempotent`, `EndpointKept`, `HeadersOwned` | paths with up to 2 trailing slashes |

Why the bounds are enough to be interesting: two submissions of one object are
needed for a stale uuid and for a late POST to overtake a retry; two objects for a
mix-up; two threads for a cancellation or a second reader in the middle of a
wait.  The timeouts cover zero, less than a poll, a whole number of polls, an odd
rest, and values that become negative or small when narrowed.  Two HPC calls with
one redelivery are the least in which an answer can be taken by the wrong call.
Three calls of one HPC object are a submission, a status check and the fetch
of a result, or a submission lost with the connection, its repetition and a
cancellation.  The counts of `job_data` lie on both sides of the limits of `int` and
of `unsigned`, and its fractions are empty, too short, exact, too long, and too long
for `int`.  Four elements make every position of a failing allocation (first, middle, last)
occur.  Threads, objects and uuids are interchangeable, which the symmetry sets
use in the runs without liveness only.

Deadlock is checked for `JobClient`, `CJobs`, `CBindings` and `JobData`.  It is not for
`HpcTransport` and `HpcJobs`, where a `get` whose `send` failed and every call after a
refused queue declaration wait for ever, nor for `ResourceParser` and
`RestConstruction`, which end.

### Fairness

`JobClient`: weak fairness of a thread inside a call.  An exchange always ends
because of `CURLOPT_TIMEOUT_MS`, and the rest is straight-line code and a bounded
sleep.  Nothing is assumed of the service, and no thread is assumed to begin a call.
`HpcTransport`: weak fairness of an object inside a call (library calls return,
except the waits on a connection that is up: for a message, and for the broker
after a refused declaration) and of the listener.  These waits do not end, and no
property says that they do.
`HpcJobs`: the same, with the client code between two exchanges added to what an
object does inside a call.  `JobCallReturns` names the endless waits (`Stranded`: the
send of a `get` or `post` failed on a connection that stays up, or the response queue was
refused and its connection stays up) as the only two ways for a job call not to
return, of which a cancellation knows the second only.

### What the violated statements show

* `docs/examples.md:225` reads a null of the non-blocking `getJobResult` as "Job
  still running"; the code returns the same null when the exchange failed.
* `docs/examples.md:291` reads a null of the blocking form as "Job failed or timed
  out"; one failed status check ends the wait with a null while the job runs.
* `docs/examples.md:48` says that the timeout counts the time slept; a timeout
  beyond the range of `int` is narrowed first.

## Proofs

Every theorem is of the form `Spec => ...` for all values of the constants, from
the named assumption of the module:

| Module | Assumption | What it says of the constants |
|---|---|---|
| `JobClient` | `ConstantsAssumption` | `NoUuid` is no uuid, timeouts are natural numbers, an `int` has room for something; the bound is a number |
| `CJobs` | `NumericUuidAssumption` | numeric uuids are uuids |
| `HpcTransport` | `HpcAssumption` | the bounds are numbers |
| `HpcJobs` | `HpcJobsAssumption` | those of its two parts |
| `ResourceParser` | `QueryAssumption` | queries and answers have the form the module describes |
| `JobData` | `JobDataAssumption` | widths and bounds are numbers; a fraction has at least one digit, a day at least one second |
| `JobData` | `JsonAssumption` | JSON has the form the module describes; `MicroDigits` digits fit into `int`, and the microseconds of the service's times into half of `uint64_t` |
| `JobData` | `ValueAssumption` | the values a program gives are none of the marks for "nothing", "empty", "indeterminate" and NULL |
| `CBindings` | `MaxItemsAssumption` | the bound is a number |
| `RestConstruction` | `MaxSlashesAssumption` | the bound is a number above 1 |

Threads, objects, `JobRequest`s and uuids are arbitrary sets, of any size.

| Theorem | Statement, for `Spec` of the module |
|---|---|
| `JobClientProofs`: `TypeCorrect`, `UuidSafe`, `SubmitSafe`, `ResultSafe`, `CancelSafe`, `WaitSafe`, `EarlyNullTrue` | `TypeOK`, `UuidOfLastAcknowledged`, `OneJobPerSubmit`, `ResultIsOwn`, `CancelOkMeansTerminal`, `WaitBudget`, `EarlyNullIsTrue` |
| `JobClientProofs`: `CallsEnd` | `CallComesToEnd`, and `StepsLeft` is a natural number |
| `CJobsProofs`: `SubmitCodeTrue`, `CFailuresContained` | `SubmitCodeIsTrue`, `FailuresContained` |
| `HpcTransportProofs`: `TransportTyped`, `AnswersLag`, `CarriedOutOnce`, `DelAnswered` | `TypeOK`, `ReplyLag`, `CarriedOnce`, `DelWaitsForAnswer` |
| `HpcTransportProofs`: `TransportImplemented` | if `MaxRedeliver = 0`, `ImplementsTransport` |
| `HpcJobsProofs`: `Typed`, `CancelAnswered` | `TypeOK`, `CancelWasAnswered` |
| `HpcJobsProofs`: `WireImplemented`, `JobsImplemented` | `ImplementsTransport`, `ImplementsJobClient` |
| `HpcJobsProofs`: `PromisesOverAmqp` | `UuidOfLastAcknowledged`, `OneJobPerSubmit`, `ResultIsOwn` and `WaitBudget` of `JobClient`, over AMQP |
| `HpcJobsProofs`: `EarlyNullOverAmqp` | `EarlyNullIsTrue` of `JobClient`, over AMQP |
| `HpcJobsProofs`: `CallsEndOverAmqp` | `CallComesToEnd` of `JobClient`, of the mapped state |
| `ResourceParserProofs`: `GatesRight`, `QueryComplete` | `GatesAsListed`, `CompleteOrThrow` |
| `CBindingsProofs`: `MemoryTyped`, `ErrorClean`, `FailureClean`, `SuccessComplete` | `TypeOK`, `ErrorFreesAll`, `CleanAfterFailure`, `SuccessHandsOutAll` |
| `JobDataProofs`: `PayloadTold`, `CountsExact`, `TimesOrdered`, `DataTyped` | `PayloadIsAsTold`, `CountsAsSent`, `TimestampsInOrder`, `TypeOK` |
| `JobDataProofs`: `ResultInvariant` | `ResultInv`: all that C got is a function of the JSON |
| `RestConstructionProofs`: `ConstructionTyped`, `UrlIdempotent`, `UrlEndpointKept`, `HeadersSafe` | `TypeOK`, `Idempotent`, `EndpointKept`, `HeadersOwned` |

### JobClient and CJobs

The invariants follow from `IInv == TypeOK /\ CallShape /\ SubmitInv /\ OutcomeInv /\
WaitInv`:

* `CallShape`: a POST is in progress exactly inside a `submitJob`, which is alone on
  its object.  Without it a second thread could move `subs` under a submission.
* `SubmitInv`: a POST that is under way or late has not created a job yet, and no
  submission has both; an answer with a uuid is in the ledger for this very
  submission.  This is what makes `OneJobPerSubmit` inductive: a late POST creates
  a job only for a submission that has none.
* `OutcomeInv`: the uuid a call asked under is one of its object's, and what an
  answer or a return value says of the job is true.  It stays true because jobs
  that have ended stay as they ended (`EndsAreFinal`).
* `WaitInv`: as long as time is left, every status check was followed by a full
  nap, which gives the exact number of checks.

Each part is preserved by each of the nineteen actions, in a lemma of its own.

The action properties speak of the step in which a call returns, and need to know
what that call has learnt before: `InCallInv`.  Until `submitJob` is back its
submission is not acknowledged and the object keeps its uuid (the return code is
true); a status that says the job has ended is still the status of the job when
the thread acts on it (a wait does not give up on a stale reading); a DELETE is
that of a `cancelJob` (so its exception meets the `catch` of `MQSSClientCancelJob`).

`CallsEnd` is the part of `CallReturns` that does not need fairness: every step that
touches a call lowers `StepsLeft`, a natural number, and a step that does not lower it
leaves the call alone and is not one of its own thread.  It rests on `WaitHasTime`: a
wait asks for the status only while time is left, so a nap always shortens `left`.

### HpcTransport

`IInv` adds seven parts to `ReplyLag`.  `receive` takes whatever comes next, so the
question is by how many turns an answer is behind when it is taken.  `LagInv` states this for every answer in a response
queue, at its position, and for every request in the shared queue, at the position
its answer will have, as long as the connection of its object is up; a lost connection
leaves a beginning of the response queue, so no answer moves.  For that to survive `Serve`, the requests of one object must
stand in the order they were sent (`OrderInv`), and the sending of a new call must
not move an older message (`SentInv`).  `Due` tells a call that has still to take an
answer from one that is back with it or threw.  `CarriedInv` says that a request in
the queue was carried out only by listeners that failed before acknowledging it:
without it `CarriedOnce` does not survive the next `Serve`.

For the refinement of `Transport`, `MaxRedeliver = 0` turns `ReplyLag` into "the answer to
this very call", since turns grow with every call that can take an answer; each
action is then a step of `Transport` or none.

### HpcJobs

`JInv` consists of `TypeOK`, the invariant of the transport (`TP!IInv`, with `OwnAnswer`),
and what holds the two parts together:

* `ExchangeInv`: the client is in an exchange exactly while its object is in a call;
  that call is about what the client asked, and the client has the answer the
  transport gave it.
* `OutInv`: what the ways out of a call say about the answer.
* `ReplyInv`: requests are answered when they are carried out, and a cancellation
  that was agreed to has ended its job.
* `SubInv`: no two POSTs in the log are of the same submission.  Without it the late
  POST of one call could be taken for that of another.

The invariants of the parts are not proved again.  A step of `HpcJobs` is a step of
`HpcTransport` or leaves it alone (`WireStep`), and a step of the client code is one of
`JobClient`'s, so the lemmas of `HpcTransportProofs` and `JobClientProofs` apply to the
instances, under `HpcJobsAssumption`.

`StepMapped` proves the refinement step by step: beginning a call and the code
between two exchanges are the same actions of `JobClient` (`BeginMapped`,
`ComputeMapped`); a step of the transport is a stuttering step or, when a call comes
back without its answer, `RequestFails` (`TransportMapped`); the listener's service of a request is `ServicePost` ... `ServiceResult` while the caller
waits, `LatePost` or `JobEnds` when it has given up, and a stuttering step when nothing
came of it (`ServeMapped`).  With `JobsImplemented`, the theorems of `JobClientProofs` hold
of the mapped state, and for four of them the mapping does not touch what they
speak about: `PromisesOverAmqp` (`ProofsApply` is the one place where the two are
joined).  `EarlyNullIsTrue` speaks of `status` and of the step that returns, so its
mapped form is read step by step: a return of the mapped client is one of the code
(`ReturnsFromCode`).  `CallsEndOverAmqp` bounds the exchanges of a job call over AMQP;
that each exchange ends is another matter (see Fairness).  `CancelOkMeansTerminal` is not among them: over AMQP it is
false, as said above.

### The other modules

`ResourceParser`: `ParserInv` says that the resources built are those of the values read
so far and, inside a string of instructions, that the gates found are those of
the entries read so far and `supportedQubits` is empty between two of them.  The
lemmas say what one entry and one value more add to the reference definitions;
they are proved from the cardinality of sets of positions, not by induction over
the list.

`CBindings`: `CleanInv` says that a function inside a call holds exactly the blocks its
steps so far asked for (`Held`), and that outputs point to the arrays among them
once the caller can see them (`Pointer`).
The lemmas compare that, function by function, with what each error branch frees
and with what a result of this size consists of.

`JobData`: `RequestInv` says of each member that it holds what was last said of the
parameter that belongs to it, or what the default constructor left there (`SetterFacts`,
`MemberFacts` and `KeyFacts` compare the tables); `ResultInv`, that the object, the counts and the
timestamps are those which `ResultOf`, `CountsOf` and `Microseconds` give for the JSON.  The
rest is about these operators, which are folds over lists of any length.  The
induction theorems of the library take an operator as a parameter, so `Induction` states
the principle for a subset of `Nat` instead, from the least element that is not in it.
`FlattenSeq` and `FoldLeft` are expanded to the functions they `CHOOSE`, which are shown to
exist (`LinearDefined`); then `FlattenMapped` says that converting the entries of a list of
lists and joining the lists commute, `NumberMeant` that what `std::stoi` reads of
`MicroDigits` digits is the fraction in microseconds, and `NumberBound` that it is
below one second.  By `JsonAssumption` nothing wraps, except a time just before the
epoch, which lands above all others.

`RestConstruction`: the lemmas compute the parts of the two forms that `normalizeUrl`
returns; `UrlInv` says that from the second step on `mUrl` is the normal form of the
caller's URL, and `HeaderInv` which nodes the header list has at each step and who owns
them.

### Only model-checked

* `CallReturns`, `AcceptedCallReturns`, `JobCallReturns`: liveness under fairness is out of
  the prover's reach.  `CallsEnd` proves of `CallReturns` what is not fairness.
* The refinement of `Transport` says nothing when requests are redelivered: there it
  is false, and `AnswersLag` is what holds.

## Not modelled

* Python bindings: they forward every constructor, property and method, so Python
  programs are callers of what is modelled.  The interpreter lock they hold during
  a call is not modelled; without it there are more interleavings, not fewer.
* C wrappers that only check for NULL and forward (`MQSSClientGetResourceInfo`,
  `MQSSClientGetNumberPendingJobs`).
* `JobRequest::setUuid` called by a program: the method is public, and a program that
  uses it makes an object denote any job it likes.  The models call it where
  `submitJob` does.
* Hazards of `PROJECT.json` that have a note instead of a property.  In most of them the
  code does what the hazard says, and the nearest property names it as its exception;
  the others lie outside the models.
* Two threads on one HPC client, which the AMQP library forbids; consumers and
  response queues that accumulate on the broker, whose number no code bounds.
* An exception of the JSON library on a payload that is not UTF-8, which leaves
  `submitJob` before anything is sent.
* Real time: only the time a wait sleeps is counted, as in the code.
* Exhaustion of memory outside the C functions above.

## What could follow

Every component with state is modelled, and every invariant and action property of
the runs that hold is a theorem.  What is left is liveness; the refinement of `HpcJobs`
with redelivery, where a weaker specification than `JobClient` would have to be stated,
since `Transport` no longer holds; and the number of consumers and queues that an HPC
client leaves on the broker, which the code does not bound.
