# A TLA+ model of agreements-generator-api

The program is a Go HTTP service that turns a ZIP of templates and spreadsheets
into a ZIP of documents. The generation itself is done by a Python worker, which
the service reaches over gRPC or through RabbitMQ. A client submits an archive,
gets a job id, polls the status of the job and fetches the result. What can go
wrong lies between the calls: the status of a job is kept twice (PostgreSQL and
Redis), the result a third time, and requests, two goroutines per job, a clean-up
loop, the worker and the end of the process all come between any two of them.

## Inventory

| Component | State | Operations | Interacts with |
|---|---|---|---|
| PostgreSQL storage (`internal/storage/postgres`) | tables `jobs`, `archives`, `input_archives`, `users` | StoreJob, UpdateJob, SaveResponse, CheckJobStatus, GetArchive, GetArchiveInfo, SaveRawArchive, Register, LogIn, cleanUpLoop | both generators, auth, the worker |
| Redis cache (`internal/cache`) | key `job:<id>` with a TTL | SetJobStatus, GetJobStatus, DeleteJobStatus (never called) | both generators, the worker |
| in-memory storage | maps under a mutex | the same interface, without input archives | both generators (queue mode is refused for want of input archives), auth |
| gRPC generator (`service/grpc_generator`) | two goroutines and two channels per job, two contexts | BulkGenerate, ProcessJob, CheckJobStatus, GetArchive, GetArchiveInfo | storage, cache, client |
| gRPC client (`gen_client`) | the connection | BulkGenerate, Close | worker, ProcessJob (channels) |
| queue generator (`service/queue_generator`) | none of its own | BulkGenerate, CheckJobStatus, GetArchive, GetArchiveInfo | storage, cache, publisher |
| RabbitMQ publisher | connection, channel, durable queue | Send, Close | worker |
| Python worker (git submodule) | outside the repository | | PostgreSQL, Redis, RabbitMQ, gRPC |
| auth (`service/auth.go`, `hasher`, `token_manager`) | table `users`, signed tokens | Register, LogIn, Create, Validate, Parse | user storage, API middleware |
| HTTP API, middleware, metrics | counters and gauges | eight routes | services |
| main, config, logger, encoder | connections of three clients, `err` of main | boot, graceful stop | everything |
| `docker-compose.yaml` | state of the containers | start, health check, restart | PostgreSQL, Redis, RabbitMQ, migrations, server, worker |

What makes each of them correct, and what is hard to test about it:

* **stores**: status, result and cache agree although no transaction spans them;
  every statement may fail, or take effect and lose its answer; rows disappear by
  age at any moment and the cache is not told;
* **status requests**: a read-through cache filled from a database read some time
  before, racing the writer of the final status;
* **ProcessJob**: an order of three calls under one deadline, with error branches
  that rewrite the verdict; a hand-over on two unbuffered channels; no resumption
  after a restart;
* **queue submission**: four effects in a row, the last on a third system, no undo;
* **boot and shutdown**: clients closed before they are used; goroutines nobody
  waits for;
* **auth**: a user row without a token; two registrations of one login at once; a
  token that expires between the two looks the middleware takes at it;
* **HTTP**: requests in flight while the server stops, two goroutines that share one
  error variable, a second header after a response that could not be written;
* **clean-up loop**: a failed DELETE keeps its connection, and everybody else waits
  for one.

`PROJECT.json` lists all of these as hazards at their lines, with the properties
that cover them, or the reason why none does.

## Modules

| Module | Models |
|---|---|
| `JobLifecycle` | abstract specification: what a storage promises about a job |
| `JobStore` | the statements and commands on `jobs`, `archives` and the Redis key, with their outcomes, for PostgreSQL and in memory |
| `StatusService` | CheckJobStatus, GetArchive, GetArchiveInfo, the same in both generators |
| `GrpcGenerator` | BulkGenerate, ProcessJob and the gRPC client, on top of `StatusService` |
| `QueueGenerator` | BulkGenerate of queue mode, the queue, and assumptions about the worker |
| `ConnPool` | who holds and who waits for a connection to PostgreSQL; the clean-up loop |
| `Auth` | Register and LogIn with hasher, token manager and user storage; MWAuth |
| `HttpServer` | router, middleware, handlers, error mapping; the two goroutines of `main`, graceful stop |
| `Boot` | the containers of `docker-compose.yaml` and `main` up to ListenAndServe |
| `LogFields` | `logger.toZapFields` as a function; there is no state to explore, so it is proved about only |
| `JobLifecycleProofs`, `GrpcGeneratorProofs`, `QueueGeneratorProofs`, `ConnPoolProofs`, `AuthProofs`, `HttpServerProofs`, `BootProofs`, `LogFieldsProofs` | the theorems about each |
| `MCGrpcGenerator`, `MCQueueGenerator`, `MCAuth`, `MCHttpServer` | values of the constants |

`JobStore` and `StatusService` have no specification of their own: the two
generators extend them and add the actors. Operators with the comment `MUTANT` are
broken variants of the definition next to them; nothing in a specification uses them,
they show that a property can fail.

How the modules fit together: `Boot` ends where `HttpServer` starts; a request that
`HttpServer` has in the stage `service` is one action sequence of a generator or of
`Auth`, whose outcomes are the `Outcomes` of `HttpServer`; a statement that fails in
`JobStore` is, among others, one that gave up waiting in `ConnPool`.

### Jobs and storage

* `jobs[j]`, `archives[j]` are the rows of a job. `archives` keeps what a reader
  can tell apart: a ZIP, a NULL archive, or a NULL archive with a fatal error.
  `old` holds the jobs that the next tick of the clean-up deletes; `cache[j]` is
  the Redis key.
* An outcome of a call is `ok`, `fail` (an error, no effect) or `lost` (an effect
  and an error). `SaveResponse` has `uncommitted` instead: COMMIT failed and the
  method still returned nil (`postgres.go:133`). A `lost` Redis command differs from
  `ok` in nothing, because all callers only log its error.
* `StorageType` switches the operators of `JobStore` to the maps of
  `storage_in_memory`: calls do not fail, except UpdateJob and SaveResponse of a job
  that is not there (which are no errors in PostgreSQL); a result is part of the
  entry; deadlines are not looked at; a restart empties everything but Redis.
* `asked`, `seen`: a status request in flight, between its read of the cache, its
  read of the table and its write to the cache. `told[j]` records the last status
  returned for a job; the program has no such variable, properties about clients do.
* `pc[j]`, `rpc[j]`: the goroutine of ProcessJob and that of the client. The two
  channel operations are rendezvous: one action moves both. `verdict[j]` stands for
  the branch ProcessJob is on: `completed`, or `failed` after an error of the worker,
  of SaveResponse or of UpdateJob. At the end it is also the label of the duration
  metric. `expired` holds the jobs whose `finalizeCtx` ran out: their calls fail.
* `Crash` is the end of the process, by a fault or by SIGTERM: `main` waits for the
  HTTP server and not for ProcessJob, so running jobs are left where they are.
* In `QueueGenerator`, `inputs` is `input_archives`, `queue` the ready messages,
  `dropped` those the broker lost.

`Dispatch` joins SetJobStatus, the start of both goroutines and the reply: no other
actor can observe the states in between, as the id is not known yet. All other calls
are actions of their own.

The worker is not in the repository. In gRPC mode nothing is assumed about it: the
call returns an archive, no archive or an error. In queue mode `WorkerTake` to
`WorkerCrash` are assumptions taken from the README's diagram: it reads the input
archive, records a result once and then the status that goes with it, tells Redis,
and acknowledges last. They are marked external.

### Connections

`ConnPool` keeps of the storage only who has a connection. Requests make one statement
each; ProcessJob's SaveResponse is a transaction and its UpdateJob a statement; a tick
of `cleanUpLoop` is a transaction. `waiting` is the queue of the pool and `out` its
count. `DeleteFails` is the `continue` at `postgres.go:261`, which ends the tick without
Commit or Rollback. `Conservation` counts these: they are the only leak.

### Users and tokens

A client of `Auth` is a slot for one request; `call` says between which two calls it
stands. A user is the row or map entry, with the hash reduced to what bcrypt looks at
(`Key`: the first 72 bytes); a token is what its claims say plus, for the properties,
the password it was issued against and, in memory, the start of the process it belongs
to. `Second` is the unit to which `jwt.NewNumericDate` truncates. `RegisterStore` has
the three outcomes of a statement; a number of the sequence is used up by a conflict
as well. `Parse` follows `Validate` as a step of its own: MWAuth verifies twice.

### HTTP and the stop

`req[s]` goes through `guard` (MWAuth), `handler`, `service` and `sent`; `answers`
collects every WriteHeader, of which net/http sends the first. `StatusOf` is the
table of `domain/errors.go`. The goroutine of ListenAndServe (`serve`) and the one that
waits for a signal (`stopper`) each assign `err` and look at it in a second step.

### Boot

`Needs` is `depends_on`; containers start, become healthy, fail and, where the file
says so, come back. `main` is one action per call that can end it or changes a client.
`NewClient` and `CloseObj` are taken in the order of `main.go:61-85`. `refused` is what
the program will not accept of its configuration: the file or the log level
(`main.go:33-43`), the URL that `pgxpool.New` parses (`storage.go:65`), the target of
`grpc.NewClient` (`main.go:63`). Each ends `main` at its own place.

The wiring of `main.go` as it stands closes the gRPC connection, the Redis client
and the AMQP connection before the server starts (`main.go:68,71,85`). The
behaviours of that program are those of `GrpcGenerator` with
`RpcOutcomes = {"fatal"}` and `CacheOutcomes = {"fail"}`, and of `QueueGenerator`
with `SendOutcomes = {"fail"}`. The runs use the larger sets, the ones
the code is written for, which contain these.

## Properties and runs

| Run | Instance | Shows |
|---|---|---|
| `grpc_faults` | 1 job, 2 request slots, 1 restart, all outcomes, deadlines, clean-up at any time, fair | `TypeOK`, `CompletedIsReal`, `RowMatchesStatus`, `NoSendOnClosedChannel`, `ProcessJobIsNeverStuck`, `ImplementsLifecycle`, `ProcessJobEnds`, `PollingEnds` |
| `grpc_two_jobs` | 2 jobs, 1 slot, 1 restart, calls fail without effect | `CompletedIsServed`, `FailedIsNotContradicted`, `VerdictNeverReversed` |
| `grpc_memory` | 2 jobs, 1 slot, storage in memory, 1 restart, fair | `AcceptedIsDecided` |
| `queue_faults` | 1 job, 2 slots, 2 deaths, all outcomes, fair | `TypeOK`, `InputBeforeMessage`, `AcceptedIsUnderWay`, `ImplementsLifecycle`, `PollingEnds`, `VerdictNeverReversed` |
| `pool` | 2 connections, 2 requests, 2 jobs, 2 failed ticks, fair | `Conservation`, `NobodyIsStranded`, `RequestsAreAnswered`, `SweeperGoesOn`, `FinalizersEnd` |
| `auth` | 2 requests at once, 2 logins, 3 passwords, all outcomes, clock, 1 restart, fair | `TypeOK`, `TokenNamesUser`, `ServedIsSomebody`, `TokenLivesItsTTL`, `UsersAreKept`, `NoLockOut` |
| `http` | 2 requests at once out of 10, signal at any time, port may be taken, fair | `OnlyAuthorisedAreServed`, `AnswersAreHonest`, `GaugeIsTrue`, `GracefulIsComplete`, `StopIsNeverStuck`, `StopEnds` |
| `boot` | 6 containers, 2 failures, any part of the configuration refused, fair | `ServesOnSolidGround`, `WorkerComesLast`, `MainIsNeverStuck`, `BootEnds` |
| `final_status` | 1 job, 1 slot | **violated**: a client is told `completed`, then `processing` |
| `save_error` | 1 job | **violated**: a failed COMMIT leaves a completed job without archive |
| `unfinished` | 1 job | **violated**: the archive of a running job is "not found", not "not finished" |
| `boot_clients` | no failure | **violated**: when the server serves, its three clients have been closed |

The last four rows are what the README, the load tests or the unit tests say and the
code does not do; each has an entry in `PROJECT.json` under `findings`.

Each property is checked where its hazard is greatest and not everywhere it holds: that
`VerdictNeverReversed`, `AcceptedIsUnderWay` and `ImplementsLifecycle` hold for the
storage in memory and for any number of jobs, and `TypeOK` of `HttpServer` and of `ConnPool`, is proved.

*Bounds.* Jobs share nothing but the clean-up tick, the restart and the slots, so one
job with two concurrent requests shows every race of a single status and two jobs
with one slot every one between jobs; the theorems lift the safety results to all
sizes. `MaxCrashes`, `MaxRestarts` and `MaxFaults` bound restarts and failures: the
states after one more are those after the last. `MaxFailures` equals `MaxConns` in
`pool`, so that the pool is used up in some behaviours. `MaxIds = 1` lets registrations
begin until one id is used; two that overlap use two. `MaxClock` reaches the end of the
first token and the last second before it.
No counter of the code is capped.

*Deadlock* is checked in `pool`, where somebody can always move. In the other runs it
is not: ids are finite, a server may have ended, and once everything is used up and
expired nothing is left to do, which is no fault of the program.

*Symmetry* is used in `grpc_two_jobs` and the violated runs of the gRPC generator only,
none of which checks liveness.

*`TTLOutlivesJob`* (gRPC) says that rows do not reach `job_ttl` while their job runs. The
default configuration has 5m against 2m plus 5s, but `config.Load` checks nothing, so
only the run about decisions assumes it. Where it does not hold, as everywhere in queue
mode, a job may be deleted before it is decided, and the properties say so.

*`SlowBackends`* lets the 5 s deadline pass between two calls. It is off in
`grpc_two_jobs`, where failing calls have the same effect.

### Fairness

Submitting, asking, hanging up, signals and faults are up to the environment and never
fair. What is:

* each goroutine of a job and each request that has begun, weakly: the RPC has
  `job_max_duration`, the final calls five seconds, statements and commands return.
  Rows grow old and keys expire with the clock. Of the worker of queue mode nothing is
  asked: polling ends even if no worker ever takes a message;
* the clean-up tick of `JobStore`, weakly. This is what `ConnPool` looks into: it is
  true as long as fewer ticks have failed than there are connections
  (`SweeperGoesOn`), and after that neither requests nor ticks get anywhere.
  `PollingEnds` is therefore a claim about servers whose pool is not used up;
* in `ConnPool`, PostgreSQL, the ticker and `finalizeCtx`, weakly; a client that waits
  for its answer may wait for ever. Weak fairness is enough for those in the queue,
  as it is first come, first served;
* in `Auth`, requests that have begun, weakly, and for each login an attempt of its
  owner to log in, strongly: between two attempts all slots may be taken by others;
* in `HttpServer`, the two goroutines of `main` and the deadline, but no request: a
  handler may hang, and `StopEnds` must hold all the same;
* in `Boot`, containers start and get healthy, and `main` goes on whenever its next
  call can return.

## Proofs

Everything below is proved for all values of the constants: any sets of jobs, readers,
clients, logins, slots and connections, all sets of outcomes, either storage, any
number of restarts and failures. The theorems rest on the assumptions that the modules
name (`StoreAssumption`, `NoJobAssumption`, `GrpcAssumption`, `QueueAssumption`,
`PoolAssumption`, `AuthAssumption`, `ServerAssumption`, `BootAssumption`), which only
say what the constants may be, and on what a theorem about progress says that it assumes.
`PROJECT.json` lists the results; the inductive invariants that they rest on (`Invariance`)
and the types that follow (`PoolTypes`, `BootTypes`) are theorems of the same modules.

### Safety

`JobLifecycleProofs`: what the abstract specification is worth. A verdict agrees with the
recorded result (`Agrees`); result and verdict are given once and stay until the row
expires (`VerdictsLast`); an expired id stays away (`GoneForGood`). Both generators
inherit this through their refinement theorems, as `VerdictIsForGood` and `GoneIsGone`.

`GrpcGeneratorProofs`

* `TypeCorrect`, `ChannelsAreUsedUp`: from `TypeInv`. `TypeOK` alone is not
  inductive, since Update writes `verdict` and Save writes `res`; `HeldInv` says that
  they are there by then, which in turn needs how far the two goroutines can be apart;
* `Invariance`: the inductive invariant `IInv`. Its centre is `Sound(j, s)`: a final
  status s held by anyone (row, cache, request, client) implies that ProcessJob is
  past UpdateJob, that `completed` is the status of the row or the row is gone, and,
  without lost acknowledgements, that s is the verdict. `SoundStep` shows that a
  sound status stays sound whoever steps; `HolderStep` that statuses are only copied
  between holders or come from the verdict; `TableStep` and `VerdictStep` that the
  verdict agrees with the result that was saved. Without the part about requests in
  flight the invariant is not inductive: a request may write what it read long ago;
* `CompletedIsTrue`, `TablesAgree`, `CompletedCanBeFetched`, `FailedIsTrue`: the
  safety invariants of the runs, from `IInv`; `OneVerdict`: the action property
  `VerdictNeverReversed`, from `IInv` in both states and `SoundStep`;
* `Refinement`: `GrpcGenerator` implements `JobLifecycle` (Submit is Issue, Save is
  Record, Update is Complete or Fail, Tick is Expire, a restart of the storage in memory
  expires everything, and all else is a stutter);
* `ReceivesHaveSenders`: of the two goroutines of a job, whoever waits at a channel has
  the other on its way to the other end;
* `UnfinishedIsNotFound`, `ClosedConnectionCompletesNothing`: two results about
  divergences, see below.

`QueueGeneratorProofs`: `TypeCorrect`, `InputIsThere`, `NobodyIsForgotten` and
`Refinement`. The invariant relates the submission, the queue, the worker and the
tables: a message or a worker at work implies that the submission got to Send and that
the input archive was stored first; a verdict agrees with the recorded result; an id
that a client holds was published or lost by the broker. `TruthInv` adds what is known
of a job: `Known(j)` are the final statuses that the cache, a request or a client has of
it, and each is the one in the row, if there is a row. It needs the invariant before
(the worker has no status to tell Redis before it has written it), and gives
`FinalIsTrue`, `CompletedIsServed` and `VerdictNotReversed`, the action property
`VerdictNeverReversed` of the run. That the row is still there is needed: once it has
been cleaned up, a message that comes again finds no input, and a client that was told
`completed` can be told `failed`.

`ConnPoolProofs`: `TypeOK /\ Conservation` is inductive, and each action takes one
connection, gives one back, leaves them alone or loses one (`Takes`, `Gives`, `Keeps`).
From it, `FailedTicksUseUpThePool`: after `MaxConns` failed ticks nobody holds a
connection, ever again. `WaitersAreQueued` (each who waits is in the queue, once) comes
from the four things a step can do to the queue (`StepShape`) and from what joining and
leaving do to a sequence (`Joins`, `Leaves`); with it `FirstComeFirstServed`, an action
property, and `PoolNeverLocksUp`: before the pool is used up, a queue is never waiting
for itself. `EverybodyHasAWay` needs to know which label an actor of each kind can
stand at (`KindsFit`).

`AuthProofs`: the invariant says of every request in flight that what it has read or
stored is still so, which holds because a stored user is never changed; hence
`TokensAreTrue`, `OneIdEach`, `UsersStay`. `ServedAreStored` follows the token through
MWAuth: a token that is read names a stored user (`TokenSource`), it is carried from
Validate to the handler (`CarriedInv`), and users are kept or the process is a new one
(`KeptOrRestart`). `TokensExpireOnTime` rests on arithmetic
alone: truncation loses less than `Second`. `TypeCorrect`: `TypeOK` is inductive as it
stands. As all of these hold for `StorageType =
"in_memory"` too, no run repeats them there.

`HttpServerProofs`: `GracefulStop` needs `StopInv`: after Shutdown nobody is let in, and
only the stopper itself ever sets `err` to nil. `ServicesAreGuarded`, `OneHonestAnswer`
come from what a request in each stage has been answered; `GaugeCountsRequests` from
counting slots. `TypeCorrect` needs both: the answers are of their type because they are
legal, and the gauge is a number because it counts. `NobodyWaitsForEver`: what each of
the two goroutines waits for has happened or will, from `StopInv`.

`BootProofs`: `BootTypes`, `SolidGround`, `WorkerIsLast`, from what has been done by the
time main or a container gets to a state.

*The program as it is wired.* Three theorems take the findings about closed clients
further than their runs can. `BootProofs!ServesWithoutClients`: whenever `main` serves it
has closed all three clients, whatever else happens. Hence the generators run with the
outcomes of calls on closed connections, and then, for any other outcomes:
`GrpcGeneratorProofs!ClosedConnectionCompletesNothing` (no job is ever completed) and
`QueueGeneratorProofs!ClosedChannelAcceptsNobody` (no id is ever given out). All other
theorems hold for that program as well, as they hold for all sets of outcomes.
`UnfinishedIsNotFound` says of the run `unfinished` that it is no race: with PostgreSQL
the archive of a job without a result is never reported as "not finished".

`LogFieldsProofs`: `FieldsAreLogged`, for argument lists of any length and any values
whose last argument is not a key without a value, and `LoneKeyPanics` for those where it
is: a defect, see below. The loop is a recursive function; `DownwardInduction`, by
the least counterexample, stands in for an induction theorem and serves twice: to show
that the function is what its definition says (`RoundsAreMade`), and that each round
returns the pairs from its own place on (`RoundIsRight`).

### Progress

The proof system does not know ENABLED, hence not what WF says. The theorems about
progress take the fairness of an action A in the form that it has when A can be taken
exactly where its guard holds:

    []<>~Guard \/ []<><<A>>_vars

This follows from `WF_vars(A)` if `Guard => ENABLED <<A>>_vars` in all reachable states.
TLC checks that, with ENABLED, in `ProcessJobIsNeverStuck`, `StopIsNeverStuck`,
`MainIsNeverStuck` and `NobodyIsStranded`. Of three of them the same is proved for
all values of the constants with the guards of the actions in the place of ENABLED:

| Checked with ENABLED | Proved with guards | Justifies |
|---|---|---|
| `ProcessJobIsNeverStuck` | `ReceivesHaveSenders` | `Scheduled(j)` of a job's goroutines |
| `NobodyIsStranded` | `EverybodyHasAWay` | `EachGoesOn`, `Impatience`, `Service` |
| `StopIsNeverStuck` | `NobodyWaitsForEver` | `Scheduled` of main's goroutines |

`main` is not among them: at each of its steps the guard is the step itself or what
NewPublisher asks of RabbitMQ, which is always one of its two cases, so a formula about
guards would say nothing. In `QueueGenerator` and `Auth` the guards are those of the
actions themselves.

| Theorem | States | Argument |
|---|---|---|
| `GrpcGeneratorProofs!JobsEnd` | `ProcessJobEnds` | `StepsLeft`: each step of the two goroutines of a job takes one away, nobody adds one |
| `GrpcGeneratorProofs!VerdictsCome` | `AcceptedIsDecided` | the same, with `KeptInv`: where no statement fails and rows outlive their jobs (`NoStorageFault`), a job that is past UpdateJob has a final row |
| `GrpcGeneratorProofs!NoRowForEver` | every row goes away | rows grow old, old rows are deleted by the next tick |
| `GrpcGeneratorProofs!PollingAlwaysEnds`, `QueueGeneratorProofs!PollingAlwaysEnds` | `PollingEnds` | first the row is for ever not `processing`, then no request holds what it read from it, then the key expires: three stages, none of which can be undone |
| `ConnPoolProofs!RequestsAlwaysAnswered`, `ConnPoolProofs!SweeperAlwaysGoesOn` | `RequestsAreAnswered`, `SweeperGoesOn` | `EveryPlaceIsLeft`: the head is served, or a holder gives back and it is served then; whoever stands behind moves up. From one place to all of them by doubling (below) |
| `ConnPoolProofs!FinalizersAlwaysEnd` | `FinalizersEnd` | the places of a finalizer in order; GiveUp leads on from each place where it waits |
| `HttpServerProofs!StopAlwaysEnds` | `StopEnds` | the places of the two goroutines of `main` |
| `BootProofs!BootAlwaysEnds` | `BootEnds` | the places of `main` in order |
| `AuthProofs!NobodyIsLockedOut` | `NoLockOut` | slots become free again and again (`SlotsAreFreed`), so the owner gets one, and a login under way with the right password is not disturbed (`LoginStep`); for PostgreSQL and a method that signs, and restarts that end |

*Doubling.* "Every place of the queue is left, so the queue is left" and "every slot is
rid of the status, so all are" are inductions in temporal logic, over a number that no
rule of the proof system can be applied to. What it can do is one step of doubling: if
whoever stands k places further back gets k places on, from wherever it stands, then
2k places as well (`Twice`), and likewise for k slots (`TwoParts`). Ten steps give 1024.
So the theorems about the pool assume that never more than 1024 callers wait
(`MaxWaiting`), those about polling that there are at most 1024 status requests at a
time (`MaxSlots`); the next power takes one line more. The code has no such bound: it is
one of the proof and not of the program. Jobs, callers, connections, faults and restarts
are arbitrary in all of them.

### What is only model-checked

* `MainIsNeverStuck`, and that the guards in the table above are ENABLED, and that WF implies the guard form: the
  proof system does not know ENABLED;
* the same progress with more than 1024 waiting callers or status requests: unbounded
  induction in temporal logic;
* the runs `final_status` and `save_error`: their counterexamples show that it can
  happen, and nothing is proved about when it does.

## Known divergences

Besides the four violated runs, modelling showed the following. The models contain the
behaviour of the code in each case.

* `config/server_local.yaml:41` says that `jwt_signing_method` may be HS256, ES256 or
  RS256. The secret is kept as a `[]byte`, which only HMAC takes for a key
  (`jwt.go:76`): with the other two no token is ever issued (`Auth.CanSign`).
* `main.go:133` and `main.go:149` assign the same variable from two goroutines: a stop
  that drained the server can be logged as not graceful. The reverse cannot happen
  (`GracefulStop`).
* `main.go:134` logs "can't start http server" after every normal stop, as
  `ErrServerClosed` is not excluded.
* README.md:262 lists `POST /auth/login`; `auth.go:26` registers GET.
* README.md:129-135 promises the API after `docker compose up`; the server dials
  RabbitMQ at once (`main.go:73-84`), does not depend on it in `docker-compose.yaml:27`
  and is not restarted. `Boot.NewPublisher` may therefore end it.
* README.md:244-251 leaves out `DB_USER`, which `config.go:108` requires.
* `logger.go:93` appends `MISSING_VALUE` for a key without a value, and then
  `logger.go:96` reads beyond the end: the call panics (`LoneKeyPanics`). No present caller passes such a list. Callers that pass an
  error without a key (`api.go:69`) lose it.
* With storage in memory, tokens survive a restart and users do not: an old token names
  whoever has its id now. `TokenNamesUser` excludes it.

## Not modelled

Formatting, the text of errors and of bodies (`dto`), and the JSON encoder, which has
no state; the ids (`uuid.NewUUID` is taken to return fresh ones); the user of a job,
which is stored and never read back; the counters and histograms of the metrics, which
only grow and are read by nobody in the program; reading of YAML files and defaults;
the internals of the Python worker, which is a git submodule; the load tests, the
monitoring set-up and CI, which are not part of the program.

## Plan

1. *(done)* `JobLifecycle`, `JobStore`, `StatusService`, `GrpcGenerator`,
   `QueueGenerator`, the proofs about `GrpcGenerator`.
2. *(done)* the storage in memory, as a second meaning of the operators of `JobStore`
   and of `Auth`, under the same abstract specification `JobLifecycle`.
3. *(done)* `ConnPool`, `Auth`, `HttpServer`, `Boot`, `LogFields`.
4. *(done)* proofs about `QueueGenerator`, `ConnPool`, `Auth`, `HttpServer`, `Boot`.
5. *(done)* proofs about progress, `JobLifecycle`, `LogFields`, and the queue of the pool.
6. *(done)* progress for queues and request slots of any practical size, what clients of
   queue mode can rely on, three never-stuck invariants in guard form, and what the closed
   clients of `main.go` lead to.
7. Open: the pool and the generators in one module, so that `PollingEnds` is stated
   with the leak of `ConnPool` instead of a fair tick.
