# Verification of the user service

TLA+ models of the user management service in this repository, checked with
TLC on small instances and, where marked, proved with TLAPS for every instance.
The models are read from the Go source; `PROJECT.json` maps each definition to the lines it stands for.

## 1. The system

One Go process (`cmd/server/main.go`) serves REST and gRPC requests. Each
request runs on a goroutine of its own and goes through

    handler (rest, grpc) -> user.Service -> CacheDecorator (Redis) -> UserRepository (PostgreSQL)
                                         -> UserEventPublisher (asynchronous Kafka writer)

Nothing in the process is shared between requests but the connection pools, so
all interaction is through PostgreSQL, Redis and Kafka. There are no
transactions and no locks: a request is a series of independent statements and commands.

| Component | State | Operations | Hard behaviour | What makes it correct |
|---|---|---|---|---|
| `domain/user` entity, errors, interfaces | - | - | the password hash is not part of the JSON form | - |
| `repository/database` | table `users` with unique id, email, nickname | Create, GetBy*, Update, Delete, List | a statement may fail before or after it took effect; UPDATE writes all columns | identities stay unique; a deleted user stays deleted |
| `repository/cache` | Redis: three keys per user, with a time to live | the same, read-through and invalidating | fills race with invalidations; pipelines are not atomic and may be half applied; Redis outlives the process | entries are projections of stored rows under their own keys; agrees with the table; stale entries vanish |
| `domain/user` service | - | CreateUser, GetUser, UpdateUser, DeleteUser, ListUsers | check-then-act, read-modify-write, several fallible calls in a row | replies and events tell the truth; updates change what they were asked to change |
| `events` | - | one event per change, best effort | lost after the commit | no false, no duplicate announcement |
| `api/rest`, `api/grpc` | - | parameters in, errors out | different defaults; int overflow | same answers; which parameters make a statement fail |
| `platform/ratelimiter` | token bucket | Allow | one bucket for all REST requests, taken from concurrently | no period sees more than burst and refills |
| `platform/kafka`, `platform/{postgres,redis}` | connections, writer buffer | open, close, asynchronous send | the buffer dies with the process; Close must come after the last publisher | a stop loses no event |
| `api/health` | - | Check | three pings under one context; probes pass the rate limiter | no start without a healthy answer |
| `main` | phase of the process, goroutines of the servers, errChan, sigChan | start, signal, stop | stops race with late starts; os.Exit skips deferred closes; HTTP requests outlive their 10 s; GracefulStop has no limit, nor has the start at PostgreSQL and the broker | requests end before their connections are closed; the process waits for what it must only |
| `config`, `platform/{tracer,logger}` | - | set-up | numbers are not validated | - |

The hazards of this code, each at its line, are listed in `PROJECT.json`.

## 2. Modules

| Module | Models | Depends on |
|---|---|---|
| `UserTable` | rows, keys, the JSON projection (`Sanitize`), what SELECT and the unique constraints compute | - |
| `Repository` | the interface `user.Repository` as an abstract specification: each call takes effect atomically | `UserTable` |
| `CachedRepository` | `CacheDecorator` over `UserRepository`: one action per statement or command | `UserTable`, instantiates `Repository` |
| `UserService` | `user.Service`, handlers' error mapping and the publisher on top of the above | `CachedRepository` |
| `UserListing` | `ListUsers` through all layers, with concurrent writers and a paging client | - |
| `GracefulServer` | what main promises the requests of a server that is stopped, as an abstract specification | - |
| `Lifecycle` | `main` from the first line to the exit, both servers, rate limiter, health check, Kafka writer | instantiates `GracefulServer` twice |
| `CachedRepositoryProofs` | theorems: types, cache, identities, reads | `CachedRepository` |
| `RepositoryHistoryProofs` | theorems: what happened to the table | `CachedRepositoryProofs` |
| `UserServiceProofs` | theorems: replies and events | `UserService`, `RepositoryHistoryProofs` |
| `SequentialProofs` | theorems: one request at a time; the refinement of `Repository` | `UserServiceProofs` |
| `UserListingProofs` | theorems: parameters and pages | `UserListing` |
| `UserWalkProofs` | theorems: what the pages of a walk add up to | `UserListingProofs` |
| `LifecycleProofs` | theorems: orderly stop, refinements | `Lifecycle` |
| `RateLimitProofs` | theorem: the rate | `LifecycleProofs` |
| `MC*` | small instances for TLC | |

### How state and actions correspond to the code

`users` is the table, `redis[k]` the document under a key (`NoUser`: none), and
`call[r]` the activation of the `CacheDecorator` method that request `r` is in:
`pc` names the statement or command it is about to execute. `GetBy*` go
`lookup -> select -> set`, `Create` goes `insert -> set`, `Update` goes
`load -> update -> del -> reload -> set` and `Delete` goes `load -> delete ->
del`. In `set` and `del` (`cacheUser`, `invalidateUserCache`) every command of
the pipeline is a step. `svc[r]` is the activation of the service method above
it; its `pc` names the repository call it waits for, and the actions `After...`
are the code between two calls. `events` holds what was handed to the Kafka
writer. `committed` is a history variable: every row that was ever in the table.

`Lifecycle` stands beside these modules rather than on top of them: it keeps of a
handler only which connections it uses, in which order. `phase` is the
statement of `main` that is next or waited in, from `LoadConfig` over the
connections, the health check and `select` to the two stops and the deferred
closes (Kafka, Redis, PostgreSQL, tracer: the reverse of the start);
`server[s]` is the goroutine of a server, `open` the connections,
`overdue` the REST requests in flight when `Shutdown` timed out. `req[r].pc` is the point a handler is at: the rate
limit (REST only), the service call up to its statement, the cache
(`CacheUser`), the re-read of an update and its second use of the cache
(`ReloadUser`, `RecacheUser`), the publisher, or one of the three pings of
`Check`. A handler that fails after its change is stored ends as `cut_off` if main had closed
a connection it needed, and else as `failed`: its client hung up, or the re-read found the user deleted. `buffer` is the Kafka
writer's, `offered` what the broker took or failed to take. `GracefulServer`
has a stage, the active requests and the overdue ones; the two instances in
`Lifecycle` map the phase and `server[s]` to its stage.

Abstractions:

- First name, last name and country are one field `profile`; `created_at` is
  left out except in `UserListing`; `updated_at` is represented by the request that wrote the
  row, which tells any two writes apart as their timestamps do.
- `password` is `"hash"` or `""`: the properties ask only whether it got lost.
- PostgreSQL executes a statement atomically (READ COMMITTED, one row each). Which of several violated constraints it
  reports is left open.
- A failing statement or connection (`DbFaults`) covers a cancelled context;
  it may strike before the statement or after it took effect. A statement may also never
  end; one that hangs after its commit leaves what a lost acknowledgement leaves.
- A failing Redis (`RedisFaults`): a GET fails (a miss), a pipeline applies any
  subset of its remaining commands and reports an error.
- Redis outlives the process, so it is warm at start: any subset of the stored
  users' keys. Stale entries that earlier runs of the process left are not put there but
  arise within a run, where a crash ends the requests in flight and others follow.
- In `Lifecycle` PostgreSQL and Redis work as long as their connection is open
  (what happens otherwise is `UserService`'s subject); a request whose
  connection a server has accepted counts as taken on. So does an RPC that arrives on an open
  connection between `GracefulStop` and its last GOAWAY: grpc may still admit it, and then waits for it. An error of a server matters only
  while `main` reads errChan; a signal before `signal.Notify` is a kill.
  A token comes every 1/rps seconds; `refills` is the clock.
- Input the handlers reject with 400 reaches no state and is left out. A request
  can name an id only once its user is stored.
- In `UserListing` a user has a creation time (a column without ties) and a country
  (a column with ties); a filter value is the set of column values it is ILIKE to, and
  whether PostgreSQL takes it for text (no zero byte, valid UTF-8). `CreateUser` reads the clock before it
  looks for conflicts and INSERTs, so an `Insert` may have any time that no user has yet: it is *late* if a
  user who was there when the walk began has a later one. That no two users share a creation time is an assumption:
  PostgreSQL keeps microseconds, and nothing in the code makes them differ.
  One listing client suffices, since listings change nothing. An `int` is
  twice as wide as an `int32`, whose largest value is `MaxInt32`, as in Go on 64-bit machines.

Definitions with a comment "(Mutation: ...)" are plausible bugs, not code: each
property has one, named in `PROJECT.json`, with which TLC finds it violated.

## 3. Model checking

All runs disable TLC's deadlock check: the set of requests is finite, so a model
really stops when all are served, or when the process has exited. Where `main` may wait for ever is `MainMovesOn`.

| Run | Configuration | Shows |
|---|---|---|
| `repository_faults` | 2 concurrent calls, all faults, crashes, fair expiry | `TypeOK`, `CacheHoldsCommittedRows`, `ReadsReturnCommittedRows`, `UniqueIdentity`, `NotFoundIsTrue`, `ConflictWritesNothing`, `NoResurrection`, `EventuallyCoherent` |
| `repository_sequential` | one call at a time, no faults | `CoherentAtRest`, and `ImplementsRepository`: the decorator refines `Repository` |
| `repository_stale` | 2 concurrent calls, no faults | *violated*: `CoherentAtRest` |
| `service_races` | 2 concurrent requests, failing publisher | `ServiceTypeOK`, `SuccessIsCommitted`, `RefusalWritesNothing`, `MissingIsGone`, `EventsTellTheTruth`, `OneDeletedEvent` |
| `service_faults` | one request at a time, all faults, crashes, fairness | the same truths under faults, and `OnlyPostgresHoldsRequests` |
| `service_sequential` | 3 requests one after the other, no faults | `EveryChangeIsAnnounced`, `OnlyProvidedFieldsChange`, `ReplyIsCurrent` |
| `service_password` | as above, 2 requests | *violated*: `UpdateKeepsPassword` |
| `service_lost_update` | 2 concurrent updates | *violated*: `OnlyProvidedFieldsChange` |
| `service_silent_change` | concurrent update and delete | *violated*: `EveryChangeIsAnnounced` |
| `listing` | a paging client, 2 writes by others, failing statements | `TypeOK`, `QuietWalkIsExact`, `AscendingWalkMissesNobody`, `ParametersAreSafe`, `DeepPagesAreEmpty`, `NextPageShowsUsers` |
| `lifecycle` | two REST calls, a health probe, an RPC; failing steps of the start, failing broker, signal, deadline, server errors, kill | `LifecycleTypeOK`, `StopLosesNoEvent`, `RateIsBounded`, `RpcsAreDrained`, `RestIsDrainedUntilItsDeadline` (refinements of `GracefulServer`) |
| `lifecycle_liveness` | the same with one REST call, fairness | `MainMovesOn` |

**Bounds.** Two ids, two emails and (where conflicts matter) two nicknames are
the least that let one user change keys and two users compete for one. Two
requests suffice for every race found or excluded above, since a property
relates at most two requests; a third actor's past is covered by the initial
states, which hold an optional stored user and *any* subset of its keys warm in
Redis. `MaxInFlight = 1` makes a run sequential. `CacheTTL = 0` (no expiry) is
used where expiry would only hide what is cached. In `UserListing`, `MaxRows =
3` creation times, any of them taken at the start, with pages of one and two users give walks of up to three pages,
with ties in the country, and users created before, between and after those of the start;
`MaxWrites = 2` lets one write fall between COUNT and SELECT and one between
pages; `MaxInt32 = 7`, hence ints of 8 bits, puts overflow within reach of the pages enumerated. In `Lifecycle` three
REST requests (two calls, one probe) are more than the bucket of two tokens lets
pass, with or without the one refill (`MaxRefills`), if tokens are not taken or
overflow; one can be overdue, one answered and one refused. One RPC is enough, as the
properties of the gRPC server speak of one RPC and `main`. REST calls are interchangeable (`CallSymmetry`);
`lifecycle_liveness`, where symmetry would be unsound, has one. The second rate, 0, is
what a setting that is no number means. `MaxAttempts` is the code's 20.

**Fairness.** Only what has a limit in the code is fair. `CachedRepository` assumes nothing but
`WF(Expire)`: Redis expires keys on its own, and `EventuallyCoherent` needs no request to go on.
In `UserService` every step of a request is fair except the statements (`AwaitsPostgres`): go-redis gives a command
up after its read and write timeouts, an asynchronous Kafka writer only buffers, the rest is computation. A
statement may hang for ever, as neither `postgres.go` nor a handler sets a deadline; that this is the only
thing that can hold a request, whatever fails, is `OnlyPostgresHoldsRequests`.
In `Lifecycle` the steps of the start that end by themselves are fair (`BoundedStep`: the configuration, the
exporter, and dialling Redis and the broker with a timeout). `sqlx.Connect` and `Ping` have no deadline,
`ReadPartitions` and `CreateTopics` use a connection without one, and so does `Brokers()` in the health check
at the end of the start: `main` may wait there for ever, and `MayWait` names these phases. The steps of a stop, its
10 s timer and the writer's goroutines, whose writes have a timeout, are fair. Handlers *are not*: nothing in the code
bounds a request, so that hanging handlers are part of the model. Nothing makes a
client send a request, a fault happen or fail to happen, or the process die.

**What the violations say** (each quoted in `PROJECT.json`, "findings"):

1. `repository_stale`: a lookup caches what it selected after another request
   updated or deleted the user and invalidated its keys. Redis then serves the
   old user, up to the time to live: at most an hour by default, for ever with `REDIS_CACHE_TTL=0`.
2. `service_password`: `UpdateUser` loads the user through the cache, whose JSON
   has no password; the full-row UPDATE then stores an empty hash. Two requests in sequence suffice (create, update).
3. `service_lost_update`: two updates of different fields; the later one
   writes back the other's old value.
4. `service_silent_change`: an update is stored, a delete comes before the
   re-read, the update is answered 404 and never announced.

Divergences met that no run checks: gRPC's `order_desc` has no default
(`proto/user/user.proto:68` says true; `grpc/handlers.go:165` passes false), and
a gRPC request without `order_by` is answered with an internal error (`ORDER BY  ASC`
is no SQL; excluded by name in `ParametersAreSafe`). So is a filter value with a zero byte or
invalid UTF-8: it is no 400, but reaches PostgreSQL, which rejects the COUNT. REST pages whose
offset overflows an int fail or show an earlier page; `DeepPagesAreEmpty` covers gRPC only, as the
code's REST pages do wrap around and no document says they do not. A walk in the default order, newest first,
may miss a user even if others only create some: one inserted between COUNT and
SELECT pushes the last counted user off the page. A walk in ascending order may do so if a creation is late:
it shifts the users behind it by one, so that one of them is shown twice, or the last is not shown. Hence the
hypothesis of `AscendingWalkMissesNobody`. The rate limit interceptor of gRPC is never
installed (`main.go:110`; readme.md:42 says "both REST and gRPC via interceptors"), so `Arrive` takes RPCs past the limiter.
HTTP requests are given 10 s to complete on shutdown, then their connections are closed
under them (readme.md:41: "allowing active requests to complete before shutting
down, preventing data loss or abrupt connection termination"); gRPC requests have unlimited time. What does hold is
`RpcsAreDrained`, `RestIsDrainedUntilItsDeadline` and `StopLosesNoEvent`, whose
first exception, the overdue requests, is exactly that gap: without `overdue` in
it, TLC finds a REST request that stores its change after the deadline and is cut off before its event is sent.
Its second exception, handlers that failed of their own, has nothing to do with the stop: it is the gap of
`service_silent_change` and of clients that hang up between the commit and the event.

## 4. Proofs

`CachedRepositoryProofs` proves, from the assumptions on constants stated in
`UserTable` and `CachedRepository` only (the initial tables are well-typed and
respect the constraints; `NoUser` is no row), for any sets of requests, ids, keys and rows and
any choice of faults:

| Theorem | Statement |
|---|---|
| `TypeCorrect` | `Spec => []TypeOK` |
| `CacheIsSound` | `Spec => []CacheHoldsCommittedRows` |
| `IdentityIsUnique` | `Spec => []UniqueIdentity` |
| `ReadsAreSound` | `Spec => []ReadsReturnCommittedRows` |

`TypeOK` is not inductive: that a pipeline writes under keys needs `row` to be a
row whenever the activation is in `set` or `del`. `TypeInv` adds `WellFormed`, which
says what an activation holds at each point. The data properties are proved
together from `DataInv`: the table respects its constraints and lies within
`committed`, the cache is sound, and every activation *carries* a stored row
where it will need one (`CarriesStored`): the row a pipeline is about to cache,
and the row a lookup will return. `CacheStep`, `CarryStep`, `CarryFinish` and
`CarryPipeline` say what the few kinds of effect do to these; `DataStep` then
has one case per action. `AcceptedRow` shows that an INSERT or UPDATE that
meets no conflict keeps identities unique.

`LifecycleProofs` proves, for any number of REST calls, probes and RPCs, any
rates and any number of refills (`LifecycleAssumption`):

| Theorem | Statement |
|---|---|
| `LifecycleTypeCorrect` | `Spec => []LifecycleTypeOK` |
| `OrderlyStopLosesNoEvent` | `Spec => []StopLosesNoEvent` |
| `GrpcDrains` | `Spec => RpcsAreDrained` (a refinement) |
| `HttpDrainsUntilItsDeadline` | `Spec => RestIsDrainedUntilItsDeadline` (a refinement) |

None of these is inductive: that a stop loses no event needs to know, back to the
moment of the stop, who may still run and what is still open. `LifecycleInv` says
it phase by phase: nothing is asked before the servers start (`NothingEarly`), a
stopped server stays stopped (`Stopped`), every connection is open until the
last server is stopped (`StillOpen`), a handler that runs after that is overdue (`Drained`),
the writer's buffer is empty once it is closed (`Flushed`), and the event of a stored
change is still to come, buffered, offered or excused by a failed handler or the deadline (`Announced`).
`HandlerSteps` says once what any step of a handler does, so that `InvStep` has
one case per action of `main` and one for all handlers. `StepShapes` sorts the
steps by what they do to servers and requests; with it the two refinements go
through the same ten kinds of steps.

`RateLimitProofs` adds `TheRateIsBounded` (`Spec => []RateIsBounded`). The property
bounds those that passed since *any* earlier refill, so it is inductive only together with an
account (`RateInv`): tokens in the bucket and requests passed since a refill never exceed the burst
plus the refills since. `RateShape` sorts the steps into the four kinds that matter to it.

`RepositoryHistoryProofs` proves, for the same instances as `CachedRepositoryProofs`:

| Theorem | Statement |
|---|---|
| `MissesAreTrue` | `Spec => []NotFoundIsTrue` |
| `RefusedWritesLeaveNoRow` | `Spec => []ConflictWritesNothing` |
| `TheDeletedStayDeleted` | `Spec => NoResurrection` (an action property) |

These relate a call to the past of the table. `HistoryInv` has, for every call, what
its point tells about `committed` and `users` (`Tells`), that an id yet to be inserted was
never stored (`Unborn`), and that one call at most has deleted a user (`OneDeleter`).
`StepEffect` reduces every step of a call to an INSERT, an UPDATE, a DELETE or none of them;
`TableEffect` says what that does to the table, for everybody else to rely on.

`UserServiceProofs` proves, for `ServiceSpec`:

| Theorem | Statement |
|---|---|
| `ServiceIsTypeCorrect` | `ServiceSpec => []ServiceTypeOK` |
| `SuccessIsReal` | `ServiceSpec => []SuccessIsCommitted` |
| `RefusedRequestsWriteNothing` | `ServiceSpec => []RefusalWritesNothing` |
| `MissingUsersAreGone` | `ServiceSpec => []MissingIsGone` |
| `EventsAreTrue` | `ServiceSpec => []EventsTellTheTruth` |
| `DeletionsAreAnnouncedOnce` | `ServiceSpec => []OneDeletedEvent` |

`ServiceInv` puts the repository's invariants under the service's: which call each point of a
method waits for and with which arguments (`Serves`), what the point tells of the table
(`Knows`), that an id drawn for a new user is known to its request alone (`ReservedIds`), that one
request at most has removed a user (`OneRemover`), and that an event repeats its request's reply
(`EventsRepeat`). A step is one of the service, with the repository standing still (`MoveKeeps`),
or one of the repository, whose effect is the one that `TableEffect` states.

`SequentialProofs` proves what holds when `Sequential`: requests come one at a time
(`MaxInFlight = 1`), no statement or command fails, and the process does not die. The numbers
of requests, users and keys remain arbitrary, and so does what expires and when.

| Theorem | Statement |
|---|---|
| `CacheIsCoherentAtRest` | `Spec => []CoherentAtRest` |
| `CachedRepositoryIsARepository` | `Spec => ImplementsRepository` (the refinement of `Repository`) |
| `ChangesAreAnnounced` | `ServiceSpec => []EveryChangeIsAnnounced` (with `~ PublishFaults`) |
| `UpdatesTouchGivenFieldsOnly` | `ServiceSpec => OnlyProvidedFieldsChange` (an action property) |
| `RepliesAreCurrent` | `ServiceSpec => ReplyIsCurrent` (an action property) |

The setting is needed: the runs `repository_stale`, `service_lost_update` and
`service_silent_change` violate three of these with two requests at a time. `SequentialInv` says that
the row a call has read is the one the table still holds (`UpToDate`) and that a document of
the cache either is that of the stored row under its key (`Filed`) or is on the list of keys
the running pipeline has yet to delete (`ToDelete`). `Outcomes` reduces a step of a call, without faults,
to seven outcomes; the invariant and the refinement have one case for each. For the service, `AloneInv` adds that
a lookup has found the row of the moment (`Current`), that a patched row still fits the stored one
(`Fits`), and that every change is announced or owed by the request under way (`Telling`).

`UserListingProofs` and `UserWalkProofs` prove, for every set of queries, any number of
users and writes, and any width of integers (`QueriesAssumption`,
`ListingBoundsAssumption`; twice the number of users must fit an `int`):

| Theorem | Statement |
|---|---|
| `ListingIsTypeCorrect` | `Spec => []TypeOK` |
| `OnlyKnownQueriesAreRejected` | `Spec => []ParametersAreSafe` |
| `NoGrpcPageWrapsAround` | `Spec => []DeepPagesAreEmpty` |
| `HasMoreKeepsItsPromise` | `Spec => []NextPageShowsUsers` |
| `QuietWalksAreExact` | `Spec => []QuietWalkIsExact` |
| `AscendingWalksMissNobody` | `Spec => []AscendingWalkMissesNobody` |

`ListingInv` adds `OnTheWay`: on a walk that only creations disturb, late or not, the users before the page are
fewer than those there now, so that the offset does not wrap around (`FittingInt`) and
the page is not empty (`SliceOfRows`). For what the pages add up to, `WalkInv` says that the client has seen the
rows of the first ranks (`Ranked`), as many as its pages hold. The rank of a row is how many rows
come no later than it. That the n-th row of every ordering has rank n (`OrderingsAreRanked`) is an
argument about cardinalities and needs no induction along the sequence. Ranks are counted among the users of
the beginning: in ascending order those keep the first ranks of the table whoever is created after
them (`LaterRowsKeepRanks`, `EarlierRowsComeFirst`), which is why that walk misses nobody, and why a late creation spoils it.

TLC has checked the inductive invariants `TypeInv`, `DataInv`, `HistoryInv`, `ServiceInv`,
`SequentialInv`, `AloneInv`, `RateInv`, `LifecycleInv`, `ListingInv` and `WalkInv` on the instances of the runs.

Only model-checked: the liveness properties `EventuallyCoherent`, `OnlyPostgresHoldsRequests` and `MainMovesOn`,
since fairness is beyond the prover.

## 5. Not modelled

- Spans and log lines, Swagger and the generated code: no effect on the state above.
- Reading the environment and the `.env` file. What `validateConfig` demands is the
  condition of the start; what it does not look at (the rate, `CacheTTL`) is a value of the models.
- Input that the handlers reject with 400: it reaches no state.
- The details of a health status, and that the pings share one context of 5 s.
- How kafka-go batches, balances and retries: an event is sent in one step, and
  may be sent twice by a retry. go-redis, pgx, net/http and grpc appear only as the steps the code relies on.
- A restart of the process within `Lifecycle`. What a dead process leaves behind
  is in Redis and PostgreSQL, and is `Crash` in `CachedRepository` and `UserService`.

## 6. Plan

Done, in this order: `UserTable`, `CachedRepository` with its runs and proofs,
`Repository` and the refinement, `UserService`, `UserListing`, `GracefulServer`
and `Lifecycle` with its proofs; then the proofs of the history properties, the rate,
the service, the listing, and of what holds when requests come one after the other.

Every safety invariant and action property of the runs that pass is now a theorem. Next:

1. Coherence without `Sequential`: that an entry of the cache that no longer agrees with the table was put
   there by a lookup which overlapped a change, the exact reach of the finding of `repository_stale`.
2. Update and delete with faults: that `EveryChangeIsAnnounced` fails only for requests that were answered
   with an error, lost, or whose event the publisher refused.
3. Walks with late creations and with ties: how many users such a walk can miss or repeat, by the number of
   creations that land behind it.
