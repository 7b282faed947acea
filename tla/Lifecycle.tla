----------------------------- MODULE Lifecycle -----------------------------
(***************************************************************************)
(* The process from cmd/server/main.go: it starts step by step, serves     *)
(* REST and gRPC requests side by side, and stops on a signal (REST with a *)
(* deadline, gRPC without, then the deferred closes, latest first) or dies *)
(* on the error of a server.  The events of changes wait in the buffer of  *)
(* the asynchronous Kafka writer.                                          *)
(*                                                                         *)
(* What a handler does to users and cache is UserService's subject; here   *)
(* it is a sequence of uses of the connections main opens and closes.      *)
(***************************************************************************)
EXTENDS Naturals, FiniteSets

CONSTANTS
    RestCalls, Probes,  \* requests to the REST API: for the service, for /healthz
    Rpcs,               \* requests to the gRPC API
    Limits,             \* the rate limits an environment may configure
    MaxRefills,         \* bound: how often the token bucket gains a token
    MaxAttempts,        \* createTopicIfNotExists tries so often (20)
    BrokerFaults        \* may the Kafka broker fail?

ASSUME LifecycleAssumption ==
    /\ RestCalls \cap Probes = {} /\ (RestCalls \cup Probes) \cap Rpcs = {}
    /\ Limits # {} /\ Limits \subseteq [rps : Nat, burst : Nat]
    /\ MaxRefills \in Nat
    /\ MaxAttempts \in Nat \ {0}
    /\ BrokerFaults \in BOOLEAN

VARIABLES
    phase,      \* what main is about to do or waits for
    exit,       \* how the process ended
    server,     \* server[s]: the goroutine that runs server s
    overdue,    \* the REST requests in flight when Shutdown timed out
    open,       \* the connections that are open
    limit,      \* cfg.Rate
    tokens,     \* in the bucket of the rate limiter
    refills,    \* tokens the bucket has gained or let overflow: the clock
    attempts,   \* to read the partitions of the topic
    req,        \* req[r]: request r and its handler
    buffer,     \* requests whose event the Kafka writer has yet to send
    offered     \* requests whose event the broker took or failed to take

mainVars    == <<phase, exit, server, overdue, open, attempts>>
limitVars   == <<limit, tokens, refills>>
kafkaVars   == <<buffer, offered>>
vars        == <<mainVars, limitVars, kafkaVars, req>>

RestRequests == RestCalls \cup Probes
Requests    == RestRequests \cup Rpcs
Servers     == {"http", "grpc"}
RequestsOf(s) == IF s = "http" THEN RestRequests ELSE Rpcs
ServerOf(r) == IF r \in RestRequests THEN "http" ELSE "grpc"
Connections == {"postgres", "redis", "kafka"}

Startup == {"config", "tracer", "postgres", "redis", "kafka", "topic", "health"}
Closing == {"close_kafka", "flush_kafka", "close_redis", "close_postgres", "close_tracer"}
Phases  == Startup \cup Closing \cup {"serving", "stop_http", "stop_grpc", "exited"}

\* Where a handler can be: at the rate limit, in the calls of a service
\* method, or in the three pings of the health check.
AfterStore == {"caching", "reloading", "recaching", "publishing"}
Handling   == AfterStore \cup {"accepted", "calling", "ping_postgres", "ping_redis", "ping_kafka"}

\* How it ends.  "failed": an error after the change was stored, or nobody is
\* there any more to be answered; "cut_off": main has closed a connection.
Answers == {"answered", "failed", "cut_off", "rejected", "healthy", "unhealthy"}

NotSent == [pc |-> "not_sent", stored |-> FALSE, healthy |-> TRUE, at |-> 0]

InFlight(s) == {r \in RequestsOf(s) : req[r].pc \in Handling}
Alive       == phase # "exited"

Init ==
    /\ phase = "config"
    /\ exit = "none"
    /\ server = [s \in Servers |-> "new"]
    /\ overdue = {}
    /\ open = {}
    /\ limit \in Limits
    /\ tokens = 0
    /\ refills = 0
    /\ attempts = 0
    /\ req = [r \in Requests |-> NotSent]
    /\ buffer = {} /\ offered = {}

-----------------------------------------------------------------------------
(* How main moves on and how the process ends *)

Move(from, to) ==
    /\ phase = from
    /\ phase' = to
    /\ UNCHANGED exit

\* The memory of the process is gone: os.Exit and a kill skip the deferred
\* calls and take the buffer with them.
Die(how) ==
    /\ phase' = "exited"
    /\ exit' = how
    /\ server' = [s \in Servers |-> "new"]
    /\ open' = {} /\ tokens' = 0 /\ attempts' = 0 /\ buffer' = {}
    /\ UNCHANGED <<overdue, limit, refills, offered, req>>

Exit1(from) == phase = from /\ Die("failed")

-----------------------------------------------------------------------------
(* Start *)

Required == {"DATABASE_URL", "REDIS_ADDR", "KAFKA_BROKERS"}
LogLevels == {"", "debug", "info", "warn", "error", "other"}

\* validateConfig looks at neither number of the rate limit: 0 is accepted.
\* The bucket starts full.
LoadConfig ==
    \E missing \in SUBSET Required, level \in LogLevels :
        IF missing # {} \/ level = "other"
        THEN Exit1("config")
        ELSE /\ Move("config", "tracer")
             /\ tokens' = limit.burst
             /\ UNCHANGED <<server, overdue, open, attempts, limit, refills, kafkaVars, req>>

\* A step of main that opens connection c, or exits if it cannot.
Connect(from, to, c) ==
    \/ /\ Move(from, to)
       /\ open' = open \cup c
       /\ UNCHANGED <<server, overdue, attempts, limitVars, kafkaVars, req>>
    \/ Exit1(from)

NewTracerProvider == Connect("tracer", "postgres", {})
NewConnection     == Connect("postgres", "redis", {"postgres"})
NewClient         == Connect("redis", "kafka", {"redis"})
DialBroker        == Connect("kafka", "topic", {})

\* Up to MaxAttempts reads of the partitions; the first that succeeds may show
\* that the topic has to be created, which may fail.
CreateTopicIfNotExists ==
    \/ /\ Move("topic", "topic")
       /\ attempts < MaxAttempts - 1
       /\ attempts' = attempts + 1
       /\ UNCHANGED <<server, overdue, open, limitVars, kafkaVars, req>>
    \/ /\ Move("topic", "health")
       /\ open' = open \cup {"kafka"}
       /\ attempts' = 0
       /\ UNCHANGED <<server, overdue, limitVars, kafkaVars, req>>
    \/ Exit1("topic")

\* The gate of the start.  main then launches the goroutines of the servers and
\* calls signal.Notify; a signal in between still kills the process (Kill).
InitialCheck == Connect("health", "serving", {})

StartStep ==
    \/ LoadConfig \/ NewTracerProvider \/ NewConnection \/ NewClient
    \/ DialBroker \/ CreateTopicIfNotExists \/ InitialCheck

-----------------------------------------------------------------------------
(* The goroutines of the servers *)

SetServer(s, to) ==
    /\ server' = [server EXCEPT ![s] = to]
    /\ UNCHANGED <<phase, exit, overdue, open, attempts, limitVars, kafkaVars, req>>

Launched == Alive /\ phase \notin Startup

\* (Mutation: the goroutine does not see that the server was stopped before.)
StartEvenIfStopped(s) ==
    /\ Launched
    /\ server[s] \in {"new", "stopped"}
    /\ SetServer(s, "serving")

\* The goroutine listens and serves, unless Stop came first: then http and
\* grpc refuse to start.
Start(s) ==
    /\ Launched
    /\ server[s] = "new"
    /\ SetServer(s, "serving")

\* The port is taken, or accepting connections fails: an error in errChan,
\* which main reads until it begins to stop.
Fail(s) ==
    /\ phase = "serving"
    /\ server[s] \in {"new", "serving"}
    /\ SetServer(s, "failed")

-----------------------------------------------------------------------------
(* Stop *)

\* main's select takes an error or a signal; with both there, either.
ServerError ==
    /\ \E s \in Servers : server[s] = "failed"
    /\ Exit1("serving")

Kill == Alive /\ Die("killed")

\* main calls a server's Stop, which ends its listener.
BeginStop(s, from, to) ==
    /\ Move(from, to)
    /\ server' = [server EXCEPT ![s] = "stopped"]
    /\ UNCHANGED <<overdue, open, attempts, limitVars, kafkaVars, req>>

\* Once main stops, nobody reads further signals.
Signal == BeginStop("http", "serving", "stop_http")

\* (Mutation: the 10 seconds are not passed to Shutdown.)
NoDeadline == phase = "stop_http" /\ FALSE /\ UNCHANGED vars

\* The 10 seconds of Stop end while Shutdown waits for handlers.
DeadlineStrikes ==
    /\ phase = "stop_http"
    /\ overdue = {}
    /\ overdue' = InFlight("http")
    /\ overdue' # {}
    /\ UNCHANGED <<phase, exit, server, open, attempts, limitVars, kafkaVars, req>>

\* Shutdown returns when no handler is left or its context is done; main logs
\* the error and goes on to stop gRPC either way.
HttpStopped ==
    /\ InFlight("http") \subseteq overdue
    /\ BeginStop("grpc", "stop_http", "stop_grpc")

\* (Mutation: grpc's Stop instead of GracefulStop.)
StopGrpcAtOnce ==
    /\ Move("stop_grpc", "close_kafka")
    /\ UNCHANGED <<server, overdue, open, attempts, limitVars, kafkaVars, req>>

\* GracefulStop waits for every handler, whatever it takes; main returns.
GrpcStopped ==
    /\ InFlight("grpc") = {}
    /\ Move("stop_grpc", "close_kafka")
    /\ UNCHANGED <<server, overdue, open, attempts, limitVars, kafkaVars, req>>

\* A deferred call of main closes connections.
Close(c, from, to) ==
    /\ Move(from, to)
    /\ open' = open \ c
    /\ UNCHANGED <<server, overdue, attempts, limitVars, kafkaVars, req>>

\* Close of the Kafka writer refuses further messages, then waits for the
\* buffered ones.
CloseWriter   == Close({"kafka"}, "close_kafka", "flush_kafka")
\* (Mutation: Close drops what is buffered.)
DropBuffer    == Close({}, "flush_kafka", "close_redis")
WriterClosed  == buffer = {} /\ Close({}, "flush_kafka", "close_redis")
CloseRedis    == Close({"redis"}, "close_redis", "close_postgres")
ClosePostgres == Close({"postgres"}, "close_postgres", "close_tracer")

\* The last deferred call, and main returns.
ShutdownTracer ==
    /\ phase = "close_tracer"
    /\ Die("ok")

StopStep ==
    \/ ServerError \/ HttpStopped \/ GrpcStopped \/ CloseWriter
    \/ WriterClosed \/ CloseRedis \/ ClosePostgres \/ ShutdownTracer

-----------------------------------------------------------------------------
(* Requests *)

SetRequest(r, new) ==
    /\ req' = [req EXCEPT ![r] = new]
    /\ UNCHANGED mainVars

GoOn(r, to) == SetRequest(r, [req[r] EXCEPT !.pc = to])

\* The handler replies; what is left of the request is what it has done.
Answer(r, a) == SetRequest(r, [NotSent EXCEPT !.pc = a, !.stored = req[r].stored,
                                              !.at = req[r].at])

At(r, point) == Alive /\ req[r].pc = point

\* A server takes on a request.
Arrive(r) ==
    /\ Alive
    /\ server[ServerOf(r)] = "serving"
    /\ req[r].pc = "not_sent"
    /\ GoOn(r, IF r \in RestRequests THEN "accepted" ELSE "calling")
    /\ UNCHANGED <<limitVars, kafkaVars>>

\* The routes of REST: the health check or a call of the service.
Dispatch(r) ==
    SetRequest(r, [req[r] EXCEPT !.pc = IF r \in Probes THEN "ping_postgres" ELSE "calling",
                                 !.at = refills])

\* (Mutation: the bucket is looked at, but no token is taken.)
AllowWithoutTaking(r) ==
    /\ At(r, "accepted")
    /\ IF tokens >= 1 THEN Dispatch(r) ELSE Answer(r, "rejected")
    /\ UNCHANGED <<limitVars, kafkaVars>>

\* middleware.RateLimit: every REST route costs a token, /healthz as well.
RateLimit(r) ==
    /\ At(r, "accepted")
    /\ \/ /\ tokens >= 1
          /\ tokens' = tokens - 1
          /\ Dispatch(r)
       \/ /\ tokens = 0
          /\ Answer(r, "rejected")
          /\ UNCHANGED tokens
    /\ UNCHANGED <<limit, refills, kafkaVars>>

\* (Mutation: the bucket has no brim.)
RefillWithoutBurst ==
    /\ Launched /\ limit.rps > 0 /\ refills < MaxRefills
    /\ refills' = refills + 1
    /\ tokens' = tokens + 1
    /\ UNCHANGED <<mainVars, limit, kafkaVars, req>>

\* A token every 1/rps seconds, up to the burst.
Refill ==
    /\ Launched /\ limit.rps > 0 /\ refills < MaxRefills
    /\ refills' = refills + 1
    /\ tokens' = IF tokens < limit.burst THEN tokens + 1 ELSE tokens
    /\ UNCHANGED <<mainVars, limit, kafkaVars, req>>

\* A call of the service up to the statement that changes users.  It may end
\* before that: a lookup or listing, a refusal, an error of a closed
\* connection.  (CreateUser takes errors of its lookups for "not taken".)  The
\* statement may take effect and yet fail, when the client hangs up meanwhile.
Call(r) ==
    /\ At(r, "calling")
    /\ \/ Answer(r, "answered")
       \/ /\ "postgres" \in open
          /\ \E to \in {"caching", "failed"} :
                SetRequest(r, [req[r] EXCEPT !.pc = to, !.stored = TRUE])
    /\ UNCHANGED <<limitVars, kafkaVars>>

\* One use of connection c after the change is stored.  A client that hangs up
\* cancels the context of its request, which fails whatever the handler waits for.
Use(r, point, c, next) ==
    /\ At(r, point)
    /\ \/ c \in open /\ \E to \in next : GoOn(r, to)
       \/ c \notin open /\ Answer(r, "cut_off")
       \/ Answer(r, "failed")
    /\ UNCHANGED <<limitVars, kafkaVars>>

\* Create fills the cache, Delete and Update invalidate it.  Update then reads
\* the row again, which fails as well if the user was deleted meanwhile, and
\* caches it.
CacheUser(r)   == Use(r, "caching", "redis", {"publishing", "reloading"})
ReloadUser(r)  == Use(r, "reloading", "postgres", {"recaching"})
RecacheUser(r) == Use(r, "recaching", "redis", {"publishing"})

\* An asynchronous WriteMessages: the event is in the buffer, or the writer is
\* closed, or it cannot look up the partitions.  The reply is the same.  With
\* the context cancelled nothing need be buffered.
Publish(r) ==
    /\ At(r, "publishing")
    /\ \/ "kafka" \in open /\ Answer(r, "answered")
          /\ \/ buffer' = buffer \cup {r} /\ UNCHANGED offered
             \/ BrokerFaults /\ offered' = offered \cup {r} /\ UNCHANGED buffer
       \/ "kafka" \notin open /\ Answer(r, "answered") /\ UNCHANGED kafkaVars
       \/ Answer(r, "failed") /\ UNCHANGED kafkaVars
    /\ UNCHANGED limitVars

\* Check: one ping after the other; a failed one does not end the check.  The
\* last dials the broker itself, not the writer.
Ping(r, point, ok, next) ==
    /\ At(r, point)
    /\ SetRequest(r, [req[r] EXCEPT !.pc = next, !.healthy = @ /\ ok])
    /\ UNCHANGED <<limitVars, kafkaVars>>

PingBroker(r) ==
    /\ At(r, "ping_kafka")
    /\ \E ok \in {TRUE} \cup {~ BrokerFaults} :
           Answer(r, IF req[r].healthy /\ ok THEN "healthy" ELSE "unhealthy")
    /\ UNCHANGED <<limitVars, kafkaVars>>

Check(r) ==
    \/ Ping(r, "ping_postgres", "postgres" \in open, "ping_redis")
    \/ Ping(r, "ping_redis", "redis" \in open, "ping_kafka")
    \/ PingBroker(r)

Handler(r) ==
    \/ RateLimit(r) \/ Call(r) \/ Check(r)
    \/ CacheUser(r) \/ ReloadUser(r) \/ RecacheUser(r) \/ Publish(r)

\* The goroutines of the writer send a message.  The broker acknowledges it, or
\* it fails after its retries, of which nobody is told.
Deliver(r) ==
    /\ Alive
    /\ r \in buffer
    /\ buffer' = buffer \ {r}
    /\ offered' = offered \cup {r}
    /\ UNCHANGED <<mainVars, limitVars, req>>

-----------------------------------------------------------------------------

Next ==
    \/ StartStep \/ StopStep \/ Signal \/ Kill \/ DeadlineStrikes \/ Refill
    \/ \E s \in Servers : Start(s) \/ Fail(s)
    \/ \E r \in Requests : Arrive(r) \/ Handler(r) \/ Deliver(r)

Spec == Init /\ [][Next]_vars

\* The steps of the start that end by themselves: the exporter is created
\* without waiting for its connection, and both Redis and the broker are dialled
\* with a timeout.  The others wait as long as their peer likes: sqlx.Connect
\* and Ping, ReadPartitions and CreateTopics, and Brokers in the health check.
BoundedStep == LoadConfig \/ NewTracerProvider \/ NewClient \/ DialBroker

\* main runs on, its timer fires and the writer's goroutines work.  Handlers
\* may hang: nothing bounds the time of a request.
Fairness ==
    /\ WF_vars(BoundedStep) /\ WF_vars(StopStep) /\ WF_vars(DeadlineStrikes)
    /\ \A r \in Requests : WF_vars(Deliver(r))

FairSpec == Spec /\ Fairness

-----------------------------------------------------------------------------
(* Properties *)

\* Types, and: a process that ended says how.
LifecycleTypeOK ==
    /\ phase \in Phases
    /\ exit \in {"none", "ok", "failed", "killed"} /\ (exit = "none" <=> Alive)
    /\ server \in [Servers -> {"new", "serving", "failed", "stopped"}]
    /\ overdue \subseteq RestRequests
    /\ open \subseteq Connections
    /\ limit \in Limits /\ tokens \in 0 .. limit.burst /\ refills \in 0 .. MaxRefills
    /\ attempts \in 0 .. MaxAttempts - 1
    /\ req \in [Requests -> [pc : Handling \cup Answers \cup {"not_sent"},
                             stored : BOOLEAN, healthy : BOOLEAN, at : 0 .. MaxRefills]]
    /\ buffer \subseteq Requests /\ offered \subseteq Requests

\* The states of the two servers in the terms of GracefulServer.  A server is
\* released when main stops waiting for it.
Stage(s, released) ==
    IF ~ Alive THEN "dead"
    ELSE IF phase \in released THEN "released"
    ELSE IF server[s] \in {"stopped", "failed"} THEN "draining"
    ELSE IF server[s] = "serving" THEN "accepting" ELSE "new"

RpcServer  == INSTANCE GracefulServer WITH
    Requests <- Rpcs,
    stage <- Stage("grpc", Closing),
    active <- IF Alive THEN InFlight("grpc") ELSE {},
    overdue <- {}
RestServer == INSTANCE GracefulServer WITH
    Requests <- RestRequests,
    stage <- Stage("http", Closing \cup {"stop_grpc"}),
    active <- IF Alive THEN InFlight("http") ELSE {},
    overdue <- overdue

\* A stop of the process ends no RPC: gRPC takes on no RPC after GracefulStop,
\* and main closes the connections only when the last one is answered.
RpcsAreDrained == RpcServer!Spec

\* REST keeps the same promise, but for the requests that were in flight when
\* the 10 seconds of Shutdown ended.
RestIsDrainedUntilItsDeadline == RestServer!Spec

\* A process that ends by a signal has offered the event of every stored change
\* to the broker: no connection is closed under a handler, and Close flushes the
\* writer after the last one.  Excepted are changes of overdue REST requests, and
\* those whose handler failed for a reason of its own (the client hung up, the
\* row was deleted under it): UserService has what these cost.
StopLosesNoEvent ==
    exit = "ok" => \A r \in Requests :
        req[r].stored /\ req[r].pc # "failed" => r \in offered \cup overdue

\* In any period the limiter lets pass at most the burst and the tokens that
\* came in during it, whatever the requests and however long it was quiet before.
RateIsBounded ==
    \A i \in 0 .. refills : \A j \in i .. refills :
        Cardinality({r \in RestRequests :
            /\ req[r].pc \notin {"not_sent", "accepted", "rejected"}
            /\ req[r].at \in i .. j}) <= limit.burst + (j - i)

\* The only things main waits for without a limit are PostgreSQL and the broker
\* when it starts, a signal or error while it serves with both servers intact,
\* and the answers of RPCs when it stops.  So a broken server ends the process,
\* hanging REST handlers or a failing broker do not keep a stop from ending, and
\* a hanging RPC does.
MayWait ==
    \/ ~ Alive
    \/ phase \in {"postgres", "topic", "health"}
    \/ phase = "serving" /\ \A s \in Servers : server[s] # "failed"
    \/ phase = "stop_grpc" /\ InFlight("grpc") # {}

MainMovesOn == []<>MayWait
=============================================================================
