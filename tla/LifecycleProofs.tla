-------------------------- MODULE LifecycleProofs --------------------------
(***************************************************************************)
(* Theorems about Lifecycle, for any number of REST calls, probes and RPCs,*)
(* any rates and any faults of the broker.                                 *)
(***************************************************************************)
EXTENDS Lifecycle, TLAPS

-----------------------------------------------------------------------------
(* What one step of a handler does *)

\* What is kept of a request.
RequestState == [pc : Handling \cup Answers \cup {"not_sent"},
                 stored : BOOLEAN, healthy : BOOLEAN, at : 0 .. MaxRefills]

\* An answered request keeps what it has stored and when it passed the limiter.
LEMMA AnswerEffect ==
    ASSUME LifecycleTypeOK, NEW r \in Requests, NEW a \in Answers, Answer(r, a)
    PROVE  \E new \in RequestState :
               /\ req' = [req EXCEPT ![r] = new] /\ UNCHANGED mainVars
               /\ new.pc = a /\ new.stored = req[r].stored /\ new.at = req[r].at
<1> DEFINE b == [NotSent EXCEPT !.pc = a]
           c == [b EXCEPT !.stored = req[r].stored]
           new == [c EXCEPT !.at = req[r].at]
<1>1. req[r] \in RequestState
  BY DEF LifecycleTypeOK, RequestState
<1>2. req' = [req EXCEPT ![r] = new] /\ UNCHANGED mainVars
  BY DEF Answer, SetRequest
<1>3. NotSent \in RequestState
  BY LifecycleAssumption DEF NotSent, RequestState
<1>4. b \in RequestState /\ b.pc = a
  BY <1>3 DEF RequestState
<1> HIDE DEF b
<1>5. c \in RequestState /\ c.pc = a /\ c.stored = req[r].stored
  BY <1>1, <1>4 DEF RequestState
<1> HIDE DEF c
<1>6. new \in RequestState /\ new.pc = a /\ new.stored = req[r].stored /\ new.at = req[r].at
  BY <1>1, <1>5 DEF RequestState
<1> HIDE DEF new
<1> QED
  BY <1>2, <1>6

\* So does one that goes on to another point.
LEMMA GoOnEffect ==
    ASSUME LifecycleTypeOK, NEW r \in Requests, NEW p \in Handling, GoOn(r, p)
    PROVE  \E new \in RequestState :
               /\ req' = [req EXCEPT ![r] = new] /\ UNCHANGED mainVars
               /\ new.pc = p /\ new.stored = req[r].stored /\ new.at = req[r].at
<1> DEFINE new == [req[r] EXCEPT !.pc = p]
<1>1. req[r] \in RequestState
  BY DEF LifecycleTypeOK, RequestState
<1>2. new \in RequestState /\ new.pc = p /\ new.stored = req[r].stored /\ new.at = req[r].at
  BY <1>1 DEF RequestState
<1>3. req' = [req EXCEPT ![r] = new] /\ UNCHANGED mainVars
  BY DEF GoOn, SetRequest
<1> HIDE DEF new
<1> QED
  BY <1>2, <1>3

\* A step of a handler moves its own request only, takes at most a token, and
\* adds at most its own event.  It leaves the part of a handler that follows a
\* stored change with the event in the buffer or offered, because a connection
\* is closed, or with an error of its own.
HandlerEffect(r) ==
    /\ Alive /\ req[r].pc \in Handling
    /\ UNCHANGED <<mainVars, limit, refills>>
    /\ tokens' \in 0 .. limit.burst
    /\ \/ buffer' = buffer
       \/ "kafka" \in open /\ buffer' = buffer \cup {r}
    /\ offered' \in {offered, offered \cup {r}}
    /\ \E new \in RequestState :
          /\ req' = [req EXCEPT ![r] = new]
          /\ new.pc # "not_sent"
          /\ new.stored =>
                \/ new.pc \in AfterStore \cup {"failed"}
                \/ req[r].stored /\ req[r].pc \notin AfterStore \cup {"failed"}
                \/ ~ Connections \subseteq open
                \/ r \in buffer' \cup offered'

\* A step of a handler does nothing but that.
LEMMA HandlerSteps ==
    ASSUME LifecycleTypeOK, NEW r \in Requests, Handler(r)
    PROVE  HandlerEffect(r)
<1>1. /\ req[r] \in RequestState /\ limit \in [rps : Nat, burst : Nat]
      /\ tokens \in 0 .. limit.burst /\ refills \in 0 .. MaxRefills
  BY LifecycleAssumption DEF LifecycleTypeOK, RequestState
<1>2. CASE RateLimit(r)
  <2>1. /\ Alive /\ req[r].pc = "accepted" /\ tokens' \in 0 .. limit.burst
        /\ UNCHANGED <<limit, refills, kafkaVars>>
    BY <1>1, <1>2 DEF RateLimit, At
  <2>2. CASE Dispatch(r)
    <3> DEFINE p == IF r \in Probes THEN "ping_postgres" ELSE "calling"
               b == [req[r] EXCEPT !.pc = p]
               new == [b EXCEPT !.at = refills]
    <3>1. b \in RequestState /\ b.pc = p /\ b.stored = req[r].stored
      BY <1>1 DEF RequestState, Handling, AfterStore
    <3>2. req' = [req EXCEPT ![r] = new] /\ UNCHANGED mainVars
      BY <1>1, <2>2 DEF Dispatch, SetRequest, RequestState
    <3> HIDE DEF b
    <3>3. new \in RequestState /\ new.pc = p /\ new.stored = req[r].stored
      BY <1>1, <3>1 DEF RequestState
    <3> HIDE DEF new
    <3> QED
      BY <2>1, <3>2, <3>3 DEF HandlerEffect, Handling, AfterStore, kafkaVars
  <2>3. CASE Answer(r, "rejected")
    BY <2>1, <2>3, AnswerEffect DEF HandlerEffect, Handling, AfterStore, kafkaVars, Answers
  <2> QED
    BY <1>2, <2>2, <2>3 DEF RateLimit
<1>3. CASE Call(r)
  <2>1. /\ Alive /\ req[r].pc = "calling" /\ tokens' \in 0 .. limit.burst
        /\ UNCHANGED <<limit, refills, kafkaVars>>
    BY <1>1, <1>3 DEF Call, At, limitVars
  <2>2. CASE Answer(r, "answered")
    BY <2>1, <2>2, AnswerEffect DEF HandlerEffect, Handling, AfterStore, kafkaVars, Answers
  <2>3. ASSUME NEW to \in {"caching", "failed"},
               SetRequest(r, [req[r] EXCEPT !.pc = to, !.stored = TRUE])
        PROVE  HandlerEffect(r)
    <3> DEFINE b == [req[r] EXCEPT !.pc = to]
               new == [b EXCEPT !.stored = TRUE]
    <3>1. b \in RequestState /\ b.pc = to
      BY <1>1 DEF RequestState, Handling, AfterStore, Answers
    <3>2. req' = [req EXCEPT ![r] = new] /\ UNCHANGED mainVars
      BY <1>1, <2>3 DEF SetRequest, RequestState
    <3> HIDE DEF b
    <3>3. new \in RequestState /\ new.pc = to
      BY <3>1 DEF RequestState
    <3> HIDE DEF new
    <3> QED
      BY <2>1, <3>2, <3>3 DEF HandlerEffect, Handling, AfterStore, kafkaVars
  <2> QED
    BY <1>3, <2>2, <2>3 DEF Call
<1>4. ASSUME NEW p \in AfterStore, NEW c \in Connections, NEW next \in SUBSET AfterStore,
             Use(r, p, c, next)
      PROVE  HandlerEffect(r)
  <2>1. /\ Alive /\ req[r].pc \in Handling /\ tokens' \in 0 .. limit.burst
        /\ UNCHANGED <<limit, refills, kafkaVars>>
    BY <1>1, <1>4 DEF Use, At, limitVars, Handling, AfterStore
  <2>2. ASSUME NEW to \in next, GoOn(r, to) PROVE HandlerEffect(r)
    <3>1. to \in AfterStore /\ to \in Handling
      BY DEF Handling, AfterStore
    <3>2. to # "not_sent"
      BY <3>1 DEF AfterStore
    <3> QED
      BY <2>1, <2>2, <3>1, <3>2, GoOnEffect DEF HandlerEffect, kafkaVars
  <2>3. CASE c \notin open /\ Answer(r, "cut_off")
    BY <2>1, <2>3, AnswerEffect DEF HandlerEffect, kafkaVars, Answers
  <2>4. CASE Answer(r, "failed")
    BY <2>1, <2>4, AnswerEffect DEF HandlerEffect, kafkaVars, Answers
  <2> QED
    BY <1>4, <2>2, <2>3, <2>4 DEF Use
<1>5. CASE Publish(r)
  <2>1. /\ Alive /\ req[r].pc = "publishing"
        /\ tokens' \in 0 .. limit.burst /\ UNCHANGED <<limit, refills>>
    BY <1>1, <1>5 DEF Publish, At, limitVars
  <2>2. CASE /\ Answer(r, "answered")
             /\ \/ "kafka" \in open /\ buffer' = buffer \cup {r} /\ offered' = offered
                \/ "kafka" \notin open /\ buffer' = buffer /\ offered' = offered
                \/ offered' = offered \cup {r} /\ buffer' = buffer
    BY <2>1, <2>2, AnswerEffect DEF HandlerEffect, Handling, AfterStore, Answers, Connections
  <2>3. CASE Answer(r, "failed") /\ UNCHANGED kafkaVars
    BY <2>1, <2>3, AnswerEffect DEF HandlerEffect, Handling, AfterStore, Answers, kafkaVars
  <2> QED
    BY <1>5, <2>2, <2>3 DEF Publish, kafkaVars
<1>6. CASE Check(r)
  <2>1. /\ Alive /\ req[r].pc \in {"ping_postgres", "ping_redis", "ping_kafka"}
        /\ tokens' \in 0 .. limit.burst /\ UNCHANGED <<limit, refills, kafkaVars>>
    BY <1>1, <1>6 DEF Check, Ping, PingBroker, At, limitVars
  <2>2. ASSUME NEW p \in Handling, NEW q \in Handling, NEW ok \in BOOLEAN, Ping(r, p, ok, q)
        PROVE  HandlerEffect(r)
    <3> DEFINE b == [req[r] EXCEPT !.pc = q]
               new == [b EXCEPT !.healthy = @ /\ ok]
    <3>1. b \in RequestState /\ b.pc = q /\ b.stored = req[r].stored
      BY <1>1 DEF RequestState
    <3>2. req' = [req EXCEPT ![r] = new] /\ UNCHANGED mainVars
      BY <1>1, <2>2 DEF Ping, SetRequest, RequestState
    <3> HIDE DEF b
    <3>3. (b.healthy /\ ok) \in BOOLEAN
      OBVIOUS
    <3>4. new \in RequestState /\ new.pc = q /\ new.stored = req[r].stored
      BY <3>1, <3>3 DEF RequestState
    <3> HIDE DEF new
    <3> QED
      BY <2>1, <3>2, <3>4 DEF HandlerEffect, Handling, AfterStore, kafkaVars
  <2>3. CASE PingBroker(r)
    <3>1. PICK a \in {"healthy", "unhealthy"} : Answer(r, a)
      BY <2>3 DEF PingBroker
    <3> QED
      BY <2>1, <3>1, AnswerEffect DEF HandlerEffect, Handling, AfterStore, kafkaVars, Answers
  <2>4. \/ Ping(r, "ping_postgres", "postgres" \in open, "ping_redis")
        \/ Ping(r, "ping_redis", "redis" \in open, "ping_kafka")
        \/ PingBroker(r)
    BY <1>6 DEF Check
  <2>5. ("postgres" \in open) \in BOOLEAN /\ ("redis" \in open) \in BOOLEAN
    OBVIOUS
  <2> QED
    BY <2>2, <2>3, <2>4, <2>5 DEF Handling, AfterStore
<1>7. CASE CacheUser(r) \/ ReloadUser(r) \/ RecacheUser(r)
  BY <1>4, <1>7 DEF CacheUser, ReloadUser, RecacheUser, AfterStore, Connections
<1> QED
  BY <1>2, <1>3, <1>5, <1>6, <1>7 DEF Handler

-----------------------------------------------------------------------------
(* Type correctness *)

\* The process starts with every variable of its type.
LEMMA TypeInit == Init => LifecycleTypeOK
  BY LifecycleAssumption
  DEF Init, LifecycleTypeOK, Phases, Startup, Alive, NotSent

\* A step of main from a phase that is not the last.
LEMMA MoveTypes ==
    ASSUME LifecycleTypeOK, NEW from \in Phases \ {"exited"}, NEW to \in Phases \ {"exited"},
           Move(from, to)
    PROVE  /\ phase' \in Phases
           /\ exit' \in {"none", "ok", "failed", "killed"} /\ (exit' = "none" <=> Alive')
  BY DEF LifecycleTypeOK, Move, Alive

\* The end of the process.
LEMMA DieTypes ==
    ASSUME LifecycleTypeOK, NEW how \in {"ok", "failed", "killed"}, Die(how)
    PROVE  LifecycleTypeOK'
  BY LifecycleAssumption DEF LifecycleTypeOK, Die, Phases, Alive

\* A step that leaves limiter, requests and events alone.
LEMMA MainTypes ==
    ASSUME LifecycleTypeOK, UNCHANGED <<limitVars, kafkaVars, req>>,
           phase' \in Phases,
           exit' \in {"none", "ok", "failed", "killed"}, exit' = "none" <=> Alive',
           server' \in [Servers -> {"new", "serving", "failed", "stopped"}],
           overdue' \subseteq RestRequests, open' \subseteq Connections,
           attempts' \in 0 .. MaxAttempts - 1
    PROVE  LifecycleTypeOK'
  BY DEF LifecycleTypeOK, limitVars, kafkaVars

\* Connecting, or failing to, keeps the types.
LEMMA ConnectTypes ==
    ASSUME LifecycleTypeOK, NEW from \in Phases \ {"exited"}, NEW to \in Phases \ {"exited"},
           NEW c \in SUBSET Connections, Connect(from, to, c)
    PROVE  LifecycleTypeOK'
<1>1. CASE Exit1(from)
  BY <1>1, DieTypes DEF Exit1
<1>2. CASE /\ Move(from, to) /\ open' = open \cup c
           /\ UNCHANGED <<server, overdue, attempts, limitVars, kafkaVars, req>>
  BY <1>2, MoveTypes, MainTypes DEF LifecycleTypeOK
<1> QED
  BY <1>1, <1>2 DEF Connect

\* So does closing a connection.
LEMMA CloseTypes ==
    ASSUME LifecycleTypeOK, NEW from \in Phases \ {"exited"}, NEW to \in Phases \ {"exited"},
           NEW c, Close(c, from, to)
    PROVE  LifecycleTypeOK'
  BY MoveTypes, MainTypes DEF LifecycleTypeOK, Close

\* So does telling a server to stop.
LEMMA BeginStopTypes ==
    ASSUME LifecycleTypeOK, NEW from \in Phases \ {"exited"}, NEW to \in Phases \ {"exited"},
           NEW s \in Servers, BeginStop(s, from, to)
    PROVE  LifecycleTypeOK'
  BY MoveTypes, MainTypes DEF LifecycleTypeOK, BeginStop

\* So does a server that starts, fails or ends.
LEMMA SetServerTypes ==
    ASSUME LifecycleTypeOK, NEW s \in Servers,
           NEW to \in {"new", "serving", "failed", "stopped"}, SetServer(s, to)
    PROVE  LifecycleTypeOK'
  BY MainTypes DEF LifecycleTypeOK, SetServer, Alive

\* Every step of main, the servers and the handlers keeps the types.
LEMMA TypeStep == LifecycleTypeOK /\ [Next]_vars => LifecycleTypeOK'
<1> SUFFICES ASSUME LifecycleTypeOK, [Next]_vars PROVE LifecycleTypeOK'
  OBVIOUS
<1>1. /\ limit \in [rps : Nat, burst : Nat] /\ tokens \in 0 .. limit.burst
      /\ refills \in Nat /\ attempts \in Nat
  BY LifecycleAssumption DEF LifecycleTypeOK
<1>2. Startup \cup Closing \cup {"serving", "stop_http", "stop_grpc"} \subseteq Phases \ {"exited"}
  BY DEF Phases, Startup, Closing
<1>3. CASE LoadConfig
  <2>1. CASE Exit1("config")
    BY <2>1, DieTypes DEF Exit1
  <2>2. CASE /\ Move("config", "tracer") /\ tokens' = limit.burst
             /\ UNCHANGED <<server, overdue, open, attempts, limit, refills, kafkaVars, req>>
    <3>1. tokens' \in 0 .. limit.burst
      BY <1>1, <2>2
    <3> QED
      BY <1>2, <2>2, <3>1, MoveTypes DEF LifecycleTypeOK, kafkaVars, Startup
  <2> QED
    BY <1>3, <2>1, <2>2 DEF LoadConfig
<1>4. CASE NewTracerProvider \/ NewConnection \/ NewClient \/ DialBroker \/ InitialCheck
  BY <1>2, <1>4, ConnectTypes
  DEF NewTracerProvider, NewConnection, NewClient, DialBroker, InitialCheck, Startup, Connections
<1>5. CASE CreateTopicIfNotExists
  <2>1. CASE Exit1("topic")
    BY <2>1, DieTypes DEF Exit1
  <2>2. CASE /\ Move("topic", "topic") /\ attempts < MaxAttempts - 1 /\ attempts' = attempts + 1
             /\ UNCHANGED <<server, overdue, open, limitVars, kafkaVars, req>>
    <3>1. attempts' \in 0 .. MaxAttempts - 1
      BY <1>1, <2>2, LifecycleAssumption
    <3> QED
      BY <1>2, <2>2, <3>1, MoveTypes, MainTypes DEF LifecycleTypeOK, Startup
  <2>3. CASE /\ Move("topic", "health") /\ open' = open \cup {"kafka"} /\ attempts' = 0
             /\ UNCHANGED <<server, overdue, limitVars, kafkaVars, req>>
    <3>1. attempts' \in 0 .. MaxAttempts - 1
      BY <2>3, LifecycleAssumption
    <3> QED
      BY <1>2, <2>3, <3>1, MoveTypes, MainTypes DEF LifecycleTypeOK, Startup, Connections
  <2> QED
    BY <1>5, <2>1, <2>2, <2>3 DEF CreateTopicIfNotExists
<1>6. CASE ServerError \/ Kill \/ ShutdownTracer
  BY <1>6, DieTypes DEF ServerError, Kill, ShutdownTracer, Exit1
<1>7. CASE Signal \/ HttpStopped
  BY <1>2, <1>7, BeginStopTypes DEF Signal, HttpStopped, Servers
<1>8. CASE GrpcStopped
  BY <1>2, <1>8, MoveTypes, MainTypes DEF LifecycleTypeOK, GrpcStopped, Closing
<1>9. CASE CloseWriter \/ WriterClosed \/ CloseRedis \/ ClosePostgres
  BY <1>2, <1>9, CloseTypes DEF CloseWriter, WriterClosed, CloseRedis, ClosePostgres, Closing
<1>10. CASE DeadlineStrikes
  <2>1. overdue' \subseteq RestRequests
    BY <1>10 DEF DeadlineStrikes, InFlight, RequestsOf
  <2> QED
    BY <1>10, <2>1, MainTypes DEF LifecycleTypeOK, DeadlineStrikes, Alive
<1>11. CASE Refill
  <2>1. refills' \in 0 .. MaxRefills /\ tokens' \in 0 .. limit.burst
    BY <1>1, <1>11, LifecycleAssumption DEF Refill
  <2> QED
    BY <1>11, <2>1 DEF LifecycleTypeOK, Refill, mainVars, kafkaVars, Alive
<1>12. ASSUME NEW s \in Servers, Start(s) \/ Fail(s) PROVE LifecycleTypeOK'
  BY <1>12, SetServerTypes DEF Start, Fail
<1>13. ASSUME NEW r \in Requests, Arrive(r) PROVE LifecycleTypeOK'
  <2>1. PICK p \in Handling : GoOn(r, p)
    BY <1>13 DEF Arrive, Handling, AfterStore
  <2>2. PICK new \in RequestState : req' = [req EXCEPT ![r] = new] /\ UNCHANGED mainVars
    BY <2>1, GoOnEffect
  <2> QED
    BY <1>13, <2>2
    DEF LifecycleTypeOK, Arrive, mainVars, limitVars, kafkaVars, Alive, RequestState
<1>14. ASSUME NEW r \in Requests, Handler(r) PROVE LifecycleTypeOK'
  <2>1. HandlerEffect(r)
    BY <1>14, HandlerSteps
  <2>2. PICK new \in RequestState : req' = [req EXCEPT ![r] = new]
    BY <2>1 DEF HandlerEffect
  <2>3. buffer' \subseteq Requests /\ offered' \subseteq Requests
    BY <2>1 DEF HandlerEffect, LifecycleTypeOK
  <2>4. UNCHANGED <<mainVars, limit, refills>> /\ tokens' \in 0 .. limit.burst
    BY <2>1 DEF HandlerEffect
  <2> QED
    BY <2>2, <2>3, <2>4 DEF LifecycleTypeOK, mainVars, Alive, RequestState
<1>15. ASSUME NEW r \in Requests, Deliver(r) PROVE LifecycleTypeOK'
  BY <1>15 DEF LifecycleTypeOK, Deliver, mainVars, limitVars, Alive
<1>16. CASE UNCHANGED vars
  BY <1>16 DEF LifecycleTypeOK, vars, mainVars, limitVars, kafkaVars, Alive
<1> QED
  BY <1>3, <1>4, <1>5, <1>6, <1>7, <1>8, <1>9, <1>10, <1>11, <1>12, <1>13, <1>14, <1>15, <1>16
  DEF Next, StartStep, StopStep

\* Every variable stays within its type, and exactly an ended process says how
\* it ended, whatever the requests, rates and faults.
THEOREM LifecycleTypeCorrect == Spec => []LifecycleTypeOK
  BY TypeInit, TypeStep, PTL DEF Spec

-----------------------------------------------------------------------------
(* The inductive invariant *)

\* Before the servers are launched nothing is asked, and from the stop of a
\* server on it takes on nothing.
NothingEarly ==
    phase \in Startup =>
        /\ \A s \in Servers : server[s] = "new"
        /\ buffer = {} /\ overdue = {}
        /\ \A r \in Requests : req[r] = NotSent

\* A server that main has stopped takes nothing on any more.
Stopped ==
    /\ phase \in Closing \cup {"stop_http", "stop_grpc"} => server["http"] = "stopped"
    /\ phase \in Closing \cup {"stop_grpc"} => server["grpc"] = "stopped"

\* Which connections are open: all while requests may rely on them.
StillOpen ==
    /\ phase \in {"serving", "stop_http", "stop_grpc", "close_kafka"} => open = Connections
    /\ phase = "health" => open = Connections
    /\ phase \in {"kafka", "topic"} => open = {"postgres", "redis"}
    /\ phase = "redis" => open = {"postgres"}
    /\ phase \in {"config", "tracer", "postgres"} => open = {}
    /\ phase \in Closing \ {"close_kafka"} => "kafka" \notin open

\* A handler that runs when main no longer waits for its server is overdue.
Drained ==
    \A r \in Requests : req[r].pc \in Handling =>
        /\ r \in RestRequests /\ phase \in Closing \cup {"stop_grpc"} => r \in overdue
        /\ r \in Rpcs => phase \notin Closing

\* Only overdue requests are left when main has returned.
Flushed == phase \in {"close_redis", "close_postgres", "close_tracer"} => buffer = {}

\* An event is still to come, in the buffer, offered, or excused by an error of
\* its request, by the deadline or by the death of the process.
Announced ==
    \A r \in Requests : req[r].stored =>
        \/ Alive /\ req[r].pc \in AfterStore
        \/ req[r].pc = "failed"
        \/ Alive /\ r \in buffer
        \/ r \in offered \cup overdue
        \/ exit \in {"failed", "killed"}

\* What holds at every moment of the process.
LifecycleInv ==
    /\ LifecycleTypeOK
    /\ NothingEarly /\ Stopped /\ StillOpen /\ Drained /\ Flushed /\ Announced

\* A process that has just been started has promised nothing yet.
LEMMA InvInit == Init => LifecycleInv
<1> SUFFICES ASSUME Init PROVE LifecycleInv
  OBVIOUS
<1>1. LifecycleTypeOK
  BY TypeInit
<1>2. \A r \in Requests : req[r] = NotSent
  BY DEF Init
<1> QED
  BY <1>1, <1>2
  DEF Init, LifecycleInv, NothingEarly, Stopped, StillOpen, Drained, Flushed, Announced,
      Startup, Closing, Handling, AfterStore, NotSent

\* The end of the process: whatever is lost is excused, unless the phase before
\* was the last one of an orderly stop.
LEMMA DieStep ==
    ASSUME LifecycleInv, NEW how \in {"ok", "failed", "killed"}, Die(how),
           how = "ok" => phase = "close_tracer", Alive
    PROVE  LifecycleInv'
<1>1. LifecycleTypeOK'
  BY DieTypes DEF LifecycleInv
<1>2. NothingEarly' /\ Stopped' /\ StillOpen' /\ Flushed'
  BY DEF Die, NothingEarly, Stopped, StillOpen, Flushed, Startup, Closing
<1>3. Drained'
  BY DEF Die, Drained, Closing
<1>4. Announced'
  <2>1. CASE how # "ok"
    BY <2>1 DEF Die, Announced
  <2>2. CASE how = "ok"
    <3>1. buffer = {} /\ exit = "none"
      BY <2>2 DEF LifecycleInv, Flushed, LifecycleTypeOK
    <3>2. \A r \in Requests : req[r].pc \in Handling => r \in overdue
      BY <2>2 DEF LifecycleInv, Drained, Closing, Requests
    <3>3. \A r \in Requests :
              req[r].stored => req[r].pc = "failed" \/ r \in offered \cup overdue
      BY <3>1, <3>2 DEF LifecycleInv, Announced, Handling, AfterStore
    <3> QED
      BY <3>3 DEF Die, Announced
  <2> QED
    BY <2>1, <2>2
<1> QED
  BY <1>1, <1>2, <1>3, <1>4 DEF LifecycleInv

\* A step of main that does not end the process leaves requests and events alone.
LEMMA MainStep ==
    ASSUME LifecycleInv, LifecycleTypeOK', UNCHANGED <<req, buffer, offered>>,
           Alive, Alive', exit' = exit, overdue \subseteq overdue',
           NothingEarly', Stopped', StillOpen', Flushed',
           phase' \in Closing \cup {"stop_grpc"} =>
               phase \in Closing \cup {"stop_grpc"} \/ InFlight("http") \subseteq overdue,
           phase' \in Closing => phase \in Closing \/ InFlight("grpc") = {}
    PROVE  LifecycleInv'
<1>1. Drained'
  <2> SUFFICES ASSUME NEW r \in Requests, req[r].pc \in Handling
               PROVE  /\ r \in RestRequests /\ phase' \in Closing \cup {"stop_grpc"} =>
                             r \in overdue'
                      /\ r \in Rpcs => phase' \notin Closing
    BY DEF Drained
  <2>1. r \in RestRequests => r \in InFlight("http")
    BY DEF InFlight, RequestsOf
  <2>2. r \in Rpcs => r \in InFlight("grpc")
    BY DEF InFlight, RequestsOf
  <2> QED
    BY <2>1, <2>2 DEF LifecycleInv, Drained
<1>2. Announced'
  BY DEF LifecycleInv, Announced
<1> QED
  BY <1>1, <1>2 DEF LifecycleInv

\* So does the step of a request that is being handled or taken on, if it leaves
\* the event of a stored change on its way.
LEMMA RequestStep ==
    ASSUME LifecycleInv, LifecycleTypeOK', NEW r \in Requests, NEW new,
           req' = [req EXCEPT ![r] = new], UNCHANGED mainVars, Alive, phase \notin Startup,
           req[r].pc \in Handling \/ server[ServerOf(r)] = "serving",
           phase \in Closing \ {"close_kafka", "flush_kafka"} => buffer' = {},
           buffer \subseteq buffer', offered \subseteq offered',
           new.stored =>
                \/ new.pc \in AfterStore \cup {"failed"}
                \/ req[r].stored /\ req[r].pc \notin AfterStore \cup {"failed"}
                \/ r \in overdue
                \/ r \in buffer' \cup offered'
    PROVE  LifecycleInv'
<1>1. \A q \in Requests : req'[q] = IF q = r THEN new ELSE req[q]
  BY DEF LifecycleInv, LifecycleTypeOK
<1>2. NothingEarly' /\ Stopped' /\ StillOpen' /\ Flushed'
  BY DEF LifecycleInv, NothingEarly, Stopped, StillOpen, Flushed, mainVars, Startup, Closing
<1>3. Drained'
  BY <1>1 DEF LifecycleInv, Drained, Stopped, ServerOf, RestRequests, Requests, mainVars
<1>4. Announced'
  BY <1>1 DEF LifecycleInv, Announced, mainVars, Alive
<1> QED
  BY <1>2, <1>3, <1>4 DEF LifecycleInv

\* Every step keeps the invariant.
LEMMA InvStep == LifecycleInv /\ [Next]_vars => LifecycleInv'
<1> SUFFICES ASSUME LifecycleInv, [Next]_vars PROVE LifecycleInv'
  OBVIOUS
<1>1. LifecycleTypeOK /\ LifecycleTypeOK'
  BY TypeStep DEF LifecycleInv
<1>2. phase \in Startup => Alive /\ phase \notin Closing \cup {"serving", "stop_http", "stop_grpc"}
  BY DEF Startup, Closing, Alive
<1>3. phase \in Closing => Alive /\ phase \notin Startup \cup {"serving", "stop_http", "stop_grpc"}
  BY DEF Startup, Closing, Alive
<1> USE DEF LifecycleInv
<1>4. ASSUME NEW from, Exit1(from), from # "exited" PROVE LifecycleInv'
  BY <1>4, DieStep DEF Exit1, Alive
<1>5. CASE LoadConfig
  <2>1. CASE Exit1("config")
    BY <2>1, <1>4
  <2>2. CASE /\ Move("config", "tracer") /\ tokens' = limit.burst
             /\ UNCHANGED <<server, overdue, open, attempts, limit, refills, kafkaVars, req>>
    <3>1. NothingEarly' /\ Stopped' /\ StillOpen' /\ Flushed'
      BY <2>2 DEF Move, NothingEarly, Stopped, StillOpen, Flushed, Startup, Closing, kafkaVars
    <3> QED
      BY <1>1, <2>2, <3>1, MainStep DEF Move, Alive, Closing, kafkaVars
  <2> QED
    BY <1>5, <2>1, <2>2 DEF LoadConfig
<1>6. ASSUME NEW from \in Startup, NEW to, NEW c, Connect(from, to, c),
             <<from, to, c>> \in {<<"tracer", "postgres", {}>>,
                                  <<"postgres", "redis", {"postgres"}>>,
                                  <<"redis", "kafka", {"redis"}>>,
                                  <<"kafka", "topic", {}>>,
                                  <<"health", "serving", {}>>}
      PROVE  LifecycleInv'
  <2>1. CASE Exit1(from)
    BY <1>4, <2>1 DEF Startup
  <2>2. CASE /\ Move(from, to) /\ open' = open \cup c
             /\ UNCHANGED <<server, overdue, attempts, limitVars, kafkaVars, req>>
    <3>1. NothingEarly' /\ Stopped' /\ Flushed'
      BY <1>6, <2>2 DEF Move, NothingEarly, Stopped, Flushed, Startup, Closing, kafkaVars
    <3>2. StillOpen'
      BY <1>6, <2>2 DEF Move, StillOpen, Startup, Closing
    <3> QED
      BY <1>1, <1>6, <2>2, <3>1, <3>2, MainStep DEF Move, Alive, Closing, kafkaVars
  <2> QED
    BY <1>6, <2>1, <2>2 DEF Connect
<1>7. CASE NewTracerProvider \/ NewConnection \/ NewClient \/ DialBroker \/ InitialCheck
  BY <1>6, <1>7
  DEF NewTracerProvider, NewConnection, NewClient, DialBroker, InitialCheck, Startup
<1>8. CASE CreateTopicIfNotExists
  <2>1. CASE Exit1("topic")
    BY <1>4, <2>1
  <2>2. CASE /\ Move("topic", "topic") /\ attempts' = attempts + 1
             /\ UNCHANGED <<server, overdue, open, limitVars, kafkaVars, req>>
    <3>1. NothingEarly' /\ Stopped' /\ StillOpen' /\ Flushed'
      BY <2>2 DEF Move, NothingEarly, Stopped, StillOpen, Flushed, Startup, Closing, kafkaVars
    <3> QED
      BY <1>1, <2>2, <3>1, MainStep DEF Move, Alive, Closing, kafkaVars
  <2>3. CASE /\ Move("topic", "health") /\ open' = open \cup {"kafka"} /\ attempts' = 0
             /\ UNCHANGED <<server, overdue, limitVars, kafkaVars, req>>
    <3>1. NothingEarly' /\ Stopped' /\ Flushed'
      BY <2>3 DEF Move, NothingEarly, Stopped, Flushed, Startup, Closing, kafkaVars
    <3>2. StillOpen'
      BY <2>3 DEF Move, StillOpen, Startup, Closing, Connections
    <3> QED
      BY <1>1, <2>3, <3>1, <3>2, MainStep DEF Move, Alive, Closing, kafkaVars
  <2> QED
    BY <1>8, <2>1, <2>2, <2>3 DEF CreateTopicIfNotExists
<1>9. CASE ServerError
  BY <1>4, <1>9 DEF ServerError
<1>10. CASE Kill \/ ShutdownTracer
  BY <1>10, DieStep DEF Kill, ShutdownTracer, Alive
<1>11. CASE Signal \/ HttpStopped
  <2>1. /\ UNCHANGED <<overdue, open, attempts, limitVars, kafkaVars, req, exit>>
        /\ \/ phase = "serving" /\ phase' = "stop_http"
              /\ server' = [server EXCEPT !["http"] = "stopped"]
           \/ phase = "stop_http" /\ phase' = "stop_grpc" /\ InFlight("http") \subseteq overdue
              /\ server' = [server EXCEPT !["grpc"] = "stopped"]
    BY <1>11 DEF Signal, HttpStopped, BeginStop, Move
  <2>2. Stopped'
    BY <1>1, <2>1 DEF Stopped, LifecycleTypeOK, Servers, Closing
  <2>3. NothingEarly' /\ StillOpen' /\ Flushed'
    BY <2>1 DEF NothingEarly, StillOpen, Flushed, Startup, Closing
  <2> QED
    BY <1>1, <2>1, <2>2, <2>3, MainStep DEF Alive, Closing, kafkaVars
<1>12. CASE GrpcStopped
  <2>1. NothingEarly' /\ Stopped' /\ StillOpen' /\ Flushed'
    BY <1>12
    DEF GrpcStopped, Move, NothingEarly, Stopped, StillOpen, Flushed, Startup, Closing
  <2> QED
    BY <1>1, <1>12, <2>1, MainStep DEF GrpcStopped, Move, Alive, Closing, kafkaVars
<1>13. CASE CloseWriter \/ WriterClosed \/ CloseRedis \/ ClosePostgres
  <2>1. /\ UNCHANGED <<server, overdue, attempts, limitVars, kafkaVars, req, exit>>
        /\ phase \in Closing /\ phase' \in Closing \ {"close_kafka"}
    BY <1>13 DEF CloseWriter, WriterClosed, CloseRedis, ClosePostgres, Close, Move, Closing
  <2>2. "kafka" \notin open'
    BY <1>13 DEF CloseWriter, WriterClosed, CloseRedis, ClosePostgres, Close, Move, StillOpen, Closing
  <2>3. Flushed'
    BY <1>13
    DEF CloseWriter, WriterClosed, CloseRedis, ClosePostgres, Close, Move, Flushed, kafkaVars
  <2>4. NothingEarly' /\ Stopped' /\ StillOpen'
    BY <2>1, <2>2 DEF NothingEarly, Stopped, StillOpen, Startup, Closing
  <2> QED
    BY <1>1, <1>3, <2>1, <2>3, <2>4, MainStep DEF Alive, Closing, kafkaVars
<1>14. CASE DeadlineStrikes
  <2>1. NothingEarly' /\ Stopped' /\ StillOpen' /\ Flushed'
    BY <1>14
    DEF DeadlineStrikes, NothingEarly, Stopped, StillOpen, Flushed, Startup, Closing, kafkaVars
  <2> QED
    BY <1>1, <1>14, <2>1, MainStep DEF DeadlineStrikes, Alive, Closing, kafkaVars
<1>15. CASE Refill
  <2>1. NothingEarly' /\ Stopped' /\ StillOpen' /\ Flushed'
    BY <1>15
    DEF Refill, mainVars, kafkaVars, NothingEarly, Stopped, StillOpen, Flushed, Startup, Closing
  <2> QED
    BY <1>1, <1>15, <2>1, MainStep DEF Refill, Launched, Alive, mainVars, kafkaVars
<1>16. ASSUME NEW s \in Servers, Start(s) \/ Fail(s) PROVE LifecycleInv'
  <2>1. /\ UNCHANGED <<phase, exit, overdue, open, attempts, limitVars, kafkaVars, req>>
        /\ Alive /\ phase \notin Startup
        /\ server[s] # "stopped"
        /\ \E to : server' = [server EXCEPT ![s] = to]
    BY <1>16, <1>2 DEF Start, Fail, SetServer, Launched, Alive, Startup
  <2>2. Stopped'
    BY <1>1, <2>1 DEF Stopped, LifecycleTypeOK, Servers
  <2>3. NothingEarly' /\ StillOpen' /\ Flushed'
    BY <2>1 DEF NothingEarly, StillOpen, Flushed, kafkaVars
  <2> QED
    BY <1>1, <2>1, <2>2, <2>3, MainStep DEF Alive, kafkaVars
<1>17. ASSUME NEW r \in Requests, Arrive(r) PROVE LifecycleInv'
  <2>1. PICK p \in Handling : GoOn(r, p)
    BY <1>17 DEF Arrive, Handling, AfterStore
  <2>2. PICK new \in RequestState : /\ req' = [req EXCEPT ![r] = new] /\ UNCHANGED mainVars
                                    /\ new.stored = req[r].stored
    BY <1>1, <2>1, GoOnEffect
  <2>3. /\ Alive /\ server[ServerOf(r)] = "serving" /\ req[r].pc = "not_sent"
        /\ UNCHANGED kafkaVars
    BY <1>17 DEF Arrive
  <2>4. phase \notin Startup
    BY <2>3 DEF NothingEarly, ServerOf, Servers
  <2>5. phase \in Closing \ {"close_kafka", "flush_kafka"} => buffer' = {}
    BY <2>3 DEF Flushed, Closing, kafkaVars
  <2> QED
    BY <1>1, <2>2, <2>3, <2>4, <2>5, RequestStep DEF kafkaVars, AfterStore
<1>18. ASSUME NEW r \in Requests, Handler(r) PROVE LifecycleInv'
  <2>1. HandlerEffect(r)
    BY <1>1, <1>18, HandlerSteps
  <2>2. Alive /\ req[r].pc \in Handling /\ UNCHANGED mainVars
    BY <2>1 DEF HandlerEffect
  <2>3. phase \notin Startup
    BY <2>2 DEF NothingEarly, NotSent, Handling, AfterStore
  <2>4. phase \in Closing \ {"close_kafka", "flush_kafka"} => buffer' = {}
    BY <2>1 DEF HandlerEffect, Flushed, StillOpen, Closing
  <2>5. ~ Connections \subseteq open => r \in overdue
    <3>1. ~ Connections \subseteq open => phase \in Closing
      BY <1>1, <2>2, <2>3 DEF StillOpen, Connections, Alive, LifecycleTypeOK, Phases
    <3> QED
      BY <2>2, <3>1 DEF Drained, Requests
  <2>6. PICK new \in RequestState :
          /\ req' = [req EXCEPT ![r] = new]
          /\ new.stored =>
                \/ new.pc \in AfterStore \cup {"failed"}
                \/ req[r].stored /\ req[r].pc \notin AfterStore \cup {"failed"}
                \/ ~ Connections \subseteq open
                \/ r \in buffer' \cup offered'
    BY <2>1 DEF HandlerEffect
  <2>7. buffer \subseteq buffer' /\ offered \subseteq offered'
    BY <2>1 DEF HandlerEffect
  <2> QED
    BY <1>1, <2>2, <2>3, <2>4, <2>5, <2>6, <2>7, RequestStep
<1>19. ASSUME NEW r \in Requests, Deliver(r) PROVE LifecycleInv'
  <2>1. /\ UNCHANGED <<phase, exit, server, overdue, open, req>>
        /\ r \in buffer /\ buffer' = buffer \ {r} /\ offered' = offered \cup {r}
    BY <1>19 DEF Deliver, mainVars
  <2>2. NothingEarly' /\ Stopped' /\ StillOpen' /\ Flushed' /\ Drained'
    BY <2>1 DEF NothingEarly, Stopped, StillOpen, Flushed, Drained
  <2>3. Announced'
    BY <2>1 DEF Announced, Alive
  <2> QED
    BY <1>1, <2>2, <2>3
<1>20. CASE UNCHANGED vars
  BY <1>1, <1>20
  DEF vars, mainVars, kafkaVars, NothingEarly, Stopped, StillOpen, Flushed, Drained, Announced, Alive
<1> QED
  BY <1>5, <1>7, <1>8, <1>9, <1>10, <1>11, <1>12, <1>13, <1>14, <1>15, <1>16, <1>17, <1>18,
     <1>19, <1>20
  DEF Next, StartStep, StopStep

\* The process stays in the states that the invariant describes.
LEMMA Invariance == Spec => []LifecycleInv
  BY InvInit, InvStep, PTL DEF Spec

-----------------------------------------------------------------------------
(* What follows *)

\* A process that ends by a signal has offered the event of every stored change
\* to the broker, except those of REST requests that were overdue: for any
\* number of requests, whatever hangs and whatever the broker does.
THEOREM OrderlyStopLosesNoEvent == Spec => []StopLosesNoEvent
<1>1. LifecycleInv => StopLosesNoEvent
  BY DEF LifecycleInv, LifecycleTypeOK, Announced, StopLosesNoEvent, Alive
<1> QED
  BY <1>1, Invariance, PTL

-----------------------------------------------------------------------------
(* The kinds of steps, as far as requests and servers notice them *)

\* What main and the goroutines of the servers do.
MainShape ==
    \/ phase' = "exited" /\ Alive /\ UNCHANGED overdue
    \/ UNCHANGED <<phase, server, overdue>>
    \/ /\ phase \in Startup /\ phase' \in Startup \cup {"serving"}
       /\ UNCHANGED <<server, overdue>>
    \/ /\ phase \in Closing /\ phase' \in Closing
       /\ UNCHANGED <<server, overdue>>
    \/ \E s \in Servers :
          /\ Launched /\ server[s] = "new" /\ server' = [server EXCEPT ![s] = "serving"]
          /\ UNCHANGED <<phase, overdue>>
    \/ \E s \in Servers :
          /\ phase = "serving" /\ server[s] \in {"new", "serving"}
          /\ server' = [server EXCEPT ![s] = "failed"]
          /\ UNCHANGED <<phase, overdue>>
    \/ /\ phase = "serving" /\ phase' = "stop_http"
       /\ server' = [server EXCEPT !["http"] = "stopped"] /\ UNCHANGED overdue
    \/ /\ phase = "stop_http" /\ phase' = "stop_grpc" /\ InFlight("http") \subseteq overdue
       /\ server' = [server EXCEPT !["grpc"] = "stopped"] /\ UNCHANGED overdue
    \/ /\ phase = "stop_grpc" /\ phase' = "close_kafka" /\ InFlight("grpc") = {}
       /\ UNCHANGED <<server, overdue>>
    \/ /\ phase = "stop_http" /\ overdue = {} /\ overdue' = InFlight("http")
       /\ UNCHANGED <<phase, server>>

\* What request r does: it is taken on, goes on or is answered.
RequestShape(r) ==
    /\ UNCHANGED <<phase, server, overdue>> /\ Alive
    /\ \E new \in RequestState : req' = [req EXCEPT ![r] = new]
    /\ \/ server[ServerOf(r)] = "serving" /\ req'[r].pc \in Handling
       \/ req[r].pc \in Handling

\* Every step is of the process, changing no request, or of one request.
LEMMA StepShapes ==
    ASSUME LifecycleInv, [Next]_vars
    PROVE  \/ MainShape /\ UNCHANGED req
           \/ \E r \in Requests : RequestShape(r)
<1> DEFINE Quiet == MainShape /\ UNCHANGED req
<1>1. ASSUME NEW from \in Phases \ {"exited"}, Exit1(from) PROVE Quiet
  BY <1>1 DEF Exit1, Die, MainShape, Alive
<1>2. ASSUME NEW from \in Startup, NEW to \in Startup \cup {"serving"}, NEW c, Connect(from, to, c)
      PROVE  Quiet
  BY <1>1, <1>2 DEF Connect, Move, MainShape, Phases, Startup
<1>3. CASE LoadConfig
  BY <1>1, <1>3 DEF LoadConfig, Move, MainShape, Phases, Startup
<1>4. CASE NewTracerProvider \/ NewConnection \/ NewClient \/ DialBroker \/ InitialCheck
  BY <1>2, <1>4
  DEF NewTracerProvider, NewConnection, NewClient, DialBroker, InitialCheck, Startup
<1>5. CASE CreateTopicIfNotExists
  BY <1>1, <1>5 DEF CreateTopicIfNotExists, Move, MainShape, Phases, Startup
<1>6. CASE ServerError
  BY <1>1, <1>6 DEF ServerError, Phases
<1>7. CASE Kill \/ ShutdownTracer
  BY <1>7 DEF Kill, ShutdownTracer, Die, MainShape, Alive
<1>8. CASE Signal
  BY <1>8 DEF Signal, BeginStop, Move, MainShape
<1>9. CASE HttpStopped
  BY <1>9 DEF HttpStopped, BeginStop, Move, MainShape
<1>10. CASE GrpcStopped
  BY <1>10 DEF GrpcStopped, Move, MainShape
<1>11. CASE CloseWriter \/ WriterClosed \/ CloseRedis \/ ClosePostgres
  BY <1>11 DEF CloseWriter, WriterClosed, CloseRedis, ClosePostgres, Close, Move, MainShape, Closing
<1>12. CASE DeadlineStrikes
  BY <1>12 DEF DeadlineStrikes, MainShape
<1>13. CASE Refill
  BY <1>13 DEF Refill, mainVars, MainShape
<1>14. ASSUME NEW s \in Servers, Start(s) \/ Fail(s) PROVE Quiet
  BY <1>14 DEF Start, Fail, SetServer, MainShape
<1>15. ASSUME NEW r \in Requests, Deliver(r) PROVE Quiet
  BY <1>15 DEF Deliver, mainVars, MainShape
<1>16. CASE UNCHANGED vars
  BY <1>16 DEF vars, mainVars, MainShape
<1>17. ASSUME NEW r \in Requests, Arrive(r) PROVE RequestShape(r)
  <2>1. PICK p \in Handling : GoOn(r, p)
    BY <1>17 DEF Arrive, Handling, AfterStore
  <2>2. PICK new \in RequestState : /\ req' = [req EXCEPT ![r] = new] /\ UNCHANGED mainVars
                                    /\ new.pc = p
    BY <2>1, GoOnEffect DEF LifecycleInv
  <2>3. req'[r] = new
    BY <2>2 DEF LifecycleInv, LifecycleTypeOK
  <2> QED
    BY <1>17, <2>2, <2>3 DEF Arrive, RequestShape, mainVars
<1>18. ASSUME NEW r \in Requests, Handler(r) PROVE RequestShape(r)
  <2>1. HandlerEffect(r)
    BY <1>18, HandlerSteps DEF LifecycleInv
  <2> QED
    BY <2>1 DEF HandlerEffect, RequestShape, mainVars
<1> QED
  BY <1>3, <1>4, <1>5, <1>6, <1>7, <1>8, <1>9, <1>10, <1>11, <1>12, <1>13, <1>14, <1>15,
     <1>16, <1>17, <1>18
  DEF Next, StartStep, StopStep

\* What a step of request r does to the requests in flight at server s.
LEMMA InFlightStep ==
    ASSUME LifecycleInv, NEW r \in Requests, RequestShape(r), NEW s \in Servers
    PROVE  \/ InFlight(s)' = InFlight(s)
           \/ /\ r \in RequestsOf(s) /\ server[s] = "serving"
              /\ InFlight(s)' = InFlight(s) \cup {r}
           \/ r \in InFlight(s) /\ InFlight(s)' = InFlight(s) \ {r}
<1>1. \A q \in Requests : q # r => req'[q] = req[q]
  BY DEF RequestShape, LifecycleInv, LifecycleTypeOK
<1>2. RequestsOf(s) \subseteq Requests
  BY DEF RequestsOf, Requests
<1>3. \A q : q # r => (q \in InFlight(s)' <=> q \in InFlight(s))
  BY <1>1, <1>2 DEF InFlight
<1>4. r \in InFlight(s)' /\ r \notin InFlight(s) =>
          r \in RequestsOf(s) /\ server[s] = "serving"
  BY LifecycleAssumption DEF RequestShape, InFlight, RequestsOf, ServerOf, RestRequests, Servers
<1> QED
  BY <1>3, <1>4

-----------------------------------------------------------------------------
(* The stop of the servers *)

\* The gRPC server implements GracefulServer without a deadline: it takes on no
\* RPC once main stops it, and main releases what RPCs use only when none is left.
THEOREM GrpcDrains == Spec => RpcsAreDrained
<1> USE DEF Stage
<1>1. Init => RpcServer!Init
  BY DEF Init, RpcServer!Init, Alive, Closing, InFlight, RequestsOf, Requests, NotSent,
         Handling, AfterStore, Servers
<1>2. LifecycleInv /\ [Next]_vars => [RpcServer!Next]_(RpcServer!serverVars)
  <2> SUFFICES ASSUME LifecycleInv, [Next]_vars
               PROVE  RpcServer!Next \/ UNCHANGED RpcServer!serverVars
    OBVIOUS
  <2>1. server \in [Servers -> {"new", "serving", "failed", "stopped"}]
    BY DEF LifecycleInv, LifecycleTypeOK
  <2>2. CASE MainShape /\ UNCHANGED req
    <3>1. InFlight("grpc")' = InFlight("grpc")
      BY <2>2 DEF InFlight
    <3>2. CASE phase' = "exited" /\ Alive /\ UNCHANGED overdue
      <4>1. Alive /\ ~ Alive'
        BY <3>2 DEF Alive
      <4>2. Stage("grpc", Closing) # "dead" /\ Stage("grpc", Closing)' = "dead"
        BY <4>1
      <4> QED
        BY <3>2, <4>1, <4>2 DEF RpcServer!Next, RpcServer!Die
    <3>3. CASE UNCHANGED <<phase, server, overdue>>
      BY <3>1, <3>3 DEF RpcServer!serverVars, Alive
    <3>4. CASE /\ phase \in Startup /\ phase' \in Startup \cup {"serving"}
               /\ UNCHANGED <<server, overdue>>
      BY <3>1, <3>4 DEF RpcServer!serverVars, Alive, Startup, Closing
    <3>5. CASE phase \in Closing /\ phase' \in Closing /\ UNCHANGED <<server, overdue>>
      BY <3>1, <3>5 DEF RpcServer!serverVars, Alive, Closing
    <3>6. ASSUME NEW s \in Servers, Launched, server[s] = "new",
                 server' = [server EXCEPT ![s] = "serving"], UNCHANGED <<phase, overdue>>
          PROVE  RpcServer!Next \/ UNCHANGED RpcServer!serverVars
      <4>1. Alive /\ Alive'
        BY <3>6 DEF Launched, Alive
      <4>2. CASE s = "grpc"
        <5>1. phase \notin Closing \cup {"stop_grpc"}
          BY <3>6, <4>2 DEF LifecycleInv, Stopped
        <5>2. server["grpc"] = "new" /\ server'["grpc"] = "serving"
          BY <2>1, <3>6, <4>2
        <5> QED
          BY <3>1, <3>6, <4>1, <5>1, <5>2 DEF RpcServer!Next, RpcServer!Start
      <4>3. CASE s # "grpc"
        <5>1. server'["grpc"] = server["grpc"]
          BY <2>1, <3>6, <4>3 DEF Servers
        <5> QED
          BY <3>1, <3>6, <4>1, <5>1 DEF RpcServer!serverVars
      <4> QED
        BY <4>2, <4>3
    <3>7. ASSUME NEW s \in Servers, phase = "serving", server[s] \in {"new", "serving"},
                 server' = [server EXCEPT ![s] = "failed"], UNCHANGED <<phase, overdue>>
          PROVE  RpcServer!Next \/ UNCHANGED RpcServer!serverVars
      <4>1. Alive /\ Alive' /\ phase \notin Closing \cup {"stop_grpc"}
        BY <3>7 DEF Alive, Closing
      <4>2. CASE s = "grpc"
        <5>1. server["grpc"] \in {"new", "serving"} /\ server'["grpc"] = "failed"
          BY <2>1, <3>7, <4>2
        <5> QED
          BY <3>1, <3>7, <4>1, <5>1 DEF RpcServer!Next, RpcServer!Drain
      <4>3. CASE s # "grpc"
        <5>1. server'["grpc"] = server["grpc"]
          BY <2>1, <3>7, <4>3 DEF Servers
        <5> QED
          BY <3>1, <3>7, <4>1, <5>1 DEF RpcServer!serverVars
      <4> QED
        BY <4>2, <4>3
    <3>8. CASE /\ phase = "serving" /\ phase' = "stop_http"
               /\ server' = [server EXCEPT !["http"] = "stopped"] /\ UNCHANGED overdue
      BY <2>1, <3>1, <3>8 DEF RpcServer!serverVars, Alive, Closing, Servers
    <3>9. CASE /\ phase = "stop_http" /\ phase' = "stop_grpc" /\ InFlight("http") \subseteq overdue
               /\ server' = [server EXCEPT !["grpc"] = "stopped"] /\ UNCHANGED overdue
      BY <2>1, <3>1, <3>9
      DEF RpcServer!Next, RpcServer!Drain, RpcServer!serverVars, Alive, Closing, Servers
    <3>10. CASE /\ phase = "stop_grpc" /\ phase' = "close_kafka" /\ InFlight("grpc") = {}
                /\ UNCHANGED <<server, overdue>>
      <4>1. server["grpc"] = "stopped"
        BY <3>10 DEF LifecycleInv, Stopped
      <4> QED
        BY <3>1, <3>10, <4>1 DEF RpcServer!Next, RpcServer!Release, Alive, Closing
    <3>11. CASE /\ phase = "stop_http" /\ overdue = {} /\ overdue' = InFlight("http")
                /\ UNCHANGED <<phase, server>>
      BY <3>1, <3>11 DEF RpcServer!serverVars, Alive
    <3> QED
      BY <2>2, <3>2, <3>3, <3>4, <3>5, <3>6, <3>7, <3>8, <3>9, <3>10, <3>11 DEF MainShape
  <2>3. ASSUME NEW r \in Requests, RequestShape(r)
        PROVE  RpcServer!Next \/ UNCHANGED RpcServer!serverVars
    <3>1. \/ InFlight("grpc")' = InFlight("grpc")
          \/ /\ r \in Rpcs /\ server["grpc"] = "serving"
             /\ InFlight("grpc")' = InFlight("grpc") \cup {r}
          \/ r \in Rpcs /\ r \in InFlight("grpc") /\ InFlight("grpc")' = InFlight("grpc") \ {r}
      BY <2>3, InFlightStep DEF RequestsOf, Servers, InFlight
    <3>2. Alive /\ Alive' /\ UNCHANGED <<phase, server>>
      BY <2>3 DEF RequestShape, Alive
    <3>3. server["grpc"] = "serving" => phase \notin Closing
      BY DEF LifecycleInv, Stopped
    <3> QED
      BY <3>1, <3>2, <3>3
      DEF RpcServer!Next, RpcServer!Admit, RpcServer!Answer, RpcServer!serverVars
  <2> QED
    BY <2>2, <2>3, StepShapes
<1> QED
  BY <1>1, <1>2, Invariance, PTL DEF Spec, RpcsAreDrained, RpcServer!Spec

\* The REST server implements GracefulServer with the deadline of Shutdown: main
\* goes on when the only requests in flight are those the deadline has struck.
THEOREM HttpDrainsUntilItsDeadline == Spec => RestIsDrainedUntilItsDeadline
<1> USE DEF Stage
<1>1. Init => RestServer!Init
  BY DEF Init, RestServer!Init, Alive, Closing, InFlight, RequestsOf, Requests, NotSent,
         Handling, AfterStore, Servers
<1>2. LifecycleInv /\ [Next]_vars => [RestServer!Next]_(RestServer!serverVars)
  <2> SUFFICES ASSUME LifecycleInv, [Next]_vars
               PROVE  RestServer!Next \/ UNCHANGED RestServer!serverVars
    OBVIOUS
  <2>1. server \in [Servers -> {"new", "serving", "failed", "stopped"}]
    BY DEF LifecycleInv, LifecycleTypeOK
  <2>2. CASE MainShape /\ UNCHANGED req
    <3>1. InFlight("http")' = InFlight("http")
      BY <2>2 DEF InFlight
    <3>2. CASE phase' = "exited" /\ Alive /\ UNCHANGED overdue
      <4>1. Alive /\ ~ Alive'
        BY <3>2 DEF Alive
      <4>2. Stage("http", Closing \cup {"stop_grpc"}) # "dead" /\ Stage("http", Closing \cup {"stop_grpc"})' = "dead"
        BY <4>1
      <4> QED
        BY <3>2, <4>1, <4>2 DEF RestServer!Next, RestServer!Die
    <3>3. CASE UNCHANGED <<phase, server, overdue>>
      BY <3>1, <3>3 DEF RestServer!serverVars, Alive
    <3>4. CASE /\ phase \in Startup /\ phase' \in Startup \cup {"serving"}
               /\ UNCHANGED <<server, overdue>>
      BY <3>1, <3>4 DEF RestServer!serverVars, Alive, Startup, Closing
    <3>5. CASE phase \in Closing /\ phase' \in Closing /\ UNCHANGED <<server, overdue>>
      BY <3>1, <3>5 DEF RestServer!serverVars, Alive, Closing
    <3>6. ASSUME NEW s \in Servers, Launched, server[s] = "new",
                 server' = [server EXCEPT ![s] = "serving"], UNCHANGED <<phase, overdue>>
          PROVE  RestServer!Next \/ UNCHANGED RestServer!serverVars
      <4>1. Alive /\ Alive'
        BY <3>6 DEF Launched, Alive
      <4>2. CASE s = "http"
        <5>1. phase \notin Closing \cup {"stop_http", "stop_grpc"}
          BY <3>6, <4>2 DEF LifecycleInv, Stopped
        <5>2. server["http"] = "new" /\ server'["http"] = "serving"
          BY <2>1, <3>6, <4>2
        <5> QED
          BY <3>1, <3>6, <4>1, <5>1, <5>2 DEF RestServer!Next, RestServer!Start
      <4>3. CASE s # "http"
        <5>1. server'["http"] = server["http"]
          BY <2>1, <3>6, <4>3 DEF Servers
        <5> QED
          BY <3>1, <3>6, <4>1, <5>1 DEF RestServer!serverVars
      <4> QED
        BY <4>2, <4>3
    <3>7. ASSUME NEW s \in Servers, phase = "serving", server[s] \in {"new", "serving"},
                 server' = [server EXCEPT ![s] = "failed"], UNCHANGED <<phase, overdue>>
          PROVE  RestServer!Next \/ UNCHANGED RestServer!serverVars
      <4>1. Alive /\ Alive' /\ phase \notin Closing \cup {"stop_grpc"}
        BY <3>7 DEF Alive, Closing
      <4>2. CASE s = "http"
        <5>1. server["http"] \in {"new", "serving"} /\ server'["http"] = "failed"
          BY <2>1, <3>7, <4>2
        <5> QED
          BY <3>1, <3>7, <4>1, <5>1 DEF RestServer!Next, RestServer!Drain
      <4>3. CASE s # "http"
        <5>1. server'["http"] = server["http"]
          BY <2>1, <3>7, <4>3 DEF Servers
        <5> QED
          BY <3>1, <3>7, <4>1, <5>1 DEF RestServer!serverVars
      <4> QED
        BY <4>2, <4>3
    <3>8. CASE /\ phase = "serving" /\ phase' = "stop_http"
               /\ server' = [server EXCEPT !["http"] = "stopped"] /\ UNCHANGED overdue
      BY <2>1, <3>1, <3>8
      DEF RestServer!Next, RestServer!Drain, RestServer!serverVars, Alive, Closing, Servers
    <3>9. CASE /\ phase = "stop_http" /\ phase' = "stop_grpc" /\ InFlight("http") \subseteq overdue
               /\ server' = [server EXCEPT !["grpc"] = "stopped"] /\ UNCHANGED overdue
      <4>1. server["http"] = "stopped" /\ server'["http"] = "stopped"
        BY <2>1, <3>9 DEF LifecycleInv, Stopped, Servers
      <4> QED
        BY <3>1, <3>9, <4>1 DEF RestServer!Next, RestServer!Release, Alive, Closing
    <3>10. CASE /\ phase = "stop_grpc" /\ phase' = "close_kafka" /\ InFlight("grpc") = {}
                /\ UNCHANGED <<server, overdue>>
      BY <3>1, <3>10 DEF RestServer!serverVars, Alive, Closing
    <3>11. CASE /\ phase = "stop_http" /\ overdue = {} /\ overdue' = InFlight("http")
                /\ UNCHANGED <<phase, server>>
      <4>1. server["http"] = "stopped"
        BY <3>11 DEF LifecycleInv, Stopped
      <4> QED
        BY <3>1, <3>11, <4>1 DEF RestServer!Next, RestServer!DeadlineStrikes, Alive, Closing
    <3> QED
      BY <2>2, <3>2, <3>3, <3>4, <3>5, <3>6, <3>7, <3>8, <3>9, <3>10, <3>11 DEF MainShape
  <2>3. ASSUME NEW r \in Requests, RequestShape(r)
        PROVE  RestServer!Next \/ UNCHANGED RestServer!serverVars
    <3>1. \/ InFlight("http")' = InFlight("http")
          \/ /\ r \in RestRequests /\ server["http"] = "serving"
             /\ InFlight("http")' = InFlight("http") \cup {r}
          \/ r \in RestRequests /\ r \in InFlight("http")
             /\ InFlight("http")' = InFlight("http") \ {r}
      BY <2>3, InFlightStep DEF RequestsOf, Servers, InFlight
    <3>2. Alive /\ Alive' /\ UNCHANGED <<phase, server, overdue>>
      BY <2>3 DEF RequestShape, Alive
    <3>3. server["http"] = "serving" => phase \notin Closing \cup {"stop_grpc"}
      BY DEF LifecycleInv, Stopped
    <3> QED
      BY <3>1, <3>2, <3>3
      DEF RestServer!Next, RestServer!Admit, RestServer!Answer, RestServer!serverVars
  <2> QED
    BY <2>2, <2>3, StepShapes
<1> QED
  BY <1>1, <1>2, Invariance, PTL DEF Spec, RestIsDrainedUntilItsDeadline, RestServer!Spec
=============================================================================
