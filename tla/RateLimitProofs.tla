-------------------------- MODULE RateLimitProofs --------------------------
(***************************************************************************)
(* The rate limiter of Lifecycle keeps its promise for any number of REST  *)
(* requests, finite or not, any configured rate and any schedule.          *)
(***************************************************************************)
EXTENDS LifecycleProofs, FiniteSetTheorems

Passing(pc) == pc \notin {"not_sent", "accepted", "rejected"}

\* The REST requests that passed the limiter from time i to time j, given the
\* states rs of all requests.
PassedIn(rs, i, j) ==
    {r \in RestRequests : Passing(rs[r].pc) /\ rs[r].at \in i .. j}

\* Up to now, the tokens that are still in the bucket count as if they were
\* spent: this is what makes the bound inductive.
WithinBudget ==
    \A i \in 0 .. refills :
        Cardinality(PassedIn(req, i, refills)) + tokens <= limit.burst + (refills - i)

\* The account of the bucket: tokens and those let through since any time.
RateInv ==
    /\ \A r \in RestRequests : Passing(req[r].pc) => req[r].at <= refills
    /\ IsFiniteSet(PassedIn(req, 0, refills))
    /\ WithinBudget
    /\ \A i \in 0 .. refills : \A j \in i .. refills :
           Cardinality(PassedIn(req, i, j)) <= limit.burst + (j - i)

-----------------------------------------------------------------------------
(* The steps, as far as the limiter is concerned *)

\* No request passes, and no token comes in.
NobodyPasses ==
    /\ UNCHANGED <<limit, refills>> /\ tokens' \in 0 .. tokens
    /\ \A r \in RestRequests : /\ Passing(req'[r].pc) <=> Passing(req[r].pc)
                               /\ req'[r].at = req[r].at

\* The configuration is read and the bucket made.
BucketFilled ==
    /\ phase = "config" /\ UNCHANGED <<limit, refills, req>> /\ tokens' = limit.burst

\* Time passes.
TokenComes ==
    /\ UNCHANGED <<limit, req>> /\ refills' = refills + 1
    /\ tokens' \in 0 .. tokens + 1 /\ tokens' <= limit.burst

\* A request takes a token.
Passes(r) ==
    /\ UNCHANGED <<limit, refills>> /\ tokens >= 1 /\ tokens' = tokens - 1
    /\ ~ Passing(req[r].pc) /\ Passing(req'[r].pc) /\ req'[r].at = refills
    /\ \A q \in RestRequests : q # r => req'[q] = req[q]

\* What a step does to the bucket and to who has passed it.
RateShape ==
    NobodyPasses \/ BucketFilled \/ TokenComes \/ \E r \in RestRequests : Passes(r)

\* A request that moves on and leaves the bucket alone.
LEMMA Unlimited ==
    ASSUME LifecycleTypeOK, NEW r \in Requests, NEW new,
           req' = [req EXCEPT ![r] = new], new.at = req[r].at,
           r \in RestRequests => (Passing(new.pc) <=> Passing(req[r].pc)),
           UNCHANGED <<limit, refills>>, tokens' \in 0 .. tokens
    PROVE  NobodyPasses
<1>1. \A q \in Requests : req'[q] = IF q = r THEN new ELSE req[q]
  BY DEF LifecycleTypeOK
<1>2. \A q \in RestRequests : /\ Passing(req'[q].pc) <=> Passing(req[q].pc)
                              /\ req'[q].at = req[q].at
  BY <1>1 DEF Requests
<1> QED
  BY <1>2 DEF NobodyPasses

\* Only RateLimit turns a request that has not passed into one that has.
LEMMA RequestRate ==
    ASSUME LifecycleTypeOK, NEW r \in Requests, Handler(r) \/ Arrive(r)
    PROVE  RateShape
<1>1. /\ req \in [Requests -> RequestState] /\ req[r] \in RequestState
      /\ tokens \in Nat /\ refills \in 0 .. MaxRefills
  BY LifecycleAssumption DEF LifecycleTypeOK, RequestState
<1>2. ASSUME NEW a \in Answers, Answer(r, a), UNCHANGED limitVars,
             r \in RestRequests => (Passing(a) <=> Passing(req[r].pc))
      PROVE  RateShape
  BY <1>1, <1>2, AnswerEffect, Unlimited DEF limitVars, RateShape
<1>3. ASSUME NEW p \in Handling, GoOn(r, p), UNCHANGED limitVars,
             r \in RestRequests => (Passing(p) <=> Passing(req[r].pc))
      PROVE  RateShape
  BY <1>1, <1>3, GoOnEffect, Unlimited DEF limitVars, RateShape
<1>4. CASE Arrive(r)
  <2>1. CASE r \in RestRequests
    BY <1>3, <1>4, <2>1 DEF Arrive, Handling, AfterStore, Passing
  <2>2. CASE r \notin RestRequests
    BY <1>3, <1>4, <2>2 DEF Arrive, Handling, AfterStore
  <2> QED
    BY <2>1, <2>2
<1>5. CASE RateLimit(r)
  <2>1. CASE Answer(r, "rejected") /\ UNCHANGED tokens
    BY <1>2, <1>5, <2>1 DEF RateLimit, At, Answers, Passing, limitVars
  <2>2. CASE tokens >= 1 /\ tokens' = tokens - 1 /\ Dispatch(r)
    <3> DEFINE p == IF r \in Probes THEN "ping_postgres" ELSE "calling"
               b == [req[r] EXCEPT !.pc = p]
               new == [b EXCEPT !.at = refills]
    <3>1. b.pc = p /\ b \in RequestState
      BY <1>1 DEF RequestState, Handling, AfterStore
    <3>2. req' = [req EXCEPT ![r] = new]
      BY <1>1, <2>2 DEF Dispatch, SetRequest, RequestState
    <3> HIDE DEF b
    <3>3. new.pc = p /\ new.at = refills
      BY <3>1 DEF RequestState
    <3> HIDE DEF new
    <3>4. \A q \in Requests : req'[q] = IF q = r THEN new ELSE req[q]
      BY <1>1, <3>2
    <3>5. UNCHANGED <<limit, refills>> /\ ~ Passing(req[r].pc)
      BY <1>5 DEF RateLimit, At, Passing
    <3>6. \A q \in RestRequests : q # r => req'[q] = req[q]
      BY <3>4 DEF Requests
    <3>7. CASE r \in RestRequests
      <4>1. Passing(req'[r].pc) /\ req'[r].at = refills
        BY <3>3, <3>4 DEF Passing
      <4>2. Passes(r)
        BY <2>2, <3>5, <3>6, <4>1 DEF Passes
      <4> QED
        BY <3>7, <4>2 DEF RateShape
    <3>8. CASE r \notin RestRequests
      BY <1>1, <2>2, <3>5, <3>6, <3>8 DEF RateShape, NobodyPasses
    <3> QED
      BY <3>7, <3>8
  <2> QED
    BY <1>5, <2>1, <2>2 DEF RateLimit
<1>6. CASE Call(r)
  <2>1. CASE Answer(r, "answered")
    BY <1>2, <1>6, <2>1 DEF Call, At, Answers, Passing
  <2>2. ASSUME NEW to \in {"caching", "failed"},
               SetRequest(r, [req[r] EXCEPT !.pc = to, !.stored = TRUE])
        PROVE  RateShape
    <3> DEFINE b == [req[r] EXCEPT !.pc = to]
               new == [b EXCEPT !.stored = TRUE]
    <3>1. b \in RequestState /\ b.pc = to /\ b.at = req[r].at
      BY <1>1 DEF RequestState, Handling, AfterStore, Answers
    <3>2. req' = [req EXCEPT ![r] = new]
      BY <1>1, <2>2 DEF SetRequest, RequestState
    <3> HIDE DEF b
    <3>3. new.pc = to /\ new.at = req[r].at
      BY <3>1 DEF RequestState
    <3> HIDE DEF new
    <3>4. Passing(new.pc) /\ Passing(req[r].pc)
      BY <1>6, <3>3 DEF Call, At, Passing
    <3>5. UNCHANGED <<limit, refills>> /\ tokens' \in 0 .. tokens
      BY <1>1, <1>6 DEF Call, limitVars
    <3> QED
      BY <3>2, <3>3, <3>4, <3>5, Unlimited DEF RateShape
  <2> QED
    BY <1>6, <2>1, <2>2 DEF Call
<1>7. ASSUME NEW p \in AfterStore, NEW c, NEW next \in SUBSET AfterStore, Use(r, p, c, next)
      PROVE  RateShape
  <2>1. \A q \in AfterStore \cup {"cut_off", "failed"} : Passing(q)
    BY DEF AfterStore, Passing
  <2>2. req[r].pc \in AfterStore /\ UNCHANGED limitVars
    BY <1>7 DEF Use, At
  <2>3. next \subseteq Handling /\ {"cut_off", "failed"} \subseteq Answers
    BY DEF Handling, Answers
  <2>4. (\E to \in next : GoOn(r, to)) \/ (\E a \in {"cut_off", "failed"} : Answer(r, a))
    BY <1>7 DEF Use
  <2> QED
    BY <1>2, <1>3, <2>1, <2>2, <2>3, <2>4
<1>8. CASE Publish(r)
  BY <1>2, <1>8 DEF Publish, At, Answers, Passing
<1>9. CASE Check(r)
  <2>1. ASSUME NEW p \in {"ping_postgres", "ping_redis", "ping_kafka"}, NEW ok \in BOOLEAN,
               NEW q \in {"ping_postgres", "ping_redis", "ping_kafka"}, Ping(r, p, ok, q)
        PROVE  RateShape
    <3> DEFINE b == [req[r] EXCEPT !.pc = q]
               new == [b EXCEPT !.healthy = @ /\ ok]
    <3>1. b \in RequestState /\ b.pc = q /\ b.at = req[r].at
      BY <1>1 DEF RequestState, Handling, AfterStore
    <3>2. req' = [req EXCEPT ![r] = new]
      BY <1>1, <2>1 DEF Ping, SetRequest, RequestState
    <3> HIDE DEF b
    <3>3. new.pc = q /\ new.at = req[r].at
      BY <3>1 DEF RequestState
    <3> HIDE DEF new
    <3>4. Passing(new.pc) /\ Passing(req[r].pc)
      BY <2>1, <3>3 DEF Ping, At, Passing
    <3>5. UNCHANGED <<limit, refills>> /\ tokens' \in 0 .. tokens
      BY <1>1, <2>1 DEF Ping, limitVars
    <3> QED
      BY <3>2, <3>3, <3>4, <3>5, Unlimited DEF RateShape
  <2>2. CASE PingBroker(r)
    <3>1. PICK a \in {"healthy", "unhealthy"} : Answer(r, a)
      BY <2>2 DEF PingBroker
    <3> QED
      BY <1>2, <2>2, <3>1 DEF PingBroker, At, Answers, Passing
  <2>3. ("postgres" \in open) \in BOOLEAN /\ ("redis" \in open) \in BOOLEAN
    OBVIOUS
  <2> QED
    BY <1>9, <2>1, <2>2, <2>3 DEF Check
<1>10. CASE CacheUser(r) \/ ReloadUser(r) \/ RecacheUser(r)
  BY <1>7, <1>10 DEF CacheUser, ReloadUser, RecacheUser, AfterStore
<1> QED
  BY <1>4, <1>5, <1>6, <1>8, <1>9, <1>10 DEF Handler

\* Every step has one of these shapes.
LEMMA RateShapes ==
    ASSUME LifecycleTypeOK, [Next]_vars
    PROVE  RateShape
<1>1. tokens \in Nat /\ refills \in Nat /\ limit.burst \in Nat /\ tokens <= limit.burst
  BY LifecycleAssumption DEF LifecycleTypeOK
<1>2. CASE UNCHANGED <<limitVars, req>>
  BY <1>1, <1>2 DEF RateShape, NobodyPasses, limitVars
<1>3. ASSUME NEW how, Die(how) PROVE RateShape
  BY <1>1, <1>3 DEF Die, RateShape, NobodyPasses
<1>4. CASE LoadConfig
  BY <1>3, <1>4 DEF LoadConfig, Exit1, Move, RateShape, BucketFilled
<1>5. CASE NewTracerProvider \/ NewConnection \/ NewClient \/ DialBroker \/ InitialCheck
           \/ CreateTopicIfNotExists
  BY <1>2, <1>3, <1>5
  DEF NewTracerProvider, NewConnection, NewClient, DialBroker, InitialCheck,
      CreateTopicIfNotExists, Connect, Exit1
<1>6. CASE ServerError \/ Kill \/ ShutdownTracer
  BY <1>3, <1>6 DEF ServerError, Kill, ShutdownTracer, Exit1
<1>7. CASE Signal \/ HttpStopped \/ GrpcStopped \/ CloseWriter \/ WriterClosed \/ CloseRedis
           \/ ClosePostgres \/ DeadlineStrikes
  BY <1>2, <1>7
  DEF Signal, HttpStopped, GrpcStopped, CloseWriter, WriterClosed, CloseRedis, ClosePostgres,
      DeadlineStrikes, BeginStop, Close
<1>8. CASE Refill
  BY <1>1, <1>8 DEF Refill, RateShape, TokenComes
<1>9. ASSUME NEW s \in Servers, Start(s) \/ Fail(s) PROVE RateShape
  BY <1>2, <1>9 DEF Start, Fail, SetServer
<1>10. ASSUME NEW r \in Requests, Arrive(r) \/ Handler(r) PROVE RateShape
  BY <1>10, RequestRate
<1>11. ASSUME NEW r \in Requests, Deliver(r) PROVE RateShape
  BY <1>2, <1>11 DEF Deliver
<1>12. CASE UNCHANGED vars
  BY <1>2, <1>12 DEF vars
<1> QED
  BY <1>4, <1>5, <1>6, <1>7, <1>8, <1>9, <1>10, <1>11, <1>12 DEF Next, StartStep, StopStep

-----------------------------------------------------------------------------
(* The budget is kept *)

\* Nobody has passed a bucket that has just been filled.
LEMMA RateInit == Init => RateInv
<1> SUFFICES ASSUME Init PROVE RateInv
  OBVIOUS
<1>1. \A r \in RestRequests : ~ Passing(req[r].pc)
  BY DEF Init, NotSent, Passing, Requests
<1>2. \A i, j : PassedIn(req, i, j) = {}
  BY <1>1 DEF PassedIn
<1>3. refills = 0 /\ tokens = 0 /\ limit.burst \in Nat
  BY LifecycleAssumption DEF Init
<1>4. \A i \in 0 .. refills : i = 0 /\ \A j \in i .. refills : j = 0
  BY <1>3
<1>5. \A i, j : IsFiniteSet(PassedIn(req, i, j)) /\ Cardinality(PassedIn(req, i, j)) = 0
  BY <1>2, FS_EmptySet
<1>6. WithinBudget
  BY <1>3, <1>4, <1>5 DEF WithinBudget
<1> QED
  BY <1>1, <1>3, <1>4, <1>5, <1>6 DEF RateInv

\* The passed requests of a period are finitely many.
LEMMA PassedFinite ==
    ASSUME LifecycleTypeOK, RateInv, NEW i \in Nat, NEW j \in Nat, j <= refills
    PROVE  IsFiniteSet(PassedIn(req, i, j)) /\ Cardinality(PassedIn(req, i, j)) \in Nat
<1>1. refills \in Nat
  BY LifecycleAssumption DEF LifecycleTypeOK
<1>2. i .. j \subseteq 0 .. refills
  BY <1>1
<1>3. PassedIn(req, i, j) \subseteq PassedIn(req, 0, refills)
  BY <1>2 DEF PassedIn
<1> QED
  BY <1>3, FS_Subset, FS_CardinalityType DEF RateInv

\* Every step keeps the account: who passes takes a token, and time brings one.
LEMMA RateStep ==
    ASSUME LifecycleInv, RateInv, [Next]_vars
    PROVE  RateInv'
<1>1. /\ tokens \in Nat /\ refills \in Nat /\ limit.burst \in Nat /\ tokens <= limit.burst
      /\ req \in [Requests -> RequestState]
  BY LifecycleAssumption DEF LifecycleInv, LifecycleTypeOK, RequestState
<1>2. \A r \in RestRequests : req[r].at \in Nat
  BY <1>1, LifecycleAssumption DEF RequestState, Requests
<1>3. \A i, j \in Nat : j <= refills =>
          IsFiniteSet(PassedIn(req, i, j)) /\ Cardinality(PassedIn(req, i, j)) \in Nat
  BY PassedFinite DEF LifecycleInv
<1>4. CASE NobodyPasses
  <2>1. \A i, j : PassedIn(req', i, j) = PassedIn(req, i, j)
    BY <1>4 DEF NobodyPasses, PassedIn
  <2>2. limit' = limit /\ refills' = refills /\ tokens' \in Nat /\ tokens' <= tokens
    BY <1>1, <1>4 DEF NobodyPasses
  <2>3. \A r \in RestRequests : Passing(req'[r].pc) => req'[r].at <= refills
    BY <1>4 DEF NobodyPasses, RateInv
  <2>4. WithinBudget'
    <3> SUFFICES ASSUME NEW i \in 0 .. refills'
                 PROVE  Cardinality(PassedIn(req', i, refills')) + tokens' <= limit'.burst + (refills' - i)
      BY DEF WithinBudget
    <3> DEFINE n == Cardinality(PassedIn(req, i, refills))
    <3>1. Cardinality(PassedIn(req', i, refills')) = n /\ i \in 0 .. refills
      BY <2>1, <2>2
    <3>2. n + tokens <= limit.burst + (refills - i)
      BY <3>1 DEF RateInv, WithinBudget
    <3>3. n \in Nat /\ i \in Nat
      BY <1>1, <1>3, <3>1
    <3> HIDE DEF n
    <3>4. n + tokens' <= limit.burst + (refills - i)
      BY <1>1, <2>2, <3>2, <3>3
    <3> QED
      BY <2>2, <3>1, <3>4
  <2> QED
    BY <2>1, <2>2, <2>3, <2>4 DEF RateInv
<1>5. CASE BucketFilled
  <2>1. \A r \in RestRequests : ~ Passing(req[r].pc)
    BY <1>5 DEF BucketFilled, LifecycleInv, NothingEarly, Startup, NotSent, Passing, Requests
  <2>2. \A i, j : PassedIn(req, i, j) = {} /\ PassedIn(req', i, j) = {}
    BY <1>5, <2>1 DEF BucketFilled, PassedIn
  <2>3. limit' = limit /\ refills' = refills /\ tokens' = limit.burst /\ req' = req
    BY <1>5 DEF BucketFilled
  <2>4. WithinBudget'
    BY <1>1, <2>2, <2>3, FS_EmptySet DEF WithinBudget
  <2> QED
    BY <2>2, <2>3, <2>4 DEF RateInv
<1>6. CASE TokenComes
  <2>1. /\ limit' = limit /\ refills' = refills + 1 /\ req' = req
        /\ tokens' \in Nat /\ tokens' <= tokens + 1 /\ tokens' <= limit.burst
    BY <1>1, <1>6 DEF TokenComes
  <2>2. \A i, j : PassedIn(req', i, j) = PassedIn(req, i, j)
    BY <2>1 DEF PassedIn
  <2>3. ASSUME NEW i \in 0 .. refills PROVE PassedIn(req, i, refills + 1) = PassedIn(req, i, refills)
    BY <1>1, <1>2 DEF PassedIn, RateInv
  <2>4. PassedIn(req, refills + 1, refills + 1) = {}
    BY <1>1, <1>2 DEF PassedIn, RateInv
  <2>5. IsFiniteSet(PassedIn(req', 0, refills'))
    <3>1. 0 \in 0 .. refills
      BY <1>1
    <3>2. PassedIn(req', 0, refills') = PassedIn(req, 0, refills)
      BY <2>1, <2>3, <3>1
    <3> QED
      BY <3>2 DEF RateInv
  <2>6. ASSUME NEW i \in 0 .. refills + 1
        PROVE  Cardinality(PassedIn(req, i, refills + 1)) + tokens' <= limit.burst + (refills + 1 - i)
    <3>1. CASE i \in 0 .. refills
      <4> DEFINE n == Cardinality(PassedIn(req, i, refills))
      <4>1. n + tokens <= limit.burst + (refills - i)
        BY <3>1 DEF RateInv, WithinBudget
      <4>2. Cardinality(PassedIn(req, i, refills + 1)) = n
        BY <2>3, <3>1
      <4>3. n \in Nat /\ i \in Nat
        BY <1>1, <1>3, <3>1
      <4> HIDE DEF n
      <4>4. n + tokens' <= limit.burst + (refills + 1 - i)
        BY <1>1, <2>1, <4>1, <4>3
      <4> QED
        BY <4>2, <4>4
    <3>2. CASE i = refills + 1
      BY <1>1, <2>1, <2>4, <3>2, FS_EmptySet
    <3> QED
      BY <1>1, <3>1, <3>2
  <2>7. ASSUME NEW i \in 0 .. refills + 1, NEW j \in i .. refills + 1
        PROVE  Cardinality(PassedIn(req, i, j)) <= limit.burst + (j - i)
    <3>1. CASE j <= refills
      BY <1>1, <3>1 DEF RateInv
    <3>2. CASE j = refills + 1
      <4>1. Cardinality(PassedIn(req, i, refills + 1)) \in Nat
        <5>1. CASE i \in 0 .. refills
          BY <1>1, <1>3, <2>3, <5>1
        <5>2. CASE i = refills + 1
          BY <2>4, <5>2, FS_EmptySet
        <5> QED
          BY <1>1, <5>1, <5>2
      <4> QED
        BY <1>1, <2>1, <2>6, <3>2, <4>1
    <3> QED
      BY <1>1, <3>1, <3>2
  <2>8. \A r \in RestRequests : Passing(req[r].pc) => req[r].at <= refills + 1
    BY <1>1, <1>2 DEF RateInv
  <2>9. WithinBudget'
    <3> SUFFICES ASSUME NEW i \in 0 .. refills'
                 PROVE  Cardinality(PassedIn(req', i, refills')) + tokens' <= limit'.burst + (refills' - i)
      BY DEF WithinBudget
    <3>1. refills' = refills + 1 /\ limit'.burst = limit.burst
      BY <2>1
    <3>2. PassedIn(req', i, refills') = PassedIn(req, i, refills + 1)
      BY <2>1
    <3>3. i \in 0 .. refills + 1
      BY <3>1
    <3>4. Cardinality(PassedIn(req, i, refills + 1)) + tokens' <= limit.burst + (refills + 1 - i)
      BY <2>6, <3>3
    <3> QED
      BY <1>1, <2>1, <3>1, <3>2, <3>4
  <2> QED
    BY <2>1, <2>5, <2>7, <2>8, <2>9 DEF RateInv
<1>7. ASSUME NEW r \in RestRequests, Passes(r) PROVE RateInv'
  <2>1. /\ limit' = limit /\ refills' = refills /\ tokens' = tokens - 1 /\ tokens >= 1
        /\ ~ Passing(req[r].pc) /\ Passing(req'[r].pc) /\ req'[r].at = refills
    BY <1>7 DEF Passes
  <2>2. \A q \in RestRequests : q # r => req'[q] = req[q]
    BY <1>7 DEF Passes
  <2>3. ASSUME NEW i \in 0 .. refills
        PROVE  PassedIn(req', i, refills) = PassedIn(req, i, refills) \cup {r} /\ r \notin PassedIn(req, i, refills)
    BY <1>1, <1>2, <2>1, <2>2 DEF PassedIn
  <2>4. ASSUME NEW i \in 0 .. refills, NEW j \in i .. refills, j # refills
        PROVE  PassedIn(req', i, j) = PassedIn(req, i, j)
    BY <1>1, <1>2, <2>1, <2>2, <2>4 DEF PassedIn
  <2>5. ASSUME NEW i \in 0 .. refills
        PROVE  /\ IsFiniteSet(PassedIn(req', i, refills))
               /\ Cardinality(PassedIn(req', i, refills)) = Cardinality(PassedIn(req, i, refills)) + 1
    <3>1. IsFiniteSet(PassedIn(req, i, refills))
      BY <1>1, <1>3
    <3> QED
      BY <2>3, <3>1, FS_AddElement
  <2>6. ASSUME NEW i \in 0 .. refills
        PROVE  Cardinality(PassedIn(req', i, refills)) + tokens' <= limit.burst + (refills - i)
    <3>1. Cardinality(PassedIn(req, i, refills)) + tokens <= limit.burst + (refills - i)
      BY DEF RateInv, WithinBudget
    <3>2. Cardinality(PassedIn(req, i, refills)) \in Nat
      BY <1>1, <1>3
    <3> QED
      BY <1>1, <2>1, <2>5, <3>1, <3>2
  <2>7. ASSUME NEW i \in 0 .. refills, NEW j \in i .. refills
        PROVE  Cardinality(PassedIn(req', i, j)) <= limit.burst + (j - i)
    <3>1. CASE j = refills
      <4>1. Cardinality(PassedIn(req', i, refills)) \in Nat
        BY <2>5, FS_CardinalityType
      <4> QED
        BY <1>1, <2>1, <2>6, <3>1, <4>1
    <3>2. CASE j # refills
      BY <2>4, <3>2 DEF RateInv
    <3> QED
      BY <3>1, <3>2
  <2>8. \A q \in RestRequests : Passing(req'[q].pc) => req'[q].at <= refills
    BY <1>1, <2>1, <2>2 DEF RateInv
  <2>9. IsFiniteSet(PassedIn(req', 0, refills))
    BY <1>1, <2>5
  <2> QED
    BY <2>1, <2>6, <2>7, <2>8, <2>9 DEF RateInv, WithinBudget
<1> QED
  BY <1>4, <1>5, <1>6, <1>7, RateShapes DEF RateShape, LifecycleInv

\* In any period the limiter lets pass at most the burst and the tokens that
\* came in during it, however the requests are spread over it.
THEOREM TheRateIsBounded == Spec => []RateIsBounded
<1>1. RateInv => RateIsBounded
  BY DEF RateInv, RateIsBounded, PassedIn, Passing
<1>2. LifecycleInv /\ RateInv /\ [Next]_vars => RateInv'
  BY RateStep
<1> QED
  BY <1>1, <1>2, RateInit, Invariance, PTL DEF Spec
=============================================================================
