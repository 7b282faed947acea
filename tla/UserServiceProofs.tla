-------------------------- MODULE UserServiceProofs --------------------------
(***************************************************************************)
(* What the replies and the events of user.Service tell about the table,   *)
(* proved on top of what the calls of the repository tell: UserService     *)
(* moves the activations of CachedRepository with the service's own.       *)
(***************************************************************************)
EXTENDS UserService, RepositoryHistoryProofs

USE DEF IdKey, EmailKey, NickKey

-----------------------------------------------------------------------------
(* The inductive invariant *)

ServicePoints == Waits \cup {"idle", "replied", "lost"}

ServiceActivation == [pc    : ServicePoints,
                      op    : Operations \cup {"none"},
                      id    : Ids \cup {NoUser},
                      patch : Patch,
                      user  : User \cup {NoUser},
                      reply : Replies]

Event == [type : {"created", "updated", "deleted"}, user : User, by : Requests]

ServiceTypes == svc \in [Requests -> ServiceActivation] /\ events \subseteq Event

\* The request was, or is about to be, answered with success.
Settled(s) == s.pc = "publish" \/ (s.pc = "replied" /\ s.reply = "ok")

\* At this point the method waits for this call, on behalf of this kind of request.
Awaits(s, a, wait, op, fn) == s.pc = wait => s.op = op /\ a.fn = fn

\* The point of the service method tells which repository call it waits for.
Calls(s, a) ==
    /\ s.pc \in {"idle", "replied", "lost", "publish"} => a = NoCall
    /\ Awaits(s, a, "email_check", "create", "GetByEmail")
    /\ Awaits(s, a, "nickname_check", "create", "GetByNickname")
    /\ Awaits(s, a, "create", "create", "Create")
    /\ Awaits(s, a, "get", "get", "GetByID")
    /\ Awaits(s, a, "load", "update", "GetByID")
    /\ Awaits(s, a, "update_email_check", "update", "GetByEmail")
    /\ Awaits(s, a, "update", "update", "Update")
    /\ Awaits(s, a, "delete_load", "delete", "GetByID")
    /\ Awaits(s, a, "delete", "delete", "Delete")

\* How the activation s of a service method and the activation a of its current
\* repository call belong together.
Serves(s, a, r) ==
    /\ Calls(s, a)
    /\ s.pc = "publish" => s.op \in {"create", "update", "delete"}
    /\ s.pc \in Waits => s.id \in Ids /\ s.reply = "ok"
    /\ s.pc \in {"create", "update"} => a.user = s.user
    /\ s.pc \in {"email_check", "nickname_check", "create"} => s.user.updated = r
    /\ s.pc \in {"email_check", "nickname_check", "create", "update_email_check",
                 "update", "delete"} \/ Settled(s) => s.user \in User /\ s.user.id = s.id
    /\ s.pc = "update_email_check" => s.patch.email \in Emails
    /\ a.fn \in {"GetByID"} \cup Writes => a.key = IdKey(s.id)
    /\ \A i \in Ids : a.key = IdKey(i) => i = s.id

\* The request has written nothing, and knows it.
Unwriting(s) ==
    \/ s.pc \in {"idle", "email_check", "nickname_check", "load", "update_email_check",
                 "delete_load"}
    \/ s.pc = "replied" /\ s.reply \in {"email_taken", "nickname_taken"}

\* What the table was and is, as the point of a service method tells.
Knows(s, r) ==
    /\ Unwriting(s) => \A u \in committed : u.updated # r
    /\ Settled(s) /\ s.op \in {"create", "update"} => [s.user EXCEPT !.updated = r] \in committed
    /\ Settled(s) /\ s.op = "delete" => ~ HasId(users, s.id)
    /\ s.pc = "replied" /\ s.reply = "not_found" => ~ HasId(users, s.id)

\* An id that was drawn for a user yet to be inserted is known to its request only.
Reserves(s, a) == s.pc \in {"email_check", "nickname_check"} \/ a.pc = "insert"

ReservedIds ==
    \A r \in Requests : Reserves(svc[r], call[r]) =>
        /\ ~ HasId(committed, svc[r].id)
        /\ \A q \in Requests : svc[q].id = svc[r].id => q = r

\* A user is deleted by one request at most.
Removed(s, a) == Deleted(a) \/ (Settled(s) /\ s.op = "delete")

OneRemover ==
    \A r, q \in Requests :
        Removed(svc[r], call[r]) /\ Removed(svc[q], call[q]) /\ svc[r].id = svc[q].id => q = r

\* An event repeats what its request has replied.
Repeats(e, s) ==
    /\ s.pc = "replied" /\ s.reply = "ok"
    /\ s.op \in {"create", "update", "delete"}
    /\ e.type = EventType[s.op] /\ e.user = Sanitize(s.user)

\* Nothing was published but what repeats a reply.
EventsRepeat == \A e \in events : Repeats(e, svc[e.by])

RepositoryInv == TypeInv /\ DataInv /\ HistoryInv

\* What holds of the service, its repository and the events together.
ServiceInv ==
    /\ RepositoryInv /\ ServiceTypes
    /\ \A r \in Requests : Serves(svc[r], call[r], r) /\ Knows(svc[r], r)
    /\ ReservedIds /\ OneRemover /\ EventsRepeat

-----------------------------------------------------------------------------
(* One request moves on in the service *)

\* Which call a request has under way tells where its service method is.
LEMMA CallTellsPoint ==
    ASSUME NEW s \in ServiceActivation, NEW a, Calls(s, a)
    PROVE  /\ a.fn = "Create" <=> s.pc = "create"
           /\ a.fn = "Update" <=> s.pc = "update"
           /\ a.fn = "Delete" <=> s.pc = "delete"
           /\ a.fn = "GetByID" <=> s.pc \in {"get", "load", "delete_load"}
           /\ a.fn = "none" <=> s.pc \in {"idle", "replied", "lost", "publish"}
<1>1. s.pc \in ServicePoints
  BY DEF ServiceActivation
<1>2. /\ s.pc \in {"idle", "replied", "lost", "publish"} => a.fn = "none"
      /\ s.pc = "email_check" => a.fn = "GetByEmail"
      /\ s.pc = "nickname_check" => a.fn = "GetByNickname"
      /\ s.pc = "create" => a.fn = "Create"
      /\ s.pc = "get" => a.fn = "GetByID"
      /\ s.pc = "load" => a.fn = "GetByID"
      /\ s.pc = "update_email_check" => a.fn = "GetByEmail"
      /\ s.pc = "update" => a.fn = "Update"
      /\ s.pc = "delete_load" => a.fn = "GetByID"
      /\ s.pc = "delete" => a.fn = "Delete"
  BY DEF Calls, Awaits, NoCall
<1> HIDE DEF Calls
<1> QED
  BY <1>1, <1>2 DEF ServicePoints, Waits

\* The service moves request r to s, with a as its repository call: if that keeps
\* what s and a must tell of each other and of the table, reserves no id but a
\* new one, and removes no user, then the other requests are not disturbed.
LEMMA MoveKeeps ==
    ASSUME ServiceInv, RepositoryInv', UNCHANGED <<users, committed>>,
           NEW r \in Requests, NEW s \in ServiceActivation, NEW a,
           svc' = [svc EXCEPT ![r] = s],
           call'[r] = a, \A q \in Requests : q # r => call'[q] = call[q],
           Serves(s, a, r), Knows(s, r),
           \/ s.id = svc[r].id /\ (Reserves(s, a) => Reserves(svc[r], call[r]))
           \/ /\ \A q \in Requests : Reserves(svc[q], call[q]) => q # r /\ svc[q].id # s.id
              /\ Reserves(s, a) => ~ HasId(committed, s.id)
                                   /\ \A q \in Requests : svc[q].id # s.id,
           Removed(s, a) => s.id = svc[r].id /\ Removed(svc[r], call[r]),
           svc[r].pc # "replied",
           events' \subseteq Event,
           \A e \in events' : e \in events \/ (e.by = r /\ Repeats(e, s))
    PROVE  ServiceInv'
<1>1. svc \in [Requests -> ServiceActivation]
  BY DEF ServiceInv, ServiceTypes
<1>2. svc'[r] = s /\ \A q \in Requests : q # r => svc'[q] = svc[q]
  BY <1>1
<1>3. ServiceTypes'
  BY <1>1 DEF ServiceTypes
<1>4. ASSUME NEW q \in Requests PROVE (Serves(svc[q], call[q], q) /\ Knows(svc[q], q))'
  <2>1. CASE q = r
    BY <1>2, <2>1 DEF Serves, Knows
  <2>2. CASE q # r
    BY <1>2, <2>2 DEF ServiceInv, Serves, Knows
  <2> QED
    BY <2>1, <2>2
<1>5. ReservedIds'
  <2>1. \A q \in Requests : Reserves(svc[q], call[q]) =>
           /\ ~ HasId(committed, svc[q].id)
           /\ \A p \in Requests : svc[p].id = svc[q].id => p = q
    BY DEF ServiceInv, ReservedIds
  <2> SUFFICES ASSUME NEW q \in Requests, Reserves(svc'[q], call'[q])
               PROVE  /\ ~ HasId(committed, svc'[q].id)
                      /\ \A p \in Requests : svc'[p].id = svc'[q].id => p = q
    BY DEF ReservedIds
  <2>2. CASE q = r
    BY <1>2, <2>1, <2>2
  <2>3. CASE q # r
    BY <1>2, <2>1, <2>3
  <2> QED
    BY <2>2, <2>3
<1>6. OneRemover'
  <2> SUFFICES ASSUME NEW p \in Requests, NEW q \in Requests,
                      Removed(svc'[p], call'[p]), Removed(svc'[q], call'[q]),
                      svc'[p].id = svc'[q].id
               PROVE  q = p
    BY DEF OneRemover
  <2>1. \A z \in {p, q} : Removed(svc[z], call[z]) /\ svc'[z].id = svc[z].id
    BY <1>2
  <2> QED
    BY <2>1 DEF ServiceInv, OneRemover
<1>7. EventsRepeat'
  <2> SUFFICES ASSUME NEW e \in events' PROVE Repeats(e, svc'[e.by])
    BY DEF EventsRepeat
  <2>1. CASE e \in events
    <3>1. Repeats(e, svc[e.by]) /\ e.by \in Requests
      BY <2>1 DEF ServiceInv, EventsRepeat, ServiceTypes, Event
    <3>2. e.by # r
      BY <3>1 DEF Repeats
    <3> QED
      BY <1>2, <3>1, <3>2
  <2>2. CASE e.by = r /\ Repeats(e, s)
    BY <1>2, <2>2
  <2> QED
    BY <2>1, <2>2
<1> QED
  BY <1>3, <1>4, <1>5, <1>6, <1>7 DEF ServiceInv

-----------------------------------------------------------------------------
(* Its call ends or begins *)

\* The method takes the result of its call: what the repository knows stays true.
LEMMA CallEnds ==
    ASSUME RepositoryInv, NEW r \in Requests, call' = [call EXCEPT ![r] = NoCall],
           UNCHANGED <<users, redis, committed>>
    PROVE  /\ RepositoryInv'
           /\ call'[r] = NoCall /\ \A q \in Requests : q # r => call'[q] = call[q]
<1>1. TypeInv /\ DataInv /\ HistoryInv /\ call \in [Requests -> Activation]
  BY DEF RepositoryInv, TypeInv, TypeOK
<1>2. /\ NoCall.pc = "idle" /\ NoCall.fn = "none" /\ NoCall.key = NoKey
      /\ NoCall \in Activation
  BY DEF NoCall, Activation, Points, Running, Errors
<1>3. CarriesStored(NoCall, committed')
  BY <1>2 DEF CarriesStored
<1>4. call'[r] = NoCall /\ \A q \in Requests : q # r => call'[q] = call[q]
  BY <1>1
<1>5. call' \in [Requests -> Activation] /\ WellFormed'
  BY <1>1, <1>2, CallShape
<1>6. TypeInv'
  BY <1>1, <1>5 DEF TypeInv, TypeOK
<1>7. \A q \in Requests : CarriesStored(call'[q], committed')
  BY <1>1, <1>3, CarryStep
<1>8. DataInv'
  BY <1>1, <1>7, QuietData
<1>9. HistoryInv'
  BY <1>1, <1>2, <1>4, EndHistory
<1> QED
  BY <1>4, <1>6, <1>8, <1>9 DEF RepositoryInv

\* The method makes its next call.
LEMMA CallBegins ==
    ASSUME RepositoryInv, NEW r \in Requests, NEW fn \in Reads \cup Writes, NEW k \in Keys,
           NEW u \in User \cup {NoUser}, Begin(r, fn, k, u),
           UNCHANGED <<users, redis, committed>>,
           \A v \in committed : v.updated # r,
           fn \in {"Create", "Update"} => u \in User /\ k = IdKey(u.id),
           fn \in {"GetByID"} \cup Writes => \E i \in Ids : k = IdKey(i),
           fn = "Create" => u.updated = r /\ ~ HasId(committed, u.id)
                            /\ \A q \in Requests : q # r => call[q].key # k,
           \A q \in Requests : q # r /\ At(q, "insert") => call[q].key # k
    PROVE  /\ RepositoryInv'
           /\ \E a : /\ call'[r] = a
                     /\ a.fn = fn /\ a.key = k /\ a.user = u
                     /\ a.pc \in {"lookup", "insert", "load"}
                     /\ a.pc = "insert" => fn = "Create"
           /\ \A q \in Requests : q # r => call'[q] = call[q]
<1>1. TypeInv /\ DataInv /\ HistoryInv /\ call \in [Requests -> Activation]
  BY DEF RepositoryInv, TypeInv, TypeOK
<1>2. call' \in [Requests -> Activation] /\ WellFormed'
  BY <1>1, BeginShape
<1>3. TypeInv'
  BY <1>1, <1>2 DEF TypeInv, TypeOK
<1>4. DataInv'
  BY <1>1, BeginData
<1>5. HistoryInv'
  BY <1>1, BeginHistory
<1>6. /\ Called(fn, k, u).fn = fn /\ Called(fn, k, u).key = k /\ Called(fn, k, u).user = u
      /\ Called(fn, k, u).pc \in {"lookup", "insert", "load"}
      /\ Called(fn, k, u).pc = "insert" => fn = "Create"
  BY DEF Called, Entry, Reads, Writes
<1>7. call'[r] = Called(fn, k, u) /\ \A q \in Requests : q # r => call'[q] = call[q]
  BY <1>1 DEF Begin
<1> QED
  BY <1>3, <1>4, <1>5, <1>6, <1>7 DEF RepositoryInv

\* The method replies: with success only for a lookup, with a conflict only if
\* nothing was written, and with "not found" only if the user is not there.
LEMMA ReplyKeeps ==
    ASSUME ServiceInv, NEW r \in Requests, NEW u \in User \cup {NoUser}, NEW e \in Replies,
           svc[r].pc \in Waits, Reply(r, u, e),
           e = "ok" => svc[r].op = "get" /\ u \in User /\ u.id = svc[r].id,
           e \in {"email_taken", "nickname_taken"} => \A v \in committed : v.updated # r,
           e = "not_found" => ~ HasId(users, svc[r].id)
    PROVE  ServiceInv'
<1> DEFINE b == [svc[r] EXCEPT !.pc = "replied"]
           c == [b EXCEPT !.patch = EmptyPatch]
           d == [c EXCEPT !.user = u]
           s == [d EXCEPT !.reply = e]
<1>1. svc[r] \in ServiceActivation /\ events \subseteq Event
  BY DEF ServiceInv, ServiceTypes
<1>2. b \in ServiceActivation /\ b.pc = "replied" /\ b.op = svc[r].op /\ b.id = svc[r].id
  BY <1>1 DEF ServiceActivation, ServicePoints
<1> HIDE DEF b
<1>3. EmptyPatch \in Patch
  BY DEF EmptyPatch, Patch
<1>4. c \in ServiceActivation /\ c.pc = "replied" /\ c.op = svc[r].op /\ c.id = svc[r].id
  BY <1>2, <1>3 DEF ServiceActivation
<1> HIDE DEF c
<1>5. /\ d \in ServiceActivation /\ d.pc = "replied" /\ d.op = svc[r].op /\ d.id = svc[r].id
      /\ d.user = u
  BY <1>4 DEF ServiceActivation
<1> HIDE DEF d
<1>6. /\ s \in ServiceActivation /\ s.pc = "replied" /\ s.op = svc[r].op /\ s.id = svc[r].id
      /\ s.user = u /\ s.reply = e
  BY <1>5 DEF ServiceActivation
<1>7. svc' = [svc EXCEPT ![r] = s]
  BY <1>1 DEF Reply, b, c, d, ServiceActivation
<1> HIDE DEF s
<1>8. RepositoryInv' /\ call'[r] = NoCall /\ \A q \in Requests : q # r => call'[q] = call[q]
  BY CallEnds DEF Reply, ServiceInv
<1>9. Serves(s, NoCall, r)
  BY <1>6 DEF Serves, Calls, Awaits, Settled, NoCall, NoKey, Waits, Writes
<1>10. Knows(s, r)
  BY <1>6 DEF Knows, Unwriting, Settled
<1>11. ~ Reserves(s, NoCall) /\ ~ Removed(s, NoCall)
  BY <1>6 DEF Reserves, Removed, Settled, Deleted, NoCall
<1>12. svc[r].pc # "replied" /\ UNCHANGED <<users, committed, events>>
  BY DEF Waits, Reply
<1> QED
  BY <1>1, <1>6, <1>7, <1>8, <1>9, <1>10, <1>11, <1>12, MoveKeeps

\* What a request can tell of its repository call and of the table, taken together.
LEMMA Together ==
    ASSUME ServiceInv, NEW r \in Requests
    PROVE  /\ svc[r] \in ServiceActivation /\ call[r] \in Activation
           /\ Serves(svc[r], call[r], r) /\ Knows(svc[r], r) /\ Tells(call[r], r)
           /\ CarriesStored(call[r], committed)
           /\ users \subseteq User /\ committed \subseteq User
BY DEF ServiceInv, ServiceTypes, RepositoryInv, TypeInv, TypeOK, DataInv, HistoryInv

\* A method that fails reports a missing user or a conflict only if its call does.
LEMMA FailKeeps ==
    ASSUME ServiceInv, NEW r \in Requests, Fail(r), At(r, "done"),
           svc[r].pc \in {"create", "get", "load", "update", "delete_load", "delete"}
    PROVE  ServiceInv'
<1> DEFINE a == call[r]
           s == svc[r]
<1>1. /\ s \in ServiceActivation /\ a \in Activation /\ Serves(s, a, r) /\ Tells(a, r)
      /\ a.pc = "done"
  BY Together DEF At
<1>2. /\ a.fn = "Create" <=> s.pc = "create"
      /\ a.fn \in {"GetByID"} \cup Writes
      /\ s.id \in Ids /\ a.key = IdKey(s.id)
  BY <1>1, CallTellsPoint DEF Serves, Waits, Writes
<1>3. AsReply(a.err) \in Replies \ {"ok"} /\ Reply(r, NoUser, AsReply(a.err))
  BY DEF Fail, Succeeded, AsReply, Replies
<1>4. ASSUME AsReply(a.err) \in {"email_taken", "nickname_taken"}
      PROVE  \A v \in committed : v.updated # r
  <2>1. a.err \in {"email_taken", "nickname_taken"}
    BY <1>4 DEF AsReply
  <2> QED
    BY <1>1, <2>1 DEF Tells, Unwritten
<1>5. ASSUME AsReply(a.err) = "not_found" PROVE ~ HasId(users, s.id)
  <2>1. a.err = "not_found"
    BY <1>5 DEF AsReply
  <2> QED
    BY <1>1, <1>2, <2>1 DEF Tells, Missed
<1>6. s.pc \in Waits
  BY DEF Waits
<1> HIDE DEF a, s
<1> QED
  BY <1>3, <1>4, <1>5, <1>6, ReplyKeeps DEF a, s

\* A method whose write succeeded goes on to announce it.
LEMMA AnnounceKeeps ==
    ASSUME ServiceInv, NEW r \in Requests, At(r, "done"), Succeeded(r),
           svc[r].pc \in {"create", "update", "delete"}, ThenPublish(r, svc[r].user)
    PROVE  ServiceInv'
<1> DEFINE b == [svc[r] EXCEPT !.pc = "publish"]
           c == [b EXCEPT !.patch = EmptyPatch]
           s == [c EXCEPT !.user = svc[r].user]
<1>1. /\ svc[r] \in ServiceActivation /\ events \subseteq Event
      /\ Serves(svc[r], call[r], r) /\ Tells(call[r], r)
  BY Together DEF ServiceInv, ServiceTypes
<1>2. /\ b \in ServiceActivation /\ b.pc = "publish" /\ b.op = svc[r].op /\ b.id = svc[r].id
      /\ b.reply = svc[r].reply
  BY <1>1 DEF ServiceActivation, ServicePoints, Waits
<1> HIDE DEF b
<1>3. EmptyPatch \in Patch
  BY DEF EmptyPatch, Patch
<1>4. /\ c \in ServiceActivation /\ c.pc = "publish" /\ c.op = svc[r].op /\ c.id = svc[r].id
      /\ c.reply = svc[r].reply
  BY <1>2, <1>3 DEF ServiceActivation
<1> HIDE DEF c
<1>5. svc[r].user \in User \cup {NoUser}
  BY <1>1 DEF ServiceActivation
<1>6. /\ s \in ServiceActivation /\ s.pc = "publish" /\ s.op = svc[r].op /\ s.id = svc[r].id
      /\ s.user = svc[r].user /\ s.reply = svc[r].reply
  BY <1>4, <1>5 DEF ServiceActivation
<1>7. svc' = [svc EXCEPT ![r] = s]
  BY <1>1 DEF ThenPublish, b, c, ServiceActivation
<1> HIDE DEF s
<1>8. RepositoryInv' /\ call'[r] = NoCall /\ \A q \in Requests : q # r => call'[q] = call[q]
  BY CallEnds DEF ThenPublish, ServiceInv
<1>9. /\ call[r].pc = "done" /\ call[r].err = "ok"
      /\ svc[r].op = svc[r].pc /\ svc[r].id \in Ids /\ svc[r].reply = "ok"
      /\ svc[r].pc = "create" => call[r].fn = "Create"
      /\ svc[r].pc = "update" => call[r].fn = "Update"
      /\ svc[r].pc = "delete" => call[r].fn = "Delete"
      /\ svc[r].pc \in {"create", "update"} => call[r].user = svc[r].user
      /\ svc[r].user \in User /\ svc[r].user.id = svc[r].id
      /\ call[r].key = IdKey(svc[r].id)
  BY <1>1 DEF At, Succeeded, Serves, Calls, Awaits, Waits, Writes
<1>10. Serves(s, NoCall, r)
  BY <1>6, <1>9 DEF Serves, Calls, Awaits, Settled, NoCall, NoKey, Waits, Writes
<1>11. Knows(s, r)
  <2>1. svc[r].pc \in {"create", "update"} => [svc[r].user EXCEPT !.updated = r] \in committed
    <3>1. svc[r].pc \in {"create", "update"} => Written(call[r])
      BY <1>9 DEF Written
    <3> QED
      BY <1>1, <1>9, <3>1 DEF Tells
  <2>2. svc[r].pc = "delete" => ~ HasId(users, svc[r].id)
    <3>1. svc[r].pc = "delete" => Deleted(call[r])
      BY <1>9 DEF Deleted
    <3> QED
      BY <1>1, <1>9, <3>1 DEF Tells
  <2> QED
    BY <1>6, <1>9, <2>1, <2>2 DEF Knows, Unwriting
<1>12. ~ Reserves(s, NoCall) /\ (Removed(s, NoCall) => Removed(svc[r], call[r]))
  BY <1>6, <1>9 DEF Reserves, Removed, Deleted, NoCall
<1>13. UNCHANGED <<users, committed, events>>
  BY DEF ThenPublish
<1> QED
  BY <1>1, <1>6, <1>7, <1>8, <1>10, <1>11, <1>12, <1>13, MoveKeeps

\* The calls a method may make next, by what it waits for and on whose behalf.
NextCalls == {<<"nickname_check", "create", "GetByNickname">>,
              <<"create", "create", "Create">>,
              <<"update_email_check", "update", "GetByEmail">>,
              <<"update", "update", "Update">>,
              <<"delete", "delete", "Delete">>}

\* A method that has written nothing goes on with another call.
LEMMA CallNextKeeps ==
    ASSUME ServiceInv, NEW r \in Requests, NEW wait, NEW u \in User, NEW fn, NEW k \in Keys,
           NEW arg \in User \cup {NoUser}, CallNext(r, wait, u, fn, k, arg),
           svc[r].pc \in Waits, Unwriting(svc[r]), u.id = svc[r].id,
           <<wait, svc[r].op, fn>> \in NextCalls,
           IF fn \in Writes THEN k = IdKey(svc[r].id) ELSE \A i \in Ids : k # IdKey(i),
           wait \in {"create", "update"} => arg = u,
           wait \in {"nickname_check", "create"} =>
              u.updated = r /\ Reserves(svc[r], call[r]),
           wait = "update_email_check" => svc[r].patch.email \in Emails
    PROVE  ServiceInv'
<1> DEFINE b == [svc[r] EXCEPT !.pc = wait]
           s == [b EXCEPT !.user = u]
<1>1. /\ svc[r] \in ServiceActivation /\ events \subseteq Event
      /\ Serves(svc[r], call[r], r) /\ Knows(svc[r], r)
  BY Together DEF ServiceInv, ServiceTypes
<1>2. wait \in ServicePoints /\ fn \in Reads \cup Writes /\ wait \in Waits
  BY DEF NextCalls, ServicePoints, Waits, Reads, Writes
<1>3. /\ b \in ServiceActivation /\ b.pc = wait /\ b.op = svc[r].op /\ b.id = svc[r].id
      /\ b.reply = svc[r].reply /\ b.patch = svc[r].patch
  BY <1>1, <1>2 DEF ServiceActivation
<1> HIDE DEF b
<1>4. /\ s \in ServiceActivation /\ s.pc = wait /\ s.op = svc[r].op /\ s.id = svc[r].id
      /\ s.reply = svc[r].reply /\ s.patch = svc[r].patch /\ s.user = u
  BY <1>3 DEF ServiceActivation
<1>5. svc' = [svc EXCEPT ![r] = s]
  BY <1>1 DEF CallNext, b, ServiceActivation
<1> HIDE DEF s
<1>6. svc[r].id \in Ids /\ svc[r].reply = "ok" /\ \A v \in committed : v.updated # r
  BY <1>1 DEF Serves, Knows
<1>7. \A q \in Requests : q # r => /\ call[q].key = k /\ fn = "Create" => FALSE
                                   /\ At(q, "insert") /\ call[q].key = k => FALSE
  <2> SUFFICES ASSUME NEW q \in Requests, q # r, call[q].key = k
               PROVE  fn # "Create" /\ ~ At(q, "insert")
    OBVIOUS
  <2>1. Serves(svc[q], call[q], q) /\ Tells(call[q], q)
    BY Together
  <2>2. CASE fn \in Writes
    <3>1. svc[q].id = svc[r].id
      BY <1>6, <2>1, <2>2 DEF Serves
    <3>2. ~ Reserves(svc[q], call[q]) /\ ~ Reserves(svc[r], call[r])
      BY <3>1 DEF ServiceInv, ReservedIds
    <3> QED
      BY <3>2 DEF NextCalls, Reserves, At
  <2>3. CASE fn \notin Writes
    <3>1. call[q].fn \notin {"GetByID"} \cup Writes
      BY <2>1, <2>3 DEF Tells
    <3> QED
      BY <2>3, <3>1 DEF ServiceInv, RepositoryInv, TypeInv, WellFormed, Writes
  <2> QED
    BY <2>2, <2>3
<1>8. /\ RepositoryInv'
      /\ \E a : /\ call'[r] = a /\ a.fn = fn /\ a.key = k /\ a.user = arg
                /\ a.pc \in {"lookup", "insert", "load"}
                /\ a.pc = "insert" => fn = "Create"
      /\ \A q \in Requests : q # r => call'[q] = call[q]
  <2>1. RepositoryInv /\ Begin(r, fn, k, arg) /\ UNCHANGED <<users, redis, committed>>
    BY DEF ServiceInv, CallNext
  <2>2. fn \in {"Create", "Update"} => arg \in User /\ k = IdKey(arg.id)
    BY DEF NextCalls, Writes
  <2>3. fn \in {"GetByID"} \cup Writes => \E i \in Ids : k = IdKey(i)
    BY <1>6 DEF NextCalls, Writes
  <2>4. fn = "Create" => arg.updated = r /\ ~ HasId(committed, arg.id)
    BY DEF NextCalls, ServiceInv, ReservedIds
  <2> QED
    BY <1>2, <1>6, <1>7, <2>1, <2>2, <2>3, <2>4, CallBegins
<1>9. PICK a : /\ call'[r] = a /\ a.fn = fn /\ a.key = k /\ a.user = arg
               /\ a.pc \in {"lookup", "insert", "load"}
               /\ a.pc = "insert" => fn = "Create"
  BY <1>8
<1>10. Calls(s, a)
  BY <1>4, <1>9 DEF NextCalls, Calls, Awaits
<1>11. Serves(s, a, r)
  BY <1>2, <1>4, <1>6, <1>9, <1>10 DEF Serves, Settled, NextCalls, Writes
<1>12. Knows(s, r)
  BY <1>4, <1>6 DEF Knows, Settled, NextCalls
<1>13. (Reserves(s, a) => Reserves(svc[r], call[r])) /\ ~ Removed(s, a)
  BY <1>4, <1>9 DEF Reserves, Removed, Settled, Deleted, NextCalls
<1>14. UNCHANGED <<users, committed, events>> /\ svc[r].pc # "replied"
  BY DEF CallNext, Waits
<1> QED
  BY <1>1, <1>4, <1>5, <1>8, <1>9, <1>11, <1>12, <1>13, <1>14, MoveKeeps

\* The calls a method may start with.
FirstCalls == {<<"email_check", "create", "GetByEmail">>,
               <<"get", "get", "GetByID">>,
               <<"load", "update", "GetByID">>,
               <<"delete_load", "delete", "GetByID">>}

\* A request arrives: it names a user that others may know, or draws a new id.
LEMMA ArriveKeeps ==
    ASSUME ServiceInv, NEW r \in Requests, NEW op, NEW id \in Ids, NEW patch \in Patch, NEW wait,
           NEW u \in User \cup {NoUser}, NEW fn, NEW k \in Keys,
           Arrive(r, op, id, patch, wait, u, fn, k),
           <<wait, op, fn>> \in FirstCalls,
           IF op = "create"
           THEN id \in NewIds /\ u \in User /\ u.id = id /\ u.updated = r
                /\ \A i \in Ids : k # IdKey(i)
           ELSE id \in KnownIds /\ k = IdKey(id)
    PROVE  ServiceInv'
<1> DEFINE s == [pc |-> wait, op |-> op, id |-> id, patch |-> patch, user |-> u, reply |-> "ok"]
<1>1. /\ svc[r] \in ServiceActivation /\ events \subseteq Event
      /\ Serves(svc[r], call[r], r) /\ Knows(svc[r], r)
  BY Together DEF ServiceInv, ServiceTypes
<1>2. wait \in ServicePoints /\ wait \in Waits /\ fn \in Reads /\ fn \notin Writes
  BY DEF FirstCalls, ServicePoints, Waits, Reads, Writes
<1>3. /\ s \in ServiceActivation /\ s.pc = wait /\ s.op = op /\ s.id = id
      /\ s.patch = patch /\ s.user = u /\ s.reply = "ok"
  BY <1>2 DEF ServiceActivation, Arrive, Replies
<1>4. svc' = [svc EXCEPT ![r] = s] /\ svc[r].pc = "idle"
  BY DEF Arrive
<1> HIDE DEF s
<1>5. \A v \in committed : v.updated # r
  BY <1>1, <1>4 DEF Knows, Unwriting
<1>6. \A q \in Requests : Reserves(svc[q], call[q]) => q # r /\ svc[q].id # id
  <2> SUFFICES ASSUME NEW q \in Requests, Reserves(svc[q], call[q])
               PROVE  q # r /\ svc[q].id # id
    OBVIOUS
  <2>1. /\ svc[q] \in ServiceActivation /\ call[q] \in Activation
        /\ Serves(svc[q], call[q], q)
    BY Together
  <2>2. call[q].pc = "insert" => call[q].fn = "Create"
    BY DEF ServiceInv, RepositoryInv, TypeInv, WellFormed, At
  <2>3. svc[q].op = "create" /\ svc[q].pc # "idle"
    BY <2>1, <2>2, CallTellsPoint DEF Reserves, Serves, Calls, Awaits
  <2>4. ~ HasId(committed, svc[q].id)
    BY DEF ServiceInv, ReservedIds
  <2> QED
    BY <1>4, <2>3, <2>4 DEF NewIds, KnownIds
<1>7. \A q \in Requests : q # r /\ At(q, "insert") => call[q].key # k
  <2> SUFFICES ASSUME NEW q \in Requests, At(q, "insert"), call[q].key = k PROVE FALSE
    OBVIOUS
  <2>1. Serves(svc[q], call[q], q) /\ Tells(call[q], q) /\ call[q].fn = "Create"
    BY Together DEF ServiceInv, RepositoryInv, TypeInv, WellFormed
  <2>2. PICK i \in Ids : k = IdKey(i)
    BY <2>1 DEF Tells, Writes
  <2>3. i = id /\ i = svc[q].id
    BY <2>1, <2>2 DEF Serves
  <2> QED
    BY <1>6, <2>3 DEF Reserves, At
<1>8. /\ RepositoryInv'
      /\ \E a : /\ call'[r] = a /\ a.fn = fn /\ a.key = k /\ a.user = NoUser
                /\ a.pc \in {"lookup", "insert", "load"}
                /\ a.pc = "insert" => fn = "Create"
      /\ \A q \in Requests : q # r => call'[q] = call[q]
  <2>1. RepositoryInv /\ Begin(r, fn, k, NoUser) /\ UNCHANGED <<users, redis, committed>>
    BY DEF ServiceInv, Arrive
  <2>2. fn = "GetByID" => \E i \in Ids : k = IdKey(i)
    BY DEF FirstCalls
  <2> QED
    BY <1>2, <1>5, <1>7, <2>1, <2>2, CallBegins DEF Writes
<1>9. PICK a : /\ call'[r] = a /\ a.fn = fn /\ a.key = k /\ a.user = NoUser
               /\ a.pc \in {"lookup", "insert", "load"}
               /\ a.pc = "insert" => fn = "Create"
  BY <1>8
<1>10. Calls(s, a)
  BY <1>3, <1>9 DEF FirstCalls, Calls, Awaits
<1>11. Serves(s, a, r)
  BY <1>2, <1>3, <1>9, <1>10 DEF Serves, Settled, FirstCalls, Writes
<1>12. Knows(s, r)
  BY <1>3, <1>5 DEF Knows, Settled, FirstCalls
<1>13. /\ Reserves(s, a) => ~ HasId(committed, s.id) /\ \A q \in Requests : svc[q].id # s.id
       /\ ~ Removed(s, a)
  BY <1>2, <1>3, <1>9 DEF Reserves, Removed, Settled, Deleted, FirstCalls, NewIds, Writes
<1>14. UNCHANGED <<users, committed, events>>
  BY DEF Arrive
<1> QED
  BY <1>1, <1>3, <1>4, <1>6, <1>8, <1>9, <1>11, <1>12, <1>13, <1>14, MoveKeeps

-----------------------------------------------------------------------------
(* The actions *)

\* A row keeps its id when it is patched, and stays a row.
LEMMA PatchedRow ==
    ASSUME NEW u \in User, NEW patch \in Patch
    PROVE  /\ Patched(u, patch) \in User /\ Patched(u, patch).id = u.id
           /\ OrElse(patch.email, u.email) \in Emails
           /\ OrElse(patch.email, u.email) # u.email => patch.email \in Emails
<1>1. /\ OrElse(patch.nickname, u.nickname) \in Nicknames
      /\ OrElse(patch.profile, u.profile) \in Profiles
      /\ OrElse(patch.email, u.email) \in Emails
      /\ OrElse(patch.email, u.email) # u.email => patch.email \in Emails
  BY DEF OrElse, Patch, User
<1> DEFINE b == [u EXCEPT !.nickname = OrElse(patch.nickname, @)]
           c == [b EXCEPT !.profile = OrElse(patch.profile, @)]
<1>2. b \in User /\ b.id = u.id /\ b.profile = u.profile
  BY <1>1 DEF User
<1>3. Patched(u, patch) = c
  BY DEF Patched, User
<1> HIDE DEF b
<1>4. c \in User /\ c.id = u.id
  BY <1>1, <1>2 DEF User
<1> QED
  BY <1>1, <1>3, <1>4

\* A lookup by id that succeeds answers with a row that has this id.
LEMMA AnswerHasId ==
    ASSUME ServiceInv, NEW r \in Requests, At(r, "done"), Succeeded(r), call[r].fn = "GetByID"
    PROVE  Answered(r) \in User /\ Answered(r).id = svc[r].id
<1> DEFINE u == call[r].user
<1>1. u \in User /\ call[r].key = IdKey(svc[r].id)
  BY Together DEF At, Succeeded, CarriesStored, Reads, Serves
<1>2. PICK v \in committed : call[r].key \in KeySet(v) /\ Sanitize(u) = Sanitize(v)
  BY Together DEF At, Succeeded, CarriesStored, Reads
<1>3. v \in User
  BY Together
<1>4. v.id = svc[r].id
  BY <1>1, <1>2, <1>3, RowsById DEF RowsUnder
<1>5. u.id = Sanitize(u).id /\ v.id = Sanitize(v).id
  BY <1>1, <1>3 DEF Sanitize, User
<1> QED
  BY <1>1, <1>2, <1>4, <1>5 DEF Answered

\* Every request that arrives, or that bcrypt refuses.
LEMMA RequestKeeps ==
    ASSUME ServiceInv, NEW r \in Requests, Request(r)
    PROVE  ServiceInv'
<1>1. ASSUME StartCreate(r) PROVE ServiceInv'
  <2>1. PICK i \in NewIds, e \in Emails, n \in Nicknames, p \in Profiles :
           Arrive(r, "create", i, EmptyPatch, "email_check",
                  [id |-> i, email |-> e, nickname |-> n, profile |-> p,
                   password |-> "hash", updated |-> r], "GetByEmail", EmailKey(e))
    BY <1>1 DEF StartCreate
  <2> DEFINE u == [id |-> i, email |-> e, nickname |-> n, profile |-> p,
                   password |-> "hash", updated |-> r]
  <2>2. u \in User /\ u.id = i /\ u.updated = r
    BY DEF User, NewIds
  <2> HIDE DEF u
  <2>3. EmptyPatch \in Patch /\ EmailKey(e) \in Keys /\ i \in Ids
    BY DEF EmptyPatch, Patch, Keys, NewIds
  <2>4. \A j \in Ids : EmailKey(e) # IdKey(j)
    OBVIOUS
  <2>5. <<"email_check", "create", "GetByEmail">> \in FirstCalls
    BY DEF FirstCalls
  <2>6. Arrive(r, "create", i, EmptyPatch, "email_check", u, "GetByEmail", EmailKey(e))
    BY <2>1 DEF u
  <2> HIDE DEF EmailKey
  <2> QED
    BY <2>2, <2>3, <2>4, <2>5, <2>6, ArriveKeeps
<1>2. ASSUME NEW i \in KnownIds, NEW patch \in Patch, NEW op, NEW wait,
             Arrive(r, op, i, patch, wait, NoUser, "GetByID", IdKey(i)),
             op # "create", <<wait, op, "GetByID">> \in FirstCalls
      PROVE  ServiceInv'
  <2>1. i \in Ids /\ IdKey(i) \in Keys
    BY DEF KnownIds, Keys
  <2> HIDE DEF IdKey
  <2> QED
    BY <1>2, <2>1, ArriveKeeps
<1>3. EmptyPatch \in Patch
  BY DEF EmptyPatch, Patch
<1>4. ASSUME StartGet(r) PROVE ServiceInv'
  BY <1>2, <1>3, <1>4 DEF StartGet, FirstCalls
<1>5. ASSUME StartUpdate(r) PROVE ServiceInv'
  BY <1>2, <1>5 DEF StartUpdate, FirstCalls
<1>6. ASSUME StartDelete(r) PROVE ServiceInv'
  BY <1>2, <1>3, <1>6 DEF StartDelete, FirstCalls
<1>7. ASSUME HashFails(r) PROVE ServiceInv'
  <2> DEFINE b == [svc[r] EXCEPT !.pc = "replied"]
             c == [b EXCEPT !.op = "create"]
             s == [c EXCEPT !.reply = "internal"]
  <2>1. /\ svc[r] \in ServiceActivation /\ events \subseteq Event
        /\ Serves(svc[r], call[r], r) /\ svc[r].pc = "idle"
    BY <1>7, Together DEF HashFails, ServiceInv, ServiceTypes
  <2>2. b \in ServiceActivation /\ b.pc = "replied" /\ b.id = svc[r].id
    BY <2>1 DEF ServiceActivation, ServicePoints
  <2> HIDE DEF b
  <2>3. c \in ServiceActivation /\ c.pc = "replied" /\ c.id = svc[r].id
    BY <1>7, <2>2 DEF HashFails, ServiceActivation
  <2> HIDE DEF c
  <2>4. s \in ServiceActivation /\ s.pc = "replied" /\ s.id = svc[r].id /\ s.reply = "internal"
    BY <2>3 DEF ServiceActivation, Replies
  <2>5. svc' = [svc EXCEPT ![r] = s]
    BY <1>7, <2>1 DEF HashFails, b, c, ServiceActivation
  <2> HIDE DEF s
  <2>6. call[r] = NoCall /\ call' = call /\ UNCHANGED <<users, redis, committed, events>>
    BY <1>7, <2>1 DEF HashFails, Serves, Calls
  <2>7. RepositoryInv'
    <3>1. call \in [Requests -> Activation]
      BY DEF ServiceInv, RepositoryInv, TypeInv, TypeOK
    <3>2. call' = [call EXCEPT ![r] = NoCall]
      BY <2>6, <3>1
    <3> QED
      BY <2>6, <3>2, CallEnds DEF ServiceInv
  <2>8. Serves(s, NoCall, r)
    BY <2>4 DEF Serves, Calls, Awaits, Settled, NoCall, NoKey, Waits, Writes
  <2>9. Knows(s, r)
    BY <2>4 DEF Knows, Unwriting, Settled
  <2>10. ~ Reserves(s, NoCall) /\ ~ Removed(s, NoCall)
    BY <2>4 DEF Reserves, Removed, Settled, Deleted, NoCall
  <2> QED
    BY <2>1, <2>4, <2>5, <2>6, <2>7, <2>8, <2>9, <2>10, MoveKeeps
<1> QED
  BY <1>1, <1>4, <1>5, <1>6, <1>7 DEF Request

\* The one attempt to publish.
LEMMA PublishKeeps ==
    ASSUME ServiceInv, NEW r \in Requests, Publish(r)
    PROVE  ServiceInv'
<1> DEFINE s == [svc[r] EXCEPT !.pc = "replied"]
<1>1. /\ svc[r] \in ServiceActivation /\ events \subseteq Event
      /\ Serves(svc[r], call[r], r) /\ Knows(svc[r], r) /\ svc[r].pc = "publish"
  BY Together DEF Publish, ServiceInv, ServiceTypes
<1>2. /\ s \in ServiceActivation /\ s.pc = "replied" /\ s.op = svc[r].op /\ s.id = svc[r].id
      /\ s.user = svc[r].user /\ s.reply = svc[r].reply
  BY <1>1 DEF ServiceActivation, ServicePoints
<1>3. svc' = [svc EXCEPT ![r] = s]
  BY DEF Publish
<1> HIDE DEF s
<1>4. /\ svc[r].op \in {"create", "update", "delete"} /\ svc[r].reply = "ok"
      /\ svc[r].user \in User /\ svc[r].user.id = svc[r].id /\ call[r] = NoCall
  BY <1>1 DEF Serves, Calls, Waits, Settled
<1>5. call' = call /\ UNCHANGED <<users, redis, committed>>
  BY DEF Publish
<1>6. RepositoryInv'
  <2>1. call \in [Requests -> Activation]
    BY DEF ServiceInv, RepositoryInv, TypeInv, TypeOK
  <2>2. call' = [call EXCEPT ![r] = NoCall]
    BY <1>4, <1>5, <2>1
  <2> QED
    BY <1>5, <2>2, CallEnds DEF ServiceInv
<1>7. Serves(s, NoCall, r)
  BY <1>2, <1>4 DEF Serves, Calls, Awaits, Settled, NoCall, NoKey, Waits, Writes
<1>8. Knows(s, r)
  BY <1>1, <1>2, <1>4 DEF Knows, Unwriting, Settled
<1>9. ~ Reserves(s, NoCall) /\ (Removed(s, NoCall) => Removed(svc[r], call[r]))
  BY <1>1, <1>2, <1>4 DEF Reserves, Removed, Settled, NoCall
<1>10. EventOf(r) \in Event /\ EventOf(r).by = r /\ Repeats(EventOf(r), s)
  <2>1. Sanitize(svc[r].user) \in User
    BY <1>4, SanitizedRow
  <2>2. EventType[svc[r].op] \in {"created", "updated", "deleted"}
    BY <1>4 DEF EventType
  <2> QED
    BY <1>2, <1>4, <2>1, <2>2 DEF EventOf, Event, Repeats
<1>11. \A e \in events' : e \in events \/ e = EventOf(r)
  BY DEF Publish
<1> QED
  BY <1>1, <1>2, <1>3, <1>4, <1>5, <1>6, <1>7, <1>8, <1>9, <1>10, <1>11, MoveKeeps

\* Every step of a service method: one case per action.
LEMMA ServiceStepKeeps ==
    ASSUME ServiceInv, NEW r \in Requests, ServiceStep(r)
    PROVE  ServiceInv'
<1> DEFINE s == svc[r]
<1>1. /\ s \in ServiceActivation /\ call[r] \in Activation
      /\ Serves(s, call[r], r) /\ Knows(s, r)
  BY Together
<1>2. /\ s.pc \in {"email_check", "nickname_check", "create", "update_email_check", "update",
                   "delete"} => s.user \in User /\ s.user.id = s.id
      /\ s.pc \in {"email_check", "nickname_check"} =>
            s.op = "create" /\ s.user.updated = r /\ Reserves(s, call[r])
      /\ s.pc \in {"load", "update_email_check"} => s.op = "update"
      /\ s.pc = "update_email_check" => s.patch.email \in Emails
      /\ s.pc = "delete_load" => s.op = "delete"
      /\ s.pc = "get" => s.op = "get"
      /\ s.pc \in Waits => s.id \in Ids
      /\ s.pc \in {"get", "load", "delete_load"} => call[r].fn = "GetByID"
      /\ Unwriting(s) => \A v \in committed : v.updated # r
  BY <1>1 DEF Serves, Calls, Awaits, Knows, Reserves
<1>3. {"ok", "email_taken", "nickname_taken"} \subseteq Replies
  BY DEF Replies
<1>4. ASSUME s.pc \in {"email_check", "nickname_check", "update_email_check"},
             NEW e \in {"email_taken", "nickname_taken"}, Reply(r, NoUser, e)
      PROVE  ServiceInv'
  <2>1. s.pc \in Waits /\ Unwriting(s)
    BY <1>4 DEF Waits, Unwriting
  <2> QED
    BY <1>2, <1>3, <1>4, <2>1, ReplyKeeps
<1>5. ASSUME AfterEmailCheck(r) PROVE ServiceInv'
  <2>1. s.pc = "email_check"
    BY <1>5 DEF AfterEmailCheck, Returned
  <2>2. CASE Reply(r, NoUser, "email_taken")
    BY <1>4, <2>1, <2>2
  <2>3. CASE CallNext(r, "nickname_check", s.user, "GetByNickname", NickKey(s.user.nickname), NoUser)
    <3>1. NickKey(s.user.nickname) \in Keys /\ \A i \in Ids : NickKey(s.user.nickname) # IdKey(i)
      BY <1>2, <2>1 DEF User, Keys
    <3>2. s.pc \in Waits /\ Unwriting(s) /\ "GetByNickname" \notin Writes
          /\ <<"nickname_check", s.op, "GetByNickname">> \in NextCalls
      BY <1>2, <2>1 DEF Waits, Unwriting, Writes, NextCalls
    <3> HIDE DEF NickKey
    <3> QED
      BY <1>2, <2>1, <2>3, <3>1, <3>2, CallNextKeeps
  <2> QED
    BY <1>5, <2>2, <2>3 DEF AfterEmailCheck
<1>6. ASSUME AfterNicknameCheck(r) PROVE ServiceInv'
  <2>1. s.pc = "nickname_check"
    BY <1>6 DEF AfterNicknameCheck, Returned
  <2>2. CASE Reply(r, NoUser, "nickname_taken")
    BY <1>4, <2>1, <2>2
  <2>3. CASE CallNext(r, "create", s.user, "Create", IdKey(s.id), s.user)
    <3>1. IdKey(s.id) \in Keys
      BY <1>2, <2>1 DEF Waits, Keys
    <3>2. s.pc \in Waits /\ Unwriting(s) /\ "Create" \in Writes
          /\ <<"create", s.op, "Create">> \in NextCalls
      BY <1>2, <2>1 DEF Waits, Unwriting, Writes, NextCalls
    <3> HIDE DEF IdKey
    <3> QED
      BY <1>2, <2>1, <2>3, <3>1, <3>2, CallNextKeeps
  <2> QED
    BY <1>6, <2>2, <2>3 DEF AfterNicknameCheck
<1>7. ASSUME AfterCreate(r) PROVE ServiceInv'
  BY <1>7, FailKeeps, AnnounceKeeps DEF AfterCreate, Returned
<1>8. ASSUME AfterGet(r) PROVE ServiceInv'
  <2>1. s.pc = "get" /\ s.pc \in Waits /\ At(r, "done")
    BY <1>8 DEF AfterGet, Returned, Waits
  <2>2. CASE Fail(r)
    BY <2>1, <2>2, FailKeeps
  <2>3. CASE Succeeded(r) /\ Reply(r, Answered(r), "ok")
    <3>1. Answered(r) \in User /\ Answered(r).id = s.id
      BY <1>2, <2>1, <2>3, AnswerHasId
    <3> QED
      BY <1>2, <1>3, <2>1, <2>3, <3>1, ReplyKeeps
  <2> QED
    BY <1>8, <2>2, <2>3 DEF AfterGet
\* The call that UpdateUser makes last, with the row it has put together.
<1>u. ASSUME NEW u \in User, u.id = s.id, s.pc \in {"load", "update_email_check"},
             CallNext(r, "update", u, "Update", IdKey(s.id), u)
      PROVE  ServiceInv'
  <2>1. IdKey(s.id) \in Keys
    BY <1>2, <1>u DEF Waits, Keys
  <2>2. s.pc \in Waits /\ Unwriting(s) /\ "Update" \in Writes
        /\ <<"update", s.op, "Update">> \in NextCalls
    BY <1>2, <1>u DEF Waits, Unwriting, Writes, NextCalls
  <2> HIDE DEF IdKey
  <2> QED
    BY <1>u, <2>1, <2>2, CallNextKeeps
<1>9. ASSUME AfterLoad(r) PROVE ServiceInv'
  <2> DEFINE u     == Patched(Answered(r), s.patch)
             email == OrElse(s.patch.email, u.email)
  <2>1. s.pc = "load" /\ s.pc \in Waits /\ At(r, "done")
    BY <1>9 DEF AfterLoad, Returned, Waits
  <2>2. CASE Fail(r)
    BY <2>1, <2>2, FailKeeps
  <2>3. ASSUME Succeeded(r)
        PROVE  /\ u \in User /\ u.id = s.id /\ email \in Emails
               /\ email # u.email => s.patch.email \in Emails
    <3>1. Answered(r) \in User /\ Answered(r).id = s.id
      BY <1>2, <2>1, <2>3, AnswerHasId
    <3>2. s.patch \in Patch
      BY <1>1 DEF ServiceActivation
    <3>3. u \in User /\ u.id = s.id
      BY <3>1, <3>2, PatchedRow
    <3> HIDE DEF u
    <3> QED
      BY <3>2, <3>3, PatchedRow
  <2>4. CASE Succeeded(r) /\ email # u.email
             /\ CallNext(r, "update_email_check", u, "GetByEmail", EmailKey(email), NoUser)
    <3>1. /\ u \in User /\ u.id = s.id /\ s.patch.email \in Emails
          /\ EmailKey(email) \in Keys /\ \A i \in Ids : EmailKey(email) # IdKey(i)
      BY <2>3, <2>4 DEF Keys
    <3>2. Unwriting(s) /\ "GetByEmail" \notin Writes
          /\ <<"update_email_check", s.op, "GetByEmail">> \in NextCalls
      BY <1>2, <2>1 DEF Unwriting, Writes, NextCalls
    <3> HIDE DEF EmailKey, u, email
    <3> QED
      BY <2>1, <2>4, <3>1, <3>2, CallNextKeeps
  <2>5. CASE Succeeded(r) /\ CallNext(r, "update", u, "Update", IdKey(s.id), u)
    <3>1. u \in User /\ u.id = s.id
      BY <2>3, <2>5
    <3> HIDE DEF u
    <3> QED
      BY <1>u, <2>1, <2>5, <3>1
  <2> QED
    BY <1>9, <2>2, <2>4, <2>5 DEF AfterLoad
<1>10. ASSUME AfterUpdateEmailCheck(r) PROVE ServiceInv'
  <2> DEFINE u == [s.user EXCEPT !.email = s.patch.email]
  <2>1. s.pc = "update_email_check"
    BY <1>10 DEF AfterUpdateEmailCheck, Returned
  <2>2. CASE Reply(r, NoUser, "email_taken")
    BY <1>4, <2>1, <2>2
  <2>3. CASE CallNext(r, "update", u, "Update", IdKey(s.id), u)
    <3>1. u \in User /\ u.id = s.id
      BY <1>2, <2>1 DEF User
    <3> HIDE DEF u
    <3> QED
      BY <1>u, <2>1, <2>3, <3>1
  <2> QED
    BY <1>10, <2>2, <2>3 DEF AfterUpdateEmailCheck
<1>11. ASSUME AfterUpdate(r) PROVE ServiceInv'
  BY <1>11, FailKeeps, AnnounceKeeps DEF AfterUpdate, Returned
<1>12. ASSUME AfterDeleteLoad(r) PROVE ServiceInv'
  <2>1. s.pc = "delete_load" /\ s.pc \in Waits /\ At(r, "done")
    BY <1>12 DEF AfterDeleteLoad, Returned, Waits
  <2>2. CASE Fail(r)
    BY <2>1, <2>2, FailKeeps
  <2>3. CASE Succeeded(r) /\ CallNext(r, "delete", Answered(r), "Delete", IdKey(s.id), NoUser)
    <3>1. Answered(r) \in User /\ Answered(r).id = s.id
      BY <1>2, <2>1, <2>3, AnswerHasId
    <3>2. IdKey(s.id) \in Keys
      BY <1>2, <2>1 DEF Keys
    <3>3. Unwriting(s) /\ "Delete" \in Writes /\ <<"delete", s.op, "Delete">> \in NextCalls
      BY <1>2, <2>1 DEF Unwriting, Writes, NextCalls
    <3> HIDE DEF IdKey
    <3> QED
      BY <2>1, <2>3, <3>1, <3>2, <3>3, CallNextKeeps
  <2> QED
    BY <1>12, <2>2, <2>3 DEF AfterDeleteLoad
<1>13. ASSUME AfterDelete(r) PROVE ServiceInv'
  BY <1>13, FailKeeps, AnnounceKeeps DEF AfterDelete, Returned
<1> QED
  BY <1>5, <1>6, <1>7, <1>8, <1>9, <1>10, <1>11, <1>12, <1>13, PublishKeeps DEF ServiceStep

-----------------------------------------------------------------------------
(* Steps of the repository and of the environment *)

\* A step of a repository call: its request learns what the call learns, and the
\* others are not disturbed.
LEMMA RepositoryStepKeeps ==
    ASSUME ServiceInv, NEW r \in Requests, RepositoryStep(r)
    PROVE  ServiceInv'
<1>1. TypeInv /\ DataInv /\ HistoryInv /\ Step(r) /\ UNCHANGED <<svc, events>>
  BY DEF ServiceInv, RepositoryInv, RepositoryStep
<1>2. RepositoryInv'
  BY <1>1, StepTypes, StepData, StepHistory DEF RepositoryInv
<1>3. call \in [Requests -> Activation] /\ Tells(call[r], r)
  BY <1>1, Together DEF TypeInv, TypeOK
<1>4. PICK a : Effect(r, a)
  BY <1>1, <1>3, StepEffect
<1>5. call'[r] = a /\ \A q \in Requests : q # r => call'[q] = call[q]
  BY <1>3, <1>4 DEF Effect, Becomes
<1>6. TableStep(r)
  BY <1>1, <1>3, <1>4, TableEffect
<1>7. /\ a.pc # "insert" /\ a.fn = call[r].fn /\ a.key = call[r].key
      /\ a.fn \in Writes => a.user = call[r].user
      /\ call[r].pc \in Running /\ call[r].fn # "none"
      /\ Deleted(a) => Deleted(call[r]) \/ \E i \in Ids : a.key = IdKey(i) /\ HasId(users, i)
  BY <1>1, <1>3, <1>4, SelfTells DEF Effect, Becomes
<1>8. \A q \in Requests : /\ svc[q] \in ServiceActivation
                          /\ Serves(svc[q], call[q], q) /\ Knows(svc[q], q)
  BY Together
\* An insert touches no user another request knows of.
<1>9. ASSUME NEW q \in Requests, q # r, NEW i \in Ids, svc[q].id = i
      PROVE  ~ (At(r, "insert") /\ call[r].key = IdKey(i))
  <2>1. At(r, "insert") /\ call[r].key = IdKey(i) => svc[r].id = i /\ Reserves(svc[r], call[r])
    BY <1>8 DEF Serves, Reserves, At
  <2> QED
    BY <1>9, <2>1 DEF ServiceInv, ReservedIds
<1>10. \A q \in Requests : q # r => /\ ~ HasId(users, svc[q].id) => ~ HasId(users', svc[q].id)
                                    /\ ~ HasId(committed, svc[q].id) => ~ HasId(committed', svc[q].id)
  <2>1. \A u \in users' \cup committed' : u.id \in Ids
    BY <1>2 DEF RepositoryInv, TypeInv, TypeOK, User
  <2> QED
    BY <1>6, <1>9, <2>1 DEF TableStep, HasId
<1>11. svc[r].pc \notin {"idle", "replied", "lost", "publish"}
  BY <1>7, <1>8, CallTellsPoint DEF Serves
<1>12. ASSUME NEW q \in Requests PROVE (Serves(svc[q], call[q], q) /\ Knows(svc[q], q))'
  <2>1. CASE q = r
    <3>1. Serves(svc[r], a, r)
      <4>1. Calls(svc[r], a)
        BY <1>7, <1>8, <1>11 DEF Serves, Calls, Awaits
      <4>2. svc[r].pc \in {"create", "update"} => a.fn \in Writes
        BY <4>1 DEF Calls, Awaits, Writes
      <4> QED
        BY <1>7, <1>8, <4>1, <4>2 DEF Serves
    <3>2. Unwriting(svc[r]) => \A u \in committed' : u.updated # r
      <4>1. Unwriting(svc[r]) => call[r].pc \notin {"insert", "update"}
        <5>1. call[r].fn \in {"Create", "Update"} => svc[r].pc \in {"create", "update"}
          BY <1>8, CallTellsPoint DEF Serves
        <5> QED
          BY <1>1, <5>1 DEF TypeInv, WellFormed, At, Unwriting
      <4> QED
        BY <1>6, <1>8, <4>1 DEF TableStep, Knows
    <3>3. ~ Settled(svc[r]) /\ svc[r].pc # "replied"
      BY <1>11 DEF Settled
    <3> QED
      BY <1>1, <1>5, <2>1, <3>1, <3>2, <3>3 DEF Serves, Knows
  <2>2. CASE q # r
    <3>1. Serves(svc[q], call'[q], q)
      BY <1>5, <1>8, <2>2
    <3>2. Unwriting(svc[q]) => \A u \in committed' : u.updated # q
      BY <1>6, <1>8, <2>2 DEF TableStep, Knows
    <3>3. /\ Settled(svc[q]) /\ svc[q].op \in {"create", "update"} =>
                [svc[q].user EXCEPT !.updated = q] \in committed'
          /\ Settled(svc[q]) /\ svc[q].op = "delete" => ~ HasId(users', svc[q].id)
          /\ svc[q].pc = "replied" /\ svc[q].reply = "not_found" => ~ HasId(users', svc[q].id)
      BY <1>6, <1>8, <1>10, <2>2 DEF TableStep, Knows
    <3> QED
      BY <1>1, <3>1, <3>2, <3>3 DEF Serves, Knows
  <2> QED
    BY <2>1, <2>2
<1>13. ReservedIds'
  <2> SUFFICES ASSUME NEW q \in Requests, Reserves(svc[q], call'[q])
               PROVE  /\ ~ HasId(committed', svc[q].id)
                      /\ \A p \in Requests : svc[p].id = svc[q].id => p = q
    BY <1>1 DEF ReservedIds
  <2>1. Reserves(svc[q], call[q])
    BY <1>5, <1>7 DEF Reserves
  <2>2. /\ ~ HasId(committed, svc[q].id)
        /\ \A p \in Requests : svc[p].id = svc[q].id => p = q
    BY <2>1 DEF ServiceInv, ReservedIds
  <2>3. CASE q # r
    BY <1>10, <2>2, <2>3
  <2>4. CASE q = r
    <3>1. svc[r].pc \in {"email_check", "nickname_check"}
      BY <1>5, <1>7, <2>4 DEF Reserves
    <3>2. call[r].fn \notin {"Create", "Update"}
      BY <1>8, <3>1, CallTellsPoint DEF Serves
    <3>3. ~ At(r, "insert")
      BY <1>1, <3>2 DEF TypeInv, WellFormed
    <3>4. \A u \in committed' : u.id \in Ids
      BY <1>2 DEF RepositoryInv, TypeInv, TypeOK, User
    <3> QED
      BY <1>6, <2>2, <2>4, <3>3, <3>4 DEF TableStep, HasId
  <2> QED
    BY <2>3, <2>4
<1>14. \A q \in Requests : q # r /\ Removed(svc[q], call[q]) /\ Removed(svc[r], a)
                            => svc[q].id # svc[r].id
  <2> SUFFICES ASSUME NEW q \in Requests, q # r, Removed(svc[q], call[q]), Removed(svc[r], a),
                      svc[q].id = svc[r].id
               PROVE  FALSE
    OBVIOUS
  <2>1. Deleted(a)
    BY <1>11 DEF Removed, Settled
  <2>2. CASE Deleted(call[r])
    BY <2>2 DEF Removed, ServiceInv, OneRemover
  <2>3. CASE \E i \in Ids : a.key = IdKey(i) /\ HasId(users, i)
    <3>1. HasId(users, svc[r].id) /\ svc[r].id \in Ids
      BY <1>7, <1>8, <2>3 DEF Serves
    <3>2. CASE Deleted(call[q])
      <4>1. Tells(call[q], q) /\ call[q].key = IdKey(svc[q].id)
        BY <1>8, <3>2, Together DEF Serves, Deleted, Writes
      <4> QED
        BY <3>1, <3>2, <4>1 DEF Tells
    <3>3. CASE Settled(svc[q]) /\ svc[q].op = "delete"
      BY <1>8, <3>1, <3>3 DEF Knows
    <3> QED
      BY <3>2, <3>3 DEF Removed
  <2> QED
    BY <1>7, <2>1, <2>2, <2>3
<1>15. OneRemover'
  BY <1>1, <1>5, <1>14 DEF ServiceInv, OneRemover
<1> QED
  BY <1>1, <1>2, <1>12, <1>13, <1>15 DEF ServiceInv, ServiceTypes, EventsRepeat

\* The cache does not matter.
LEMMA CacheExpiryKeeps ==
    ASSUME ServiceInv, CacheExpiry
    PROVE  ServiceInv'
<1>1. PICK k \in Keys : Expire(k)
  BY DEF CacheExpiry
<1>2. UNCHANGED <<users, call, committed, svc, events>>
  BY <1>1 DEF CacheExpiry, Expire
<1>3. RepositoryInv'
  BY <1>1, ExpireTypes, ExpireData, ExpireHistory DEF ServiceInv, RepositoryInv
<1> QED
  BY <1>2, <1>3 DEF ServiceInv, ServiceTypes, Serves, Knows, ReservedIds, OneRemover, EventsRepeat

\* The process dies: what was in flight is lost, and tells nothing any more.
LEMMA ServiceCrashKeeps ==
    ASSUME ServiceInv, ServiceCrash
    PROVE  ServiceInv'
<1> DEFINE lost(r) == [NoRequest EXCEPT !.pc = "lost", !.op = svc[r].op, !.id = svc[r].id]
<1>1. /\ UNCHANGED <<users, redis, committed, events>>
      /\ \A r \in Requests : call'[r] = NoCall
      /\ call' \in [Requests -> {NoCall}]
      /\ \A r \in Requests : svc'[r] = IF r \in InService THEN lost(r) ELSE svc[r]
      /\ svc' = [r \in Requests |-> svc'[r]]
  BY DEF ServiceCrash
<1>2. \A r \in Requests : svc[r] \in ServiceActivation /\ Knows(svc[r], r)
                          /\ Serves(svc[r], call[r], r)
  BY Together
<1>3. ASSUME NEW r \in Requests
      PROVE  /\ lost(r) \in ServiceActivation
             /\ lost(r).pc = "lost" /\ lost(r).id = svc[r].id
  <2>1. lost(r) = [pc |-> "lost", op |-> svc[r].op, id |-> svc[r].id, patch |-> EmptyPatch,
                   user |-> NoUser, reply |-> "ok"]
    <3> DEFINE b == [NoRequest EXCEPT !.pc = "lost"]
               c == [b EXCEPT !.op = svc[r].op]
    <3>1. b = [pc |-> "lost", op |-> "none", id |-> NoUser, patch |-> EmptyPatch,
               user |-> NoUser, reply |-> "ok"]
      BY DEF NoRequest
    <3>2. lost(r) = [c EXCEPT !.id = svc[r].id]
      BY DEF NoRequest
    <3> HIDE DEF b
    <3>3. c = [pc |-> "lost", op |-> svc[r].op, id |-> NoUser, patch |-> EmptyPatch,
               user |-> NoUser, reply |-> "ok"]
      BY <3>1
    <3> HIDE DEF c
    <3> QED
      BY <3>2, <3>3
  <2>2. svc[r].op \in Operations \cup {"none"} /\ svc[r].id \in Ids \cup {NoUser}
    BY <1>2 DEF ServiceActivation
  <2> HIDE DEF lost
  <2> QED
    BY <2>1, <2>2 DEF ServiceActivation, ServicePoints, Replies, EmptyPatch, Patch
<1> HIDE DEF lost
<1>4. ASSUME NEW r \in Requests
      PROVE  /\ svc'[r] \in ServiceActivation /\ svc'[r].id = svc[r].id
             /\ svc'[r] = svc[r] \/ svc'[r].pc = "lost"
             /\ svc'[r].pc \in {"idle", "replied", "lost"}
  <2>1. svc[r].pc \in Waits \/ svc[r].pc \in {"idle", "replied", "lost"}
    BY <1>2 DEF ServiceActivation, ServicePoints
  <2> QED
    BY <1>1, <1>2, <1>3, <2>1 DEF InService
<1>5. ServiceTypes'
  BY <1>1, <1>4 DEF ServiceInv, ServiceTypes
<1>6. NoCall.pc = "idle" /\ NoCall.fn = "none" /\ NoCall.key = NoKey /\ NoCall.user = NoUser
      /\ NoCall \in Activation
  BY DEF NoCall, Activation, Points, Running, Errors
<1>7. RepositoryInv'
  <2>1. TypeInv'
    <3>1. call' \in [Requests -> Activation]
      BY <1>1, <1>6
    <3>2. WellFormed'
      BY <1>1, <1>6 DEF WellFormed, At
    <3> QED
      BY <1>1, <3>1, <3>2 DEF ServiceInv, RepositoryInv, TypeInv, TypeOK
  <2>2. \A r \in Requests : CarriesStored(call'[r], committed')
    BY <1>1, <1>6 DEF CarriesStored
  <2>3. DataInv'
    BY <1>1, <2>2, QuietData DEF ServiceInv, RepositoryInv
  <2>4. HistoryInv'
    BY <1>1, <1>6, EndHistory DEF ServiceInv, RepositoryInv
  <2> QED
    BY <2>1, <2>3, <2>4 DEF RepositoryInv
<1>8. ASSUME NEW r \in Requests PROVE (Serves(svc[r], call[r], r) /\ Knows(svc[r], r))'
  <2>1. svc[r].pc \in {"idle", "replied", "lost"} => call[r] = NoCall
    BY <1>2 DEF Serves, Calls
  <2>2. CASE svc'[r] = svc[r]
    <3>1. call'[r] = call[r]
      BY <1>1, <1>4, <2>1, <2>2
    <3> QED
      BY <1>1, <1>2, <2>2, <3>1 DEF Serves, Knows
  <2>3. CASE svc'[r].pc = "lost"
    <3>1. Serves(svc'[r], NoCall, r)
      BY <1>6, <2>3 DEF Serves, Calls, Awaits, Settled, NoKey, Waits, Writes
    <3> QED
      BY <1>1, <2>3, <3>1 DEF Serves, Knows, Unwriting, Settled
  <2> QED
    BY <1>4, <2>2, <2>3
<1>9. ReservedIds'
  BY <1>1, <1>4, <1>6 DEF ReservedIds, Reserves
<1>10. OneRemover'
  <2>1. \A r \in Requests : Removed(svc'[r], call'[r]) => Removed(svc[r], call[r])
    BY <1>1, <1>4, <1>6 DEF Removed, Deleted, Settled
  <2> QED
    BY <1>4, <2>1 DEF ServiceInv, OneRemover
<1>11. EventsRepeat'
  <2> SUFFICES ASSUME NEW e \in events PROVE Repeats(e, svc'[e.by])
    BY <1>1 DEF EventsRepeat
  <2>1. e.by \in Requests /\ Repeats(e, svc[e.by])
    BY DEF ServiceInv, EventsRepeat, ServiceTypes, Event
  <2>2. e.by \notin InService
    BY <2>1 DEF Repeats, InService, Waits
  <2> QED
    BY <1>1, <2>1, <2>2
<1> QED
  BY <1>5, <1>7, <1>8, <1>9, <1>10, <1>11 DEF ServiceInv

-----------------------------------------------------------------------------
(* The theorems *)

\* At the start there are no requests, no events, and rows that nobody wrote.
LEMMA ServiceStart == ServiceInit => ServiceInv
<1> SUFFICES ASSUME ServiceInit PROVE ServiceInv
  OBVIOUS
<1>1. Init /\ events = {} /\ svc = [r \in Requests |-> NoRequest]
  BY DEF ServiceInit
<1>2. RepositoryInv /\ Fresh
  BY <1>1, TypeInit, DataInit, HistoryInit DEF RepositoryInv
<1>3. /\ NoRequest \in ServiceActivation
      /\ NoRequest.pc = "idle" /\ NoRequest.op = "none"
  BY DEF NoRequest, ServiceActivation, ServicePoints, Replies, EmptyPatch, Patch
<1>4. \A r \in Requests : svc[r] = NoRequest /\ call[r] = NoCall
  BY <1>1 DEF Init
<1>5. NoCall.pc = "idle" /\ NoCall.fn = "none" /\ NoCall.key = NoKey
  BY DEF NoCall
<1>6. ServiceTypes
  BY <1>1, <1>3 DEF ServiceTypes
<1>7. ASSUME NEW r \in Requests PROVE Serves(svc[r], call[r], r) /\ Knows(svc[r], r)
  <2>1. \A u \in committed : u.updated # r
    BY <1>2, <1>4, <1>5 DEF Fresh, At
  <2>2. Serves(NoRequest, NoCall, r)
    BY <1>3, <1>5 DEF Serves, Calls, Awaits, Settled, NoKey, Waits, Writes
  <2>3. Knows(NoRequest, r)
    BY <1>3, <2>1 DEF Knows, Settled
  <2> QED
    BY <1>4, <2>2, <2>3
<1>8. \A r \in Requests : ~ Reserves(svc[r], call[r]) /\ ~ Removed(svc[r], call[r])
  BY <1>3, <1>4, <1>5 DEF Reserves, Removed, Deleted, Settled
<1> QED
  BY <1>1, <1>2, <1>6, <1>7, <1>8 DEF ServiceInv, ReservedIds, OneRemover, EventsRepeat

\* Every step of the service, the repository and the environment keeps the invariant.
LEMMA ServiceStepping == ServiceInv /\ [ServiceNext]_serviceVars => ServiceInv'
<1> SUFFICES ASSUME ServiceInv, [ServiceNext]_serviceVars PROVE ServiceInv'
  OBVIOUS
<1>1. ASSUME UNCHANGED serviceVars PROVE ServiceInv'
  BY <1>1 DEF serviceVars, ServiceInv, RepositoryInv, TypeInv, TypeOK, WellFormed, At, DataInv,
              CacheHoldsCommittedRows, HistoryInv, Tells, Unborn, OneDeleter, ServiceTypes,
              Serves, Knows, ReservedIds, OneRemover, EventsRepeat
<1> QED
  BY <1>1, RequestKeeps, ServiceStepKeeps, RepositoryStepKeeps, CacheExpiryKeeps,
     ServiceCrashKeeps DEF ServiceNext

\* The invariant holds in every reachable state.
LEMMA Service == ServiceSpec => []ServiceInv
BY ServiceStart, ServiceStepping, PTL DEF ServiceSpec

\* Every variable of the service keeps its type.
THEOREM ServiceIsTypeCorrect == ServiceSpec => []ServiceTypeOK
<1>1. ServiceInv => ServiceTypeOK
  BY DEF ServiceInv, RepositoryInv, TypeInv, ServiceTypes, ServiceTypeOK, ServiceActivation,
         ServicePoints, Event
<1> QED
  BY <1>1, Service, PTL

\* A reply of success tells the truth: what it reports was stored, or is deleted.
THEOREM SuccessIsReal == ServiceSpec => []SuccessIsCommitted
<1>1. ServiceInv => SuccessIsCommitted
  <2> SUFFICES ASSUME ServiceInv, NEW r \in Requests, Replied(r, {"ok"})
               PROVE  /\ svc[r].op \in {"create", "update"} =>
                            \E u \in committed : u = [svc[r].user EXCEPT !.updated = r]
                      /\ svc[r].op = "delete" => ~ HasId(users, svc[r].id)
    BY DEF SuccessIsCommitted
  <2>1. Settled(svc[r])
    BY DEF Settled, Replied
  <2> QED
    BY <2>1, Together DEF Knows
<1> QED
  BY <1>1, Service, PTL

\* A conflict is never reported for a request that has written.
THEOREM RefusedRequestsWriteNothing == ServiceSpec => []RefusalWritesNothing
<1>1. ServiceInv => RefusalWritesNothing
  BY Together DEF RefusalWritesNothing, Replied, Knows, Unwriting
<1> QED
  BY <1>1, Service, PTL

\* "User not found" is never said of a user that is there.
THEOREM MissingUsersAreGone == ServiceSpec => []MissingIsGone
<1>1. ServiceInv => MissingIsGone
  BY Together DEF MissingIsGone, Replied, Knows
<1> QED
  BY <1>1, Service, PTL

\* An event belongs to a request that has been answered with success.
LEMMA EventsComeFromReplies ==
    ASSUME ServiceInv, NEW e \in events
    PROVE  /\ e \in Event /\ Settled(svc[e.by]) /\ Knows(svc[e.by], e.by)
           /\ svc[e.by].user \in User /\ svc[e.by].user.id = svc[e.by].id
           /\ e.user = Sanitize(svc[e.by].user)
           /\ e.type = "deleted" <=> svc[e.by].op = "delete"
           /\ svc[e.by].op \in {"create", "update", "delete"}
<1>1. e \in Event /\ e.by \in Requests /\ Repeats(e, svc[e.by])
  BY DEF ServiceInv, ServiceTypes, EventsRepeat, Event
<1>2. Settled(svc[e.by])
  BY <1>1 DEF Repeats, Settled
<1>3. e.type = "deleted" <=> svc[e.by].op = "delete"
  BY <1>1 DEF Repeats, EventType
<1> QED
  BY <1>1, <1>2, <1>3, Together DEF Repeats, Serves

\* No event announces what did not happen.
THEOREM EventsAreTrue == ServiceSpec => []EventsTellTheTruth
<1>1. ServiceInv => EventsTellTheTruth
  <2> SUFFICES ASSUME ServiceInv, NEW e \in events
               PROVE  IF e.type = "deleted"
                      THEN ~ HasId(users, e.user.id)
                      ELSE \E u \in committed : Sanitize(u) = [e.user EXCEPT !.updated = e.by]
    BY DEF EventsTellTheTruth
  <2> DEFINE w == svc[e.by].user
  <2>1. /\ Settled(svc[e.by]) /\ Knows(svc[e.by], e.by) /\ w \in User
        /\ w.id = svc[e.by].id /\ e.user = Sanitize(w)
        /\ e.type = "deleted" <=> svc[e.by].op = "delete"
        /\ svc[e.by].op \in {"create", "update", "delete"}
    BY EventsComeFromReplies
  <2>2. CASE e.type = "deleted"
    <3>1. e.user.id = svc[e.by].id
      BY <2>1 DEF Sanitize, User
    <3> QED
      BY <2>1, <2>2, <3>1 DEF Knows
  <2>3. CASE e.type # "deleted"
    <3>1. [w EXCEPT !.updated = e.by] \in committed
      BY <2>1, <2>3 DEF Knows
    <3>2. Sanitize([w EXCEPT !.updated = e.by]) = [Sanitize(w) EXCEPT !.updated = e.by]
      BY <2>1 DEF Sanitize, User
    <3> QED
      BY <2>1, <2>3, <3>1, <3>2
  <2> QED
    BY <2>2, <2>3
<1> QED
  BY <1>1, Service, PTL

\* A deletion is announced once at most.
THEOREM DeletionsAreAnnouncedOnce == ServiceSpec => []OneDeletedEvent
<1>1. ServiceInv => OneDeletedEvent
  <2> SUFFICES ASSUME ServiceInv, NEW e \in events, NEW f \in events,
                      e.type = "deleted", f.type = "deleted", e.user.id = f.user.id
               PROVE  e = f
    BY DEF OneDeletedEvent
  <2>1. ASSUME NEW g \in {e, f}
        PROVE  /\ g \in Event /\ Removed(svc[g.by], call[g.by])
               /\ g.user = Sanitize(svc[g.by].user) /\ g.user.id = svc[g.by].id
    <3>1. /\ g \in Event /\ Settled(svc[g.by]) /\ svc[g.by].op = "delete"
          /\ svc[g.by].user \in User /\ svc[g.by].user.id = svc[g.by].id
          /\ g.user = Sanitize(svc[g.by].user)
      BY EventsComeFromReplies
    <3>2. g.user.id = svc[g.by].id
      BY <3>1 DEF Sanitize, User
    <3> QED
      BY <3>1, <3>2 DEF Removed
  <2>2. e.by = f.by
    BY <2>1 DEF ServiceInv, OneRemover, Event
  <2> QED
    BY <2>1, <2>2 DEF Event
<1> QED
  BY <1>1, Service, PTL
=============================================================================
