---------------------------- MODULE UserService ----------------------------
(***************************************************************************)
(* user.Service over the cached repository: CreateUser, GetUser,           *)
(* UpdateUser and DeleteUser, each a sequence of repository calls followed *)
(* by one attempt to publish an event.                                     *)
(*                                                                         *)
(* A service method waits for one repository call at a time.  Its program  *)
(* point names the call it waits for; the steps of that call are those of  *)
(* CachedRepository.                                                       *)
(***************************************************************************)
EXTENDS CachedRepository

CONSTANTS
    Operations,     \* the kinds of requests clients send
    NotGiven,       \* a field of an update request that is left empty
    PublishFaults   \* may handing an event to the Kafka writer fail?

ASSUME OperationsAssumption == Operations \subseteq {"create", "get", "update", "delete"}
ASSUME NotGivenAssumption == NotGiven \notin Emails \cup Nicknames \cup Profiles
ASSUME PublishFaultsAssumption == PublishFaults \in BOOLEAN

VARIABLES
    svc,        \* svc[r]: the activation of a Service method for request r
    events      \* the events handed to the Kafka writer

serviceVars == <<users, redis, call, committed, svc, events>>

Patch == [email    : Emails \cup {NotGiven},
          nickname : Nicknames \cup {NotGiven},
          profile  : Profiles \cup {NotGiven}]

EmptyPatch == [email |-> NotGiven, nickname |-> NotGiven, profile |-> NotGiven]

\* What a method is waiting for, up to its reply.
Waits == {"email_check", "nickname_check", "create", "get", "load", "update_email_check",
          "update", "delete_load", "delete", "publish"}

Replies == {"ok", "not_found", "email_taken", "nickname_taken", "internal"}

NoRequest == [pc |-> "idle", op |-> "none", id |-> NoUser, patch |-> EmptyPatch,
              user |-> NoUser, reply |-> "ok"]

ServiceInit ==
    /\ Init
    /\ svc = [r \in Requests |-> NoRequest]
    /\ events = {}

InService == {r \in Requests : svc[r].pc \in Waits}

\* The repository call of a method has returned, successfully or not.
Returned(r, wait) == svc[r].pc = wait /\ At(r, "done")
Succeeded(r) == call[r].err = "ok"
Answered(r) == call[r].user

\* Go on with another call, with u as the method's local variable "user".
CallNext(r, wait, u, fn, k, arg) ==
    /\ svc' = [svc EXCEPT ![r].pc = wait, ![r].user = u]
    /\ Begin(r, fn, k, arg)
    /\ UNCHANGED <<users, redis, committed, events>>

\* The activations end with their locals: what is left is the reply.
Reply(r, u, e) ==
    /\ svc' = [svc EXCEPT ![r].pc = "replied", ![r].patch = EmptyPatch,
                          ![r].user = u, ![r].reply = e]
    /\ call' = [call EXCEPT ![r] = NoCall]
    /\ UNCHANGED <<users, redis, committed, events>>

\* (Mutation: every error of the repository is reported as a missing user.)
AnyErrorIsNotFound(e) == IF e = "ok" THEN "ok" ELSE "not_found"

\* The handlers tell these errors apart and answer every other one with 500.
AsReply(e) == IF e \in Replies THEN e ELSE "internal"

Fail(r) == ~ Succeeded(r) /\ Reply(r, NoUser, AsReply(call[r].err))

ThenPublish(r, u) ==
    /\ svc' = [svc EXCEPT ![r].pc = "publish", ![r].patch = EmptyPatch, ![r].user = u]
    /\ call' = [call EXCEPT ![r] = NoCall]
    /\ UNCHANGED <<users, redis, committed, events>>

\* uuid.New: an id no other request has drawn or named.  A client cannot name
\* the id of a user before that user is stored.
NewIds    == {i \in Ids : ~ HasId(committed, i) /\ \A r \in Requests : svc[r].id # i}
KnownIds  == {i \in Ids : \A r \in Requests :
                             svc[r].op = "create" /\ svc[r].id = i => HasId(committed, i)}

\* A request arrives and the service starts on it with its first call.
Arrive(r, op, id, patch, wait, u, fn, k) ==
    /\ svc[r].pc = "idle"
    /\ op \in Operations
    /\ Cardinality(InService) < MaxInFlight
    /\ svc' = [svc EXCEPT ![r] = [pc |-> wait, op |-> op, id |-> id, patch |-> patch,
                                  user |-> u, reply |-> "ok"]]
    /\ Begin(r, fn, k, NoUser)
    /\ UNCHANGED <<users, redis, committed, events>>

-----------------------------------------------------------------------------
(* CreateUser *)

StartCreate(r) ==
    \E i \in NewIds, e \in Emails, n \in Nicknames, p \in Profiles :
        LET u == [id |-> i, email |-> e, nickname |-> n, profile |-> p,
                  password |-> "hash", updated |-> r]
        IN  Arrive(r, "create", i, EmptyPatch, "email_check", u, "GetByEmail", EmailKey(e))

\* bcrypt refuses a password longer than 72 bytes.
HashFails(r) ==
    /\ svc[r].pc = "idle"
    /\ "create" \in Operations
    /\ svc' = [svc EXCEPT ![r].pc = "replied", ![r].op = "create", ![r].reply = "internal"]
    /\ UNCHANGED <<users, redis, call, committed, events>>

\* Only a found user refuses the request: any error, a failing database as
\* well, counts as "not taken".
AfterEmailCheck(r) ==
    /\ Returned(r, "email_check")
    /\ \/ Succeeded(r) /\ Reply(r, NoUser, "email_taken")
       \/ /\ ~ Succeeded(r)
          /\ CallNext(r, "nickname_check", svc[r].user, "GetByNickname",
                      NickKey(svc[r].user.nickname), NoUser)

AfterNicknameCheck(r) ==
    /\ Returned(r, "nickname_check")
    /\ \/ Succeeded(r) /\ Reply(r, NoUser, "nickname_taken")
       \/ /\ ~ Succeeded(r)
          /\ CallNext(r, "create", svc[r].user, "Create", IdKey(svc[r].id), svc[r].user)

\* (Mutation: the error of repo.Create is dropped.)
AfterCreateUnchecked(r) == Returned(r, "create") /\ ThenPublish(r, svc[r].user)

AfterCreate(r) ==
    /\ Returned(r, "create")
    /\ Fail(r) \/ (Succeeded(r) /\ ThenPublish(r, svc[r].user))

-----------------------------------------------------------------------------
(* GetUser *)

StartGet(r) ==
    \E i \in KnownIds : Arrive(r, "get", i, EmptyPatch, "get", NoUser, "GetByID", IdKey(i))

AfterGet(r) ==
    /\ Returned(r, "get")
    /\ Fail(r) \/ (Succeeded(r) /\ Reply(r, Answered(r), "ok"))

-----------------------------------------------------------------------------
(* UpdateUser *)

StartUpdate(r) ==
    \E i \in KnownIds, patch \in Patch :
        Arrive(r, "update", i, patch, "load", NoUser, "GetByID", IdKey(i))

\* (Mutation: an empty field overwrites the stored one.)
Always(given, old) == given
OrElse(given, old) == IF given = NotGiven THEN old ELSE given

\* The fields that are copied without a check; the nickname is one of them.
Patched(u, patch) ==
    [u EXCEPT !.nickname = OrElse(patch.nickname, @), !.profile = OrElse(patch.profile, @)]

\* The user may come from the cache, without its password hash, and stale.
AfterLoad(r) ==
    LET u     == Patched(Answered(r), svc[r].patch)
        email == OrElse(svc[r].patch.email, u.email)
    IN  /\ Returned(r, "load")
        /\ \/ Fail(r)
           \/ /\ Succeeded(r) /\ email # u.email
              /\ CallNext(r, "update_email_check", u, "GetByEmail", EmailKey(email), NoUser)
           \/ /\ Succeeded(r) /\ email = u.email
              /\ CallNext(r, "update", u, "Update", IdKey(svc[r].id), u)

AfterUpdateEmailCheck(r) ==
    LET takenByOther == Succeeded(r) /\ Answered(r).id # svc[r].id
        u == [svc[r].user EXCEPT !.email = svc[r].patch.email]
    IN  /\ Returned(r, "update_email_check")
        /\ \/ takenByOther /\ Reply(r, NoUser, "email_taken")
           \/ ~ takenByOther /\ CallNext(r, "update", u, "Update", IdKey(svc[r].id), u)

\* (Mutation: the error of repo.Update is dropped.)
AfterUpdateUnchecked(r) == Returned(r, "update") /\ ThenPublish(r, svc[r].user)

\* The reply and the event carry the user as it was sent to the repository.
AfterUpdate(r) ==
    /\ Returned(r, "update")
    /\ Fail(r) \/ (Succeeded(r) /\ ThenPublish(r, svc[r].user))

-----------------------------------------------------------------------------
(* DeleteUser *)

StartDelete(r) ==
    \E i \in KnownIds :
        Arrive(r, "delete", i, EmptyPatch, "delete_load", NoUser, "GetByID", IdKey(i))

AfterDeleteLoad(r) ==
    /\ Returned(r, "delete_load")
    /\ \/ Fail(r)
       \/ /\ Succeeded(r)
          /\ CallNext(r, "delete", Answered(r), "Delete", IdKey(svc[r].id), NoUser)

\* (Mutation: no event for a deleted user.)
AfterDeleteSilently(r) ==
    /\ Returned(r, "delete")
    /\ Fail(r) \/ (Succeeded(r) /\ Reply(r, svc[r].user, "ok"))

AfterDelete(r) ==
    /\ Returned(r, "delete")
    /\ Fail(r) \/ (Succeeded(r) /\ ThenPublish(r, svc[r].user))

-----------------------------------------------------------------------------
(* Events *)

EventType == [create |-> "created", update |-> "updated", delete |-> "deleted"]

EventOf(r) == [type |-> EventType[svc[r].op], user |-> Sanitize(svc[r].user), by |-> r]

\* A failure is logged and does not change the reply.
Publish(r) ==
    /\ svc[r].pc = "publish"
    /\ events' = events \cup {EventOf(r)} \/ (PublishFaults /\ events' = events)
    /\ svc' = [svc EXCEPT ![r].pc = "replied"]
    /\ UNCHANGED <<users, redis, call, committed>>

-----------------------------------------------------------------------------

\* The process dies: every request in flight is lost, its caller sees no reply.
ServiceCrash ==
    /\ ProcessCrashes
    /\ InService # {}
    /\ svc' = [r \in Requests |->
                  IF r \in InService
                  THEN [NoRequest EXCEPT !.pc = "lost", !.op = svc[r].op, !.id = svc[r].id]
                  ELSE svc[r]]
    /\ call' = [r \in Requests |-> NoCall]
    /\ UNCHANGED <<users, redis, committed, events>>

RepositoryStep(r) == Step(r) /\ UNCHANGED <<svc, events>>
CacheExpiry       == (\E k \in Keys : Expire(k)) /\ UNCHANGED <<svc, events>>

Request(r) == StartCreate(r) \/ HashFails(r) \/ StartGet(r) \/ StartUpdate(r) \/ StartDelete(r)

ServiceStep(r) ==
    \/ AfterEmailCheck(r) \/ AfterNicknameCheck(r) \/ AfterCreate(r)
    \/ AfterGet(r)
    \/ AfterLoad(r) \/ AfterUpdateEmailCheck(r) \/ AfterUpdate(r)
    \/ AfterDeleteLoad(r) \/ AfterDelete(r)
    \/ Publish(r)

ServiceNext ==
    \/ \E r \in Requests : Request(r) \/ ServiceStep(r) \/ RepositoryStep(r)
    \/ CacheExpiry
    \/ ServiceCrash

ServiceSpec == ServiceInit /\ [][ServiceNext]_serviceVars

\* The Go scheduler runs the goroutine of every request, go-redis gives up a
\* command after its timeouts, and the Kafka writer only buffers.  A statement
\* may take for ever.
ServiceFairness ==
    \A r \in Requests :
        WF_serviceVars(ServiceStep(r) \/ (~ AwaitsPostgres(r) /\ RepositoryStep(r)))

FairServiceSpec == ServiceSpec /\ ServiceFairness

-----------------------------------------------------------------------------
(* Properties *)

\* Every variable keeps its shape.
ServiceTypeOK ==
    /\ TypeOK
    /\ svc \in [Requests -> [pc    : Waits \cup {"idle", "replied", "lost"},
                            op    : Operations \cup {"none"},
                            id    : Ids \cup {NoUser},
                            patch : Patch,
                            user  : User \cup {NoUser},
                            reply : Replies]]
    /\ events \subseteq [type : {"created", "updated", "deleted"}, user : User, by : Requests]

Replied(r, replies) == svc[r].pc = "replied" /\ svc[r].reply \in replies

\* A reply of success is never given for a change that was not made: the row the
\* request reports was stored by that request, and a deleted user is gone.
SuccessIsCommitted ==
    \A r \in Requests : Replied(r, {"ok"}) =>
        /\ svc[r].op \in {"create", "update"} =>
              \E u \in committed : u = [svc[r].user EXCEPT !.updated = r]
        /\ svc[r].op = "delete" => ~ HasId(users, svc[r].id)

\* A request that is answered 409 has written nothing, whichever of the checks
\* and constraints refused it.
RefusalWritesNothing ==
    \A r \in Requests : Replied(r, {"email_taken", "nickname_taken"}) =>
        \A u \in committed : u.updated # r

\* A request that is answered 404 named a user that does not exist, although
\* its first lookup goes to a cache that may be stale or out of reach.
MissingIsGone ==
    \A r \in Requests : Replied(r, {"not_found"}) => ~ HasId(users, svc[r].id)

\* An event never announces what did not happen: a created or updated user was
\* stored by the request with that data, and a deleted user is not there.
EventsTellTheTruth ==
    \A e \in events :
        IF e.type = "deleted"
        THEN ~ HasId(users, e.user.id)
        ELSE \E u \in committed : Sanitize(u) = [e.user EXCEPT !.updated = e.by]

\* However many requests delete a user, at most one of them announces it.
OneDeletedEvent ==
    \A e, f \in events :
        e.type = "deleted" /\ f.type = "deleted" /\ e.user.id = f.user.id => e = f

\* "Fields are optional; only provided fields will be updated": an update does
\* not touch a column that its request leaves empty.
OnlyProvidedFieldsChange ==
    [][\A u \in users, v \in users' : u.id = v.id /\ u # v =>
        LET patch == svc[v.updated].patch IN
        /\ patch.email = NotGiven => v.email = u.email
        /\ patch.nickname = NotGiven => v.nickname = u.nickname
        /\ patch.profile = NotGiven => v.profile = u.profile]_serviceVars

\* The same of the column no update request provides: the password hash.
UpdateKeepsPassword ==
    [][\A u \in users, v \in users' : u.id = v.id => v.password = u.password]_serviceVars

\* "Publishes user lifecycle events (Created, Updated, Deleted)": once no request
\* is being served, every change that was made has been announced.
EveryChangeIsAnnounced ==
    InService = {} => \A u \in committed :
        /\ u.updated \in Requests => \E e \in events : e.by = u.updated /\ e.type # "deleted"
        /\ ~ HasId(users, u.id) => \E e \in events : e.user.id = u.id /\ e.type = "deleted"

\* A lookup answers with the user as it is stored at that moment.
ReplyIsCurrent ==
    [][\A r \in Requests :
        svc'[r].op = "get" /\ svc'[r].reply = "ok" /\ svc[r].pc = "get" /\ svc'[r].pc = "replied"
            => \E u \in users : Sanitize(u) = Sanitize(svc'[r].user)]_serviceVars

\* Nothing but a statement that PostgreSQL does not finish keeps a request from
\* its reply: neither a failing Redis or Kafka nor an error at any step of it.
OnlyPostgresHoldsRequests ==
    \A r \in Requests : []<>(svc[r].pc \notin Waits \/ AwaitsPostgres(r))
=============================================================================
