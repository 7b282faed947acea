-------------------------- MODULE CachedRepository --------------------------
(***************************************************************************)
(* CacheDecorator over UserRepository: the write-through, read-through     *)
(* Redis cache of users in front of the PostgreSQL table.                  *)
(*                                                                         *)
(* Every request runs on a goroutine of its own and every call it makes to *)
(* PostgreSQL or Redis is one step here, so that the calls of different    *)
(* requests interleave.  A pipeline is not a transaction (Redis runs other *)
(* clients' commands between those of a pipeline), so each of its commands *)
(* is a step too.  PostgreSQL executes one statement atomically.           *)
(***************************************************************************)
EXTENDS UserTable

CONSTANTS
    InitialTables,      \* the tables the service may find when it starts
    MaxInFlight,        \* how many requests run at a time (1: sequential)
    DbFaults,           \* may a statement fail (lost connection, cancelled context)?
    RedisFaults,        \* may a Redis command fail?
    ProcessCrashes,     \* may the process die while requests are in flight?
    CacheTTL            \* RedisConfig.CacheTTL: 0 keeps an entry forever

ASSUME InitialTablesAssumption ==
    /\ InitialTables \subseteq SUBSET User
    /\ \A T \in InitialTables : IdentifiesRows(T) /\ \A u \in T : u.updated = Seed
ASSUME SwitchAssumption == {DbFaults, RedisFaults, ProcessCrashes} \subseteq BOOLEAN
ASSUME BoundAssumption == CacheTTL \in Nat /\ MaxInFlight \in Nat

VARIABLES
    users,      \* the PostgreSQL table
    redis,      \* redis[k]: the cached JSON document, or NoUser
    call,       \* call[r]: the activation of a CacheDecorator method for request r
    committed   \* history: every row that was ever in the table

vars == <<users, redis, call, committed>>

Reads  == {"GetByID", "GetByEmail", "GetByNickname"}
Writes == {"Create", "Update", "Delete"}
Errors == {"ok", "not_found", "email_taken", "nickname_taken", "db_error", "cache_error"}

\* The statement or command a method activation is about to execute.
Running == {"lookup", "select", "insert", "load", "update", "delete", "reload", "set", "del"}
Points  == Running \cup {"idle", "done", "lost"}

\* The first one, by method.
Entry == [GetByID |-> "lookup", GetByEmail |-> "lookup", GetByNickname |-> "lookup",
          Create |-> "insert", Update |-> "load", Delete |-> "load"]

(***************************************************************************)
(* Activations.  "key" names the row the call is about, "user" is the row  *)
(* passed in or returned, "row" the one whose keys are being set or        *)
(* deleted, "n" the next command of the pipeline.                          *)
(***************************************************************************)
Activation == [pc   : Points,
               fn   : Reads \cup Writes \cup {"none"},
               key  : Keys \cup {NoKey},
               user : User \cup {NoUser},
               row  : User \cup {NoUser},
               n    : 1..3,
               err  : Errors]

NoCall == [pc |-> "idle", fn |-> "none", key |-> NoKey, user |-> NoUser,
           row |-> NoUser, n |-> 1, err |-> "ok"]

Called(fn, k, u) == [pc |-> Entry[fn], fn |-> fn, key |-> k, user |-> u,
                     row |-> NoUser, n |-> 1, err |-> "ok"]

Begin(r, fn, k, u) == call' = [call EXCEPT ![r] = Called(fn, k, u)]

At(r, p)  == call[r].pc = p
Goto(r, p) == call' = [call EXCEPT ![r].pc = p]

\* The method returns; its locals are gone.
Finish(r, e) ==
    call' = [call EXCEPT ![r].pc = "done", ![r].err = e, ![r].row = NoUser, ![r].n = 1]

\* cacheUser(u) and invalidateUserCache(u) start a pipeline over the keys of u.
StartPipeline(r, p, u) == call' = [call EXCEPT ![r].pc = p, ![r].row = u, ![r].n = 1]

(***************************************************************************)
(* Redis is not restarted with the service: at start it holds what earlier *)
(* runs have cached and what has not expired since.                        *)
(***************************************************************************)
Init ==
    /\ users \in InitialTables
    /\ \E warm \in SUBSET {k \in Keys : \E u \in users : k \in KeySet(u)} :
          redis = [k \in Keys |-> IF k \in warm
                                  THEN Sanitize(CHOOSE u \in users : k \in KeySet(u))
                                  ELSE NoUser]
    /\ call = [r \in Requests |-> NoCall]
    /\ committed = users

-----------------------------------------------------------------------------
(* GetByID, GetByEmail, GetByNickname *)

\* getUserFromCache finds the key.
CacheHit(r) ==
    /\ At(r, "lookup")
    /\ redis[call[r].key] # NoUser
    /\ call' = [call EXCEPT ![r].pc = "done", ![r].user = redis[call[r].key]]
    /\ UNCHANGED <<users, redis, committed>>

\* Any error of getUserFromCache, of the connection as well, counts as a miss.
\* (Mutation: a failing Redis is taken for a missing user.)
CacheMissOrNotFound(r) ==
    /\ At(r, "lookup")
    /\ \/ redis[call[r].key] = NoUser /\ Goto(r, "select")
       \/ RedisFaults /\ Finish(r, "not_found")
    /\ UNCHANGED <<users, redis, committed>>

CacheMiss(r) ==
    /\ At(r, "lookup")
    /\ redis[call[r].key] = NoUser \/ RedisFaults
    /\ Goto(r, "select")
    /\ UNCHANGED <<users, redis, committed>>

SelectRow(r) ==
    /\ At(r, "select")
    /\ \/ \E u \in RowsUnder(users, call[r].key) :
             call' = [call EXCEPT ![r].pc = "set", ![r].user = u, ![r].row = u, ![r].n = 1]
       \/ RowsUnder(users, call[r].key) = {} /\ Finish(r, "not_found")
    /\ UNCHANGED <<users, redis, committed>>

-----------------------------------------------------------------------------
(* Create, Update, Delete *)

\* A statement that leaves the table T commits.  Its result may get lost on the
\* way back: the caller then sees a database error for a change that was made.
Commit(r, T, onSuccess) ==
    /\ users' = T
    /\ committed' = committed \cup T
    /\ onSuccess \/ (DbFaults /\ Finish(r, "db_error"))
    /\ UNCHANGED redis

\* A statement fails or finds nothing to change.
Reject(r, e) == Finish(r, e) /\ UNCHANGED <<users, redis, committed>>

\* (Mutation: the error of the INSERT is not looked at before caching.)
InsertRowUnchecked(r) ==
    LET u == call[r].user IN
    /\ At(r, "insert")
    /\ \/ Conflicts(users, u) = {} /\ Commit(r, users \cup {u}, StartPipeline(r, "set", u))
       \/ /\ Conflicts(users, u) # {}
          /\ StartPipeline(r, "set", u)
          /\ UNCHANGED <<users, redis, committed>>

\* (Mutation: an INSERT is retried and collides with its own row.)
InsertRowTwice(r) ==
    LET u == call[r].user IN
    /\ At(r, "insert")
    /\ \/ Conflicts(users, u) = {} /\ Commit(r, users \cup {u}, Finish(r, "email_taken"))
       \/ \E e \in Conflicts(users, u) : Reject(r, e)

InsertRow(r) ==
    LET u == call[r].user IN
    /\ At(r, "insert")
    /\ \/ Conflicts(users, u) = {} /\ Commit(r, users \cup {u}, StartPipeline(r, "set", u))
       \/ \E e \in Conflicts(users, u) : Reject(r, e)

\* c.repo.GetByID at the start of Update and Delete: it bypasses the cache.
LoadRow(r) ==
    /\ At(r, "load")
    /\ \/ \E u \in RowsUnder(users, call[r].key) :
             call' = [call EXCEPT ![r].pc = IF call[r].fn = "Update" THEN "update" ELSE "delete",
                                  ![r].row = u]
       \/ RowsUnder(users, call[r].key) = {} /\ Finish(r, "not_found")
    /\ UNCHANGED <<users, redis, committed>>

\* (Mutation: an UPDATE that matches no row inserts it.)
UpsertRow(r) ==
    LET new == [call[r].user EXCEPT !.updated = r]
        old == RowsUnder(users, call[r].key)
    IN  /\ At(r, "update")
        /\ \/ /\ Conflicts(users \ old, new) = {}
              /\ Commit(r, (users \ old) \cup {new}, StartPipeline(r, "del", call[r].row))
           \/ \E e \in Conflicts(users \ old, new) : Reject(r, e)

\* (Mutation: the keys of the new row are invalidated, not those of the old one.)
UpdateRowKeepingOldKeys(r) ==
    LET new == [call[r].user EXCEPT !.updated = r] IN
    /\ At(r, "update")
    /\ \/ \E u \in RowsUnder(users, call[r].key) :
             \/ /\ Conflicts(users \ {u}, new) = {}
                /\ Commit(r, (users \ {u}) \cup {new}, StartPipeline(r, "del", new))
             \/ \E e \in Conflicts(users \ {u}, new) : Reject(r, e)
       \/ RowsUnder(users, call[r].key) = {} /\ Reject(r, "not_found")

\* UPDATE ... WHERE id = $8 writes every column; the row whose keys it then
\* invalidates is the one LoadRow has read.
UpdateRow(r) ==
    LET new == [call[r].user EXCEPT !.updated = r] IN
    /\ At(r, "update")
    /\ \/ \E u \in RowsUnder(users, call[r].key) :
             \/ /\ Conflicts(users \ {u}, new) = {}
                /\ Commit(r, (users \ {u}) \cup {new}, StartPipeline(r, "del", call[r].row))
             \/ \E e \in Conflicts(users \ {u}, new) : Reject(r, e)
       \/ RowsUnder(users, call[r].key) = {} /\ Reject(r, "not_found")

\* (Mutation: Delete does not invalidate the cache.)
DeleteRowOnly(r) ==
    /\ At(r, "delete")
    /\ \/ \E u \in RowsUnder(users, call[r].key) : Commit(r, users \ {u}, Finish(r, "ok"))
       \/ RowsUnder(users, call[r].key) = {} /\ Reject(r, "not_found")

\* (Mutation: the number of deleted rows is not looked at.)
DeleteRowBlindly(r) ==
    /\ At(r, "delete")
    /\ Commit(r, users \ RowsUnder(users, call[r].key), StartPipeline(r, "del", call[r].row))

DeleteRow(r) ==
    /\ At(r, "delete")
    /\ \/ \E u \in RowsUnder(users, call[r].key) :
             Commit(r, users \ {u}, StartPipeline(r, "del", call[r].row))
       \/ RowsUnder(users, call[r].key) = {} /\ Reject(r, "not_found")

\* (Mutation: Update caches the row it read before the write.)
RecacheLoadedRow(r) ==
    /\ At(r, "reload")
    /\ StartPipeline(r, "set", call[r].row)
    /\ UNCHANGED <<users, redis, committed>>

\* Update re-reads the row it wrote in order to cache it.
ReloadRow(r) ==
    /\ At(r, "reload")
    /\ \/ \E u \in RowsUnder(users, call[r].key) : StartPipeline(r, "set", u)
       \/ RowsUnder(users, call[r].key) = {} /\ Finish(r, "not_found")
    /\ UNCHANGED <<users, redis, committed>>

\* Nothing bounds the time of a statement: neither the connection nor the
\* request's context has a deadline.
AwaitsPostgres(r) ==
    call[r].pc \in {"select", "insert", "load", "update", "delete", "reload"}

\* A statement fails without effect.
QueryFails(r) ==
    /\ DbFaults
    /\ AwaitsPostgres(r)
    /\ Reject(r, "db_error")

-----------------------------------------------------------------------------
(* cacheUser, invalidateUserCache *)

\* The key the n-th command of the pipeline is about, and what it leaves there.
PipelineKey(r, n) == KeysOf(call[r].row)[n]
PipelineValue(r)  == IF At(r, "set") THEN Sanitize(call[r].row) ELSE NoUser

AfterPipeline(r) ==
    IF At(r, "del") /\ call[r].fn = "Update" THEN Goto(r, "reload") ELSE Finish(r, "ok")

\* (Mutation: off by one.)
FourCommands(r) == call[r].n <= 3
MoreCommands(r) == call[r].n < 3

PipelineCommand(r) ==
    /\ call[r].pc \in {"set", "del"}
    /\ redis' = [redis EXCEPT ![PipelineKey(r, call[r].n)] = PipelineValue(r)]
    /\ IF MoreCommands(r)
       THEN call' = [call EXCEPT ![r].n = @ + 1]
       ELSE AfterPipeline(r)
    /\ UNCHANGED <<users, committed>>

\* (Mutation: a failed pipeline is run again until it succeeds, without limit.)
PipelineRestarts(r) ==
    /\ RedisFaults
    /\ call[r].pc \in {"set", "del"}
    /\ call' = [call EXCEPT ![r].n = 1]
    /\ UNCHANGED <<users, redis, committed>>

\* Exec reports an error after any part of the remaining commands was applied.
PipelineFails(r) ==
    /\ RedisFaults
    /\ call[r].pc \in {"set", "del"}
    /\ \E applied \in SUBSET {PipelineKey(r, n) : n \in call[r].n .. 3} :
          redis' = [k \in Keys |-> IF k \in applied THEN PipelineValue(r) ELSE redis[k]]
    /\ Finish(r, "cache_error")
    /\ UNCHANGED <<users, committed>>

-----------------------------------------------------------------------------
(* The environment *)

\* (Mutation: only the entries by id are given a time to live.)
ExpireById(k) ==
    /\ CacheTTL > 0
    /\ redis[k] # NoUser /\ k[1] = "id"
    /\ redis' = [redis EXCEPT ![k] = NoUser]
    /\ UNCHANGED <<users, call, committed>>

\* An entry reaches its time to live.
Expire(k) ==
    /\ CacheTTL > 0
    /\ redis[k] # NoUser
    /\ redis' = [redis EXCEPT ![k] = NoUser]
    /\ UNCHANGED <<users, call, committed>>

InFlight == {r \in Requests : call[r].pc \in Running}

\* The process dies (or main calls os.Exit): PostgreSQL and Redis keep their state.
Crash ==
    /\ ProcessCrashes
    /\ InFlight # {}
    /\ call' = [r \in Requests |->
                   IF r \in InFlight THEN [NoCall EXCEPT !.pc = "lost", !.key = call[r].key]
                   ELSE call[r]]
    /\ UNCHANGED <<users, redis, committed>>

\* uuid.New returns an id that no row has had and that nobody has asked for;
\* nobody can ask for it before the row is inserted.
FreshIds  == {i \in Ids : /\ ~ HasId(committed, i)
                          /\ \A r \in Requests : call[r].key # IdKey(i)}
UnbornIds == {i \in Ids : \E r \in Requests : At(r, "insert") /\ call[r].key = IdKey(i)}

\* Without the service: a request calls one method, once.  A row to update was
\* read with its password hash (from the table) or without (from the cache).
Invoke(r) ==
    /\ At(r, "idle")
    /\ Cardinality(InFlight) < MaxInFlight
    /\ \/ \E i \in Ids \ UnbornIds : Begin(r, "GetByID", IdKey(i), NoUser)
       \/ \E e \in Emails  : Begin(r, "GetByEmail", EmailKey(e), NoUser)
       \/ \E n \in Nicknames : Begin(r, "GetByNickname", NickKey(n), NoUser)
       \/ \E i \in FreshIds, u \in User :
             /\ u.id = i /\ u.password = "hash" /\ u.updated = r
             /\ Begin(r, "Create", IdKey(i), u)
       \/ \E old \in committed, u \in User :
             /\ u.id = old.id /\ u.updated = old.updated
             /\ Begin(r, "Update", IdKey(u.id), u)
       \/ \E i \in Ids \ UnbornIds : Begin(r, "Delete", IdKey(i), NoUser)
    /\ UNCHANGED <<users, redis, committed>>

-----------------------------------------------------------------------------

Step(r) ==
    \/ CacheHit(r) \/ CacheMiss(r) \/ SelectRow(r)
    \/ InsertRow(r) \/ LoadRow(r) \/ UpdateRow(r) \/ DeleteRow(r) \/ ReloadRow(r)
    \/ QueryFails(r)
    \/ PipelineCommand(r) \/ PipelineFails(r)

Next ==
    \/ \E r \in Requests : Invoke(r) \/ Step(r)
    \/ \E k \in Keys : Expire(k)
    \/ Crash

\* Redis expires entries on its own.  No call is fair: any of them may wait for
\* PostgreSQL for ever, and at any command of its pipeline the process may die.
Fairness == WF_vars(\E k \in Keys : Expire(k))

Spec     == Init /\ [][Next]_vars
FairSpec == Spec /\ Fairness

-----------------------------------------------------------------------------
(* Properties *)

\* Every variable keeps its shape.
TypeOK ==
    /\ users \subseteq User
    /\ redis \in [Keys -> User \cup {NoUser}]
    /\ call \in [Requests -> Activation]
    /\ committed \subseteq User

\* Whatever fails, dies or interleaves, a cache entry is the JSON projection of
\* a row that was in the table, filed under one of that row's own keys: a key
\* never leads to another user's document, nor to one that was never stored
\* (the decorator caches only after the INSERT or what a SELECT returned).
CacheHoldsCommittedRows ==
    \A k \in Keys : redis[k] # NoUser =>
        \E u \in committed : k \in KeySet(u) /\ redis[k] = Sanitize(u)

\* A lookup that succeeds returns a user that matches the key and was stored
\* once, be it from the cache, from the table, or from a cache filled by others.
ReadsReturnCommittedRows ==
    \A r \in Requests : At(r, "done") /\ call[r].fn \in Reads /\ call[r].err = "ok" =>
        \E u \in committed : call[r].key \in KeySet(u) /\ Sanitize(call[r].user) = Sanitize(u)

\* No two users ever share an id, an email or a nickname, however the INSERTs
\* and UPDATEs of concurrent requests interleave with their checks.
UniqueIdentity == IdentifiesRows(users)

\* A call that names a row by its id and answers ErrNotFound is right about it,
\* then and ever after: ids are not reused, no UPDATE brings a row back, and
\* neither a cache miss nor a failing Redis is mistaken for a missing user.
NotFoundIsTrue ==
    \A r \in Requests : At(r, "done") /\ call[r].err = "not_found" =>
        \A i \in Ids : call[r].key = IdKey(i) => ~ HasId(users, i)

\* A method that reports a taken email or nickname has not written its row.
ConflictWritesNothing ==
    \A r \in Requests :
        At(r, "done") /\ call[r].err \in {"email_taken", "nickname_taken"} =>
            \A u \in committed : u.updated # r

\* A deleted user stays deleted: an UPDATE that was prepared before the DELETE
\* matches no row afterwards.
NoResurrection ==
    [][\A u \in committed : ~ HasId(users, u.id) => ~ HasId(users', u.id)]_vars

\* What the cache holds is what the table holds.
Coherent ==
    \A k \in Keys : redis[k] # NoUser => \E u \in users : redis[k] = Sanitize(u)

\* "Cache invalidation logic ensures data consistency during updates and
\* deletes": with no call under way, the cache agrees with the table.
CoherentAtRest == InFlight = {} => Coherent

\* After the last write, stale entries that races, failed pipelines, crashes or
\* calls that hang for ever left behind go away for good: the time to live is
\* what repairs the cache.
EventuallyCoherent == <>[]Coherent

(***************************************************************************)
(* Without concurrency and faults the decorator is a Repository: its calls *)
(* take effect on the table as if there were no cache.                     *)
(***************************************************************************)
AsOp(r) ==
    LET a == call[r]
        withoutHash == IF a.user = NoUser \/ a.fn = "Delete" THEN NoUser ELSE Sanitize(a.user)
    IN  CASE a.pc = "idle" -> [status |-> "idle", fn |-> "none", key |-> NoKey,
                               user |-> NoUser, err |-> "ok"]
          [] a.pc \in {"lookup", "select", "insert", "load", "update", "delete"} ->
                [status |-> "pending", fn |-> a.fn, key |-> a.key, user |-> withoutHash, err |-> "ok"]
          [] OTHER -> [status |-> "returned", fn |-> a.fn, key |-> a.key,
                       user |-> withoutHash, err |-> a.err]

Ideal == INSTANCE Repository WITH
            table <- {Sanitize(u) : u \in users},
            op    <- [r \in Requests |-> AsOp(r)]

\* The detailed specification implements the abstract one.
ImplementsRepository == Ideal!Spec

=============================================================================
