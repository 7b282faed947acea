----------------------- MODULE CachedRepositoryProofs -----------------------
(***************************************************************************)
(* Theorems about CachedRepository, for every set of requests, users and   *)
(* keys, and whatever faults the constants allow.                          *)
(***************************************************************************)
EXTENDS CachedRepository, TLAPS

USE DEF IdKey, EmailKey, NickKey

-----------------------------------------------------------------------------
(* Lemmas about rows and keys *)

\* The n-th key of a row is a key, and one of its keys.
LEMMA KeysOfRow ==
    ASSUME NEW u \in User, NEW n \in 1..3
    PROVE  KeysOf(u)[n] \in Keys /\ KeysOf(u)[n] \in KeySet(u)
<1>1. n = 1 \/ n = 2 \/ n = 3
  OBVIOUS
<1>2. u.id \in Ids /\ u.email \in Emails /\ u.nickname \in Nicknames
  BY DEF User
<1>3. KeysOf(u)[n] \in Keys
  BY <1>1, <1>2 DEF KeysOf, Keys
<1> QED
  BY <1>3 DEF KeySet

\* Dropping the password leaves a row with the same keys.
LEMMA SanitizedRow ==
    ASSUME NEW u \in User
    PROVE  /\ Sanitize(u) \in User
           /\ KeySet(Sanitize(u)) = KeySet(u)
           /\ Sanitize(Sanitize(u)) = Sanitize(u)
<1>1. /\ Sanitize(u) \in User
      /\ Sanitize(u).id = u.id /\ Sanitize(u).email = u.email
      /\ Sanitize(u).nickname = u.nickname
      /\ Sanitize(Sanitize(u)) = Sanitize(u)
  BY DEF User, Sanitize
<1>2. KeysOf(Sanitize(u)) = KeysOf(u)
  BY <1>1 DEF KeysOf
<1> QED
  BY <1>1, <1>2 DEF KeySet

-----------------------------------------------------------------------------
(* Type correctness *)

\* What an activation holds at each of its points: the strengthening that makes
\* TypeOK inductive.
WellFormed ==
    \A r \in Requests :
        /\ call[r].pc \in {"lookup", "select"} => call[r].fn \in Reads
        /\ At(r, "insert") => call[r].fn = "Create"
        /\ call[r].pc \in {"update", "reload"} => call[r].fn = "Update"
        /\ At(r, "load") => call[r].fn \in {"Update", "Delete"}
        /\ At(r, "delete") => call[r].fn = "Delete"
        /\ At(r, "del") => call[r].fn \in {"Update", "Delete"}
        /\ At(r, "set") => call[r].fn \notin {"none", "Delete"}
        /\ call[r].fn \in {"Create", "Update"} =>
              call[r].user \in User /\ call[r].key = IdKey(call[r].user.id)
        /\ call[r].fn # "none" => call[r].key \in Keys
        /\ call[r].pc \in {"update", "delete", "set", "del"} => call[r].row \in User

TypeInv == TypeOK /\ WellFormed

\* The initial states are well typed: a warm cache holds projections of stored rows.
LEMMA TypeInit == Init => TypeInv
<1> SUFFICES ASSUME Init PROVE TypeInv
  OBVIOUS
<1>1. users \subseteq User /\ committed \subseteq User
  BY InitialTablesAssumption DEF Init
<1>2. redis \in [Keys -> User \cup {NoUser}]
  <2>1. PICK warm \in SUBSET {k \in Keys : \E u \in users : k \in KeySet(u)} :
           redis = [k \in Keys |-> IF k \in warm
                                   THEN Sanitize(CHOOSE u \in users : k \in KeySet(u))
                                   ELSE NoUser]
    BY DEF Init
  <2>2. ASSUME NEW k \in warm
        PROVE  Sanitize(CHOOSE u \in users : k \in KeySet(u)) \in User
    <3>1. \E u \in users : k \in KeySet(u)
      BY <2>1
    <3>2. (CHOOSE u \in users : k \in KeySet(u)) \in User
      BY <1>1, <3>1
    <3> QED
      BY <3>2, SanitizedRow
  <2> QED
    BY <2>1, <2>2
<1>3. NoCall \in Activation
  BY DEF NoCall, Activation, Points, Running, Errors
<1>4. call \in [Requests -> Activation] /\ WellFormed
  BY <1>3 DEF Init, WellFormed, NoCall, At
<1> QED
  BY <1>1, <1>2, <1>4 DEF TypeInv, TypeOK

\* An update of one activation that keeps its shape keeps the shape of call.
LEMMA CallShape ==
    ASSUME NEW r \in Requests, TypeInv, NEW a,
           call' = [call EXCEPT ![r] = a], a \in Activation,
           a.pc \in {"lookup", "select"} => a.fn \in Reads,
           a.pc = "insert" => a.fn = "Create",
           a.pc \in {"update", "reload"} => a.fn = "Update",
           a.pc = "load" => a.fn \in {"Update", "Delete"},
           a.pc = "delete" => a.fn = "Delete",
           a.pc = "del" => a.fn \in {"Update", "Delete"},
           a.pc = "set" => a.fn \notin {"none", "Delete"},
           a.fn \in {"Create", "Update"} => a.user \in User /\ a.key = IdKey(a.user.id),
           a.fn # "none" => a.key \in Keys,
           a.pc \in {"update", "delete", "set", "del"} => a.row \in User
    PROVE  call' \in [Requests -> Activation] /\ WellFormed'
<1>1. call \in [Requests -> Activation]
  BY DEF TypeInv, TypeOK
<1>2. call' \in [Requests -> Activation]
  BY <1>1
<1>3. \A q \in Requests : call'[q] = IF q = r THEN a ELSE call[q]
  BY <1>1
<1>4. WellFormed'
  BY <1>3 DEF TypeInv, WellFormed, At
<1> QED
  BY <1>2, <1>4

\* The activation that Finish leaves.
LEMMA FinishEffect ==
    ASSUME NEW r \in Requests, NEW e, TypeInv, Finish(r, e)
    PROVE  \E a : /\ call' = [call EXCEPT ![r] = a]
                  /\ a.pc = "done" /\ a.err = e /\ a.fn = call[r].fn /\ a.key = call[r].key
                  /\ a.user = call[r].user
                  /\ e \in Errors => a \in Activation
<1> DEFINE b == [call[r] EXCEPT !.pc = "done", !.err = e]
           c == [b EXCEPT !.row = NoUser]
           a == [c EXCEPT !.n = 1]
<1>1. call[r] \in Activation
  BY DEF TypeInv, TypeOK
<1>2. call' = [call EXCEPT ![r] = a]
  BY <1>1 DEF Finish, Activation
<1>3. a.pc = "done" /\ a.err = e /\ a.fn = call[r].fn /\ a.key = call[r].key /\ a.user = call[r].user
  BY <1>1 DEF Activation
<1>4. ASSUME e \in Errors PROVE a \in Activation
  <2>1. b \in Activation
    BY <1>1, <1>4 DEF Activation, Points
  <2> HIDE DEF b
  <2>2. c \in Activation
    BY <2>1 DEF Activation
  <2> HIDE DEF c
  <2> QED
    BY <2>2 DEF Activation
<1> HIDE DEF a, b, c
<1> QED
  BY <1>2, <1>3, <1>4

\* A method that returns leaves a well-formed activation.
LEMMA FinishShape ==
    ASSUME NEW r \in Requests, NEW e \in Errors, TypeInv, Finish(r, e)
    PROVE  call' \in [Requests -> Activation] /\ WellFormed'
<1>1. PICK a : /\ call' = [call EXCEPT ![r] = a] /\ a \in Activation
               /\ a.pc = "done" /\ a.fn = call[r].fn /\ a.key = call[r].key /\ a.user = call[r].user
  BY FinishEffect
<1>2. /\ a.fn \in {"Create", "Update"} => a.user \in User /\ a.key = IdKey(a.user.id)
      /\ a.fn # "none" => a.key \in Keys
  BY <1>1 DEF TypeInv, WellFormed
<1> QED
  BY <1>1, <1>2, CallShape

\* So does one that starts a pipeline over a row of the table.
LEMMA PipelineShape ==
    ASSUME NEW r \in Requests, NEW p \in {"set", "del"}, NEW u \in User, TypeInv,
           StartPipeline(r, p, u),
           call[r].fn # "none", p = "set" => call[r].fn # "Delete",
           p = "del" => call[r].fn \in {"Update", "Delete"}
    PROVE  call' \in [Requests -> Activation] /\ WellFormed'
<1> DEFINE b == [call[r] EXCEPT !.pc = p, !.row = u]
           a == [b EXCEPT !.n = 1]
<1>1. call[r] \in Activation
  BY DEF TypeInv, TypeOK
<1>2. call' = [call EXCEPT ![r] = a]
  BY <1>1 DEF StartPipeline, Activation
<1>3. p \in Points
  BY DEF Points, Running
<1>4. b \in Activation /\ b.pc = p /\ b.fn = call[r].fn /\ b.key = call[r].key
      /\ b.user = call[r].user /\ b.row = u
  BY <1>1, <1>3 DEF Activation
<1> HIDE DEF b
<1>5. a \in Activation /\ a.pc = p /\ a.fn = call[r].fn /\ a.key = call[r].key
      /\ a.user = call[r].user /\ a.row = u
  BY <1>4 DEF Activation
<1>6. /\ a.fn \in {"Create", "Update"} => a.user \in User /\ a.key = IdKey(a.user.id)
      /\ a.fn # "none" => a.key \in Keys
  BY <1>5 DEF TypeInv, WellFormed
<1> HIDE DEF a
<1> QED
  BY <1>2, <1>5, <1>6, CallShape

\* A call of the environment or the service starts with a well-formed activation.
LEMMA BeginShape ==
    ASSUME NEW r \in Requests, TypeInv,
           NEW fn \in Reads \cup Writes, NEW k \in Keys, NEW u \in User \cup {NoUser},
           fn \in {"Create", "Update"} => u \in User /\ k = IdKey(u.id),
           Begin(r, fn, k, u)
    PROVE  call' \in [Requests -> Activation] /\ WellFormed'
<1> DEFINE a == Called(fn, k, u)
<1>1. call' = [call EXCEPT ![r] = a]
  BY DEF Begin
<1>2. /\ a \in Activation /\ a.fn = fn /\ a.key = k /\ a.user = u
      /\ a.pc = IF fn \in Reads THEN "lookup" ELSE IF fn = "Create" THEN "insert" ELSE "load"
  <2>1. Entry[fn] = IF fn \in Reads THEN "lookup" ELSE IF fn = "Create" THEN "insert" ELSE "load"
    BY DEF Entry, Reads, Writes
  <2>2. Entry[fn] \in Points
    BY <2>1 DEF Points, Running
  <2>3. a = [pc |-> Entry[fn], fn |-> fn, key |-> k, user |-> u,
             row |-> NoUser, n |-> 1, err |-> "ok"]
    BY DEF Called
  <2> HIDE DEF a
  <2>4. a \in Activation
    BY <2>2, <2>3 DEF Activation, Errors
  <2> QED
    BY <2>1, <2>3, <2>4
<1>3. fn \in Reads \/ fn = "Create" \/ fn \in {"Update", "Delete"}
  BY DEF Writes
<1>4. fn # "none" /\ (fn \in Reads => fn \notin {"Create", "Update", "Delete"})
  BY DEF Reads, Writes
<1> HIDE DEF a
<1> QED
  BY <1>1, <1>2, <1>3, <1>4, CallShape

\* Every step of a request on PostgreSQL or Redis keeps the types.
LEMMA StepTypes ==
    ASSUME TypeInv, NEW q \in Requests, Step(q)
    PROVE  TypeInv'
<1> USE DEF TypeInv
<1>a. /\ users \subseteq User /\ committed \subseteq User
      /\ redis \in [Keys -> User \cup {NoUser}]
      /\ call \in [Requests -> Activation]
  BY DEF TypeOK
<1>b. \A r \in Requests : call[r] \in Activation
  BY <1>a
<1>e. {"ok", "not_found", "db_error", "cache_error"} \subseteq Errors
  BY DEF Errors
<1>c. ASSUME NEW r \in Requests, NEW e \in Errors, Reject(r, e) PROVE TypeInv'
  <2>1. Finish(r, e) /\ UNCHANGED <<users, redis, committed>>
    BY <1>c DEF Reject
  <2>2. call' \in [Requests -> Activation] /\ WellFormed'
    BY <2>1, FinishShape
  <2> QED
    BY <2>1, <2>2, <1>a DEF TypeOK
<1>2. ASSUME NEW r \in Requests, CacheHit(r) PROVE TypeInv'
  <2> DEFINE a == [call[r] EXCEPT !.pc = "done", !.user = redis[call[r].key]]
  <2>1. call' = [call EXCEPT ![r] = a] /\ UNCHANGED <<users, redis, committed>>
    BY <1>2 DEF CacheHit
  <2>2. call[r].fn \in Reads /\ call[r].key \in Keys
    BY <1>2 DEF CacheHit, WellFormed, At, Reads
  <2>3. redis[call[r].key] \in User \cup {NoUser}
    BY <1>a, <2>2
  <2>4. /\ a \in Activation /\ a.pc = "done" /\ a.fn = call[r].fn /\ a.key = call[r].key
        /\ a.user = redis[call[r].key]
    BY <1>b, <2>3 DEF Activation, Points
  <2>5. a.fn \notin {"Create", "Update"}
    BY <2>2, <2>4 DEF Reads
  <2> HIDE DEF a
  <2>6. call' \in [Requests -> Activation] /\ WellFormed'
    BY <2>1, <2>2, <2>4, <2>5, CallShape
  <2> QED
    BY <2>1, <2>6, <1>a DEF TypeOK
<1>3. ASSUME NEW r \in Requests, CacheMiss(r) PROVE TypeInv'
  <2> DEFINE a == [call[r] EXCEPT !.pc = "select"]
  <2>1. call' = [call EXCEPT ![r] = a] /\ UNCHANGED <<users, redis, committed>>
    BY <1>3 DEF CacheMiss, Goto
  <2>2. call[r].fn \in Reads /\ call[r].key \in Keys
    BY <1>3 DEF CacheMiss, WellFormed, At, Reads
  <2>3. a \in Activation /\ a.pc = "select" /\ a.fn = call[r].fn /\ a.key = call[r].key
    BY <1>b DEF Activation, Points, Running
  <2>4. a.fn \notin {"Create", "Update"}
    BY <2>2, <2>3 DEF Reads
  <2> HIDE DEF a
  <2>5. call' \in [Requests -> Activation] /\ WellFormed'
    BY <2>1, <2>2, <2>3, <2>4, CallShape
  <2> QED
    BY <2>1, <2>5, <1>a DEF TypeOK
<1>4. ASSUME NEW r \in Requests, SelectRow(r) PROVE TypeInv'
  <2>1. UNCHANGED <<users, redis, committed>>
    BY <1>4 DEF SelectRow
  <2>2. call[r].fn \in Reads /\ call[r].key \in Keys
    BY <1>4 DEF SelectRow, WellFormed, At, Reads
  <2>3. ASSUME NEW u \in User,
               call' = [call EXCEPT ![r].pc = "set", ![r].user = u, ![r].row = u, ![r].n = 1]
        PROVE  call' \in [Requests -> Activation] /\ WellFormed'
    <3> DEFINE b == [call[r] EXCEPT !.pc = "set", !.user = u]
               c == [b EXCEPT !.row = u]
               a == [c EXCEPT !.n = 1]
    <3>1. call' = [call EXCEPT ![r] = a]
      BY <2>3, <1>b DEF Activation
    <3>2. "set" \in Points
      BY DEF Points, Running
    <3>3. b \in Activation /\ b.pc = "set" /\ b.fn = call[r].fn /\ b.key = call[r].key
      BY <1>b, <3>2 DEF Activation
    <3> HIDE DEF b
    <3>c. /\ c \in Activation /\ c.pc = "set" /\ c.fn = call[r].fn /\ c.key = call[r].key
          /\ c.row = u
      BY <3>3 DEF Activation
    <3> HIDE DEF c
    <3>4. /\ a \in Activation /\ a.pc = "set" /\ a.fn = call[r].fn /\ a.key = call[r].key
          /\ a.row = u
      BY <3>c DEF Activation
    <3>5. a.fn \notin {"Create", "Update", "Delete", "none"}
      BY <2>2, <3>4 DEF Reads
    <3> HIDE DEF a
    <3> QED
      BY <3>1, <3>4, <3>5, <2>2, CallShape
  <2>4. call' \in [Requests -> Activation] /\ WellFormed'
    BY <1>4, <1>a, <1>e, <2>3, FinishShape DEF SelectRow, RowsUnder
  <2> QED
    BY <2>1, <2>4, <1>a DEF TypeOK
<1>d. ASSUME NEW r \in Requests, NEW T \in SUBSET User, NEW p \in {"set", "del"}, NEW u \in User,
             Commit(r, T, StartPipeline(r, p, u)), call[r].fn # "none",
             p = "set" => call[r].fn # "Delete",
             p = "del" => call[r].fn \in {"Update", "Delete"}
      PROVE  TypeInv'
  <2>1. users' = T /\ committed' = committed \cup T /\ redis' = redis
    BY <1>d DEF Commit
  <2>2. StartPipeline(r, p, u) \/ Finish(r, "db_error")
    BY <1>d DEF Commit
  <2>3. call' \in [Requests -> Activation] /\ WellFormed'
    BY <1>d, <1>e, <2>2, PipelineShape, FinishShape
  <2> QED
    BY <2>1, <2>3, <1>a DEF TypeOK
<1>5. ASSUME NEW r \in Requests, InsertRow(r) PROVE TypeInv'
  <2> DEFINE u == call[r].user
  <2>1. call[r].fn = "Create" /\ u \in User
    BY <1>5 DEF InsertRow, WellFormed, At
  <2>2. CASE Commit(r, users \cup {u}, StartPipeline(r, "set", u))
    <3>1. users \cup {u} \in SUBSET User
      BY <1>a, <2>1
    <3> QED
      BY <2>1, <2>2, <3>1, <1>d
  <2>3. CASE \E e \in Conflicts(users, u) : Reject(r, e)
    BY <2>3, <1>c DEF Conflicts, Errors
  <2> QED
    BY <1>5, <2>2, <2>3 DEF InsertRow
<1>6. ASSUME NEW r \in Requests, LoadRow(r) PROVE TypeInv'
  <2>1. UNCHANGED <<users, redis, committed>>
    BY <1>6 DEF LoadRow
  <2>2. call[r].fn \in {"Update", "Delete"}
    BY <1>6 DEF LoadRow, WellFormed, At
  <2>3. ASSUME NEW u \in User,
               call' = [call EXCEPT ![r].pc = IF call[r].fn = "Update" THEN "update" ELSE "delete",
                                    ![r].row = u]
        PROVE  call' \in [Requests -> Activation] /\ WellFormed'
    <3> DEFINE p == IF call[r].fn = "Update" THEN "update" ELSE "delete"
               a == [call[r] EXCEPT !.pc = p, !.row = u]
    <3>1. call' = [call EXCEPT ![r] = a]
      BY <2>3
    <3>2. /\ p \in Points /\ p \in {"update", "delete"}
          /\ IF p = "update" THEN call[r].fn = "Update" ELSE call[r].fn = "Delete"
      BY <2>2 DEF Points, Running
    <3>3. /\ a \in Activation /\ a.pc = p /\ a.fn = call[r].fn /\ a.key = call[r].key
          /\ a.user = call[r].user /\ a.row = u
      BY <1>b, <3>2 DEF Activation
    <3>4. /\ a.fn \in {"Create", "Update"} => a.user \in User /\ a.key = IdKey(a.user.id)
          /\ a.fn # "none" => a.key \in Keys
      BY <3>3 DEF WellFormed
    <3> HIDE DEF a, p
    <3> QED
      BY <3>1, <3>2, <3>3, <3>4, <2>2, CallShape
  <2>4. call' \in [Requests -> Activation] /\ WellFormed'
    BY <1>6, <1>a, <1>e, <2>3, FinishShape DEF LoadRow, RowsUnder
  <2> QED
    BY <2>1, <2>4, <1>a DEF TypeOK
<1>7. ASSUME NEW r \in Requests, UpdateRow(r) PROVE TypeInv'
  <2> DEFINE new == [call[r].user EXCEPT !.updated = r]
  <2>1. call[r].fn = "Update" /\ call[r].user \in User /\ call[r].row \in User
    BY <1>7 DEF UpdateRow, WellFormed, At
  <2>2. new \in User
    BY <2>1 DEF User
  <2>3. ASSUME NEW u \in users,
               Commit(r, (users \ {u}) \cup {new}, StartPipeline(r, "del", call[r].row))
        PROVE  TypeInv'
    <3>1. (users \ {u}) \cup {new} \in SUBSET User
      BY <1>a, <2>2
    <3> QED
      BY <2>1, <2>3, <3>1, <1>d
  <2>4. ASSUME NEW u \in users, \E e \in Conflicts(users \ {u}, new) : Reject(r, e)
        PROVE  TypeInv'
    BY <2>4, <1>c DEF Conflicts, Errors
  <2> QED
    BY <1>7, <2>3, <2>4, <1>c, <1>e DEF UpdateRow, RowsUnder
<1>8. ASSUME NEW r \in Requests, DeleteRow(r) PROVE TypeInv'
  <2>1. call[r].fn \in {"Update", "Delete"} /\ call[r].row \in User
    BY <1>8 DEF DeleteRow, WellFormed, At
  <2>2. ASSUME NEW u \in users, Commit(r, users \ {u}, StartPipeline(r, "del", call[r].row))
        PROVE  TypeInv'
    <3>1. users \ {u} \in SUBSET User
      BY <1>a
    <3> QED
      BY <2>1, <2>2, <3>1, <1>d
  <2> QED
    BY <1>8, <2>2, <1>c, <1>e DEF DeleteRow, RowsUnder
<1>9. ASSUME NEW r \in Requests, ReloadRow(r) PROVE TypeInv'
  <2>1. UNCHANGED <<users, redis, committed>>
    BY <1>9 DEF ReloadRow
  <2>2. call[r].fn = "Update"
    BY <1>9 DEF ReloadRow, WellFormed, At
  <2>3. call' \in [Requests -> Activation] /\ WellFormed'
    BY <1>9, <1>a, <1>e, <2>2, PipelineShape, FinishShape DEF ReloadRow, RowsUnder
  <2> QED
    BY <2>1, <2>3, <1>a DEF TypeOK
<1>10. ASSUME NEW r \in Requests, QueryFails(r) PROVE TypeInv'
  BY <1>10, <1>c, <1>e DEF QueryFails, AwaitsPostgres
<1>v. ASSUME NEW r \in Requests, call[r].pc \in {"set", "del"}
      PROVE  /\ call[r].fn # "none"
             /\ PipelineValue(r) \in User \cup {NoUser}
             /\ \A n \in 1..3 : PipelineKey(r, n) \in Keys
  <2>1. call[r].row \in User
    BY <1>v DEF WellFormed
  <2>2. call[r].fn # "none"
    BY <1>v DEF WellFormed, At
  <2>3. PipelineValue(r) \in User \cup {NoUser}
    BY <2>1, SanitizedRow DEF PipelineValue
  <2> QED
    BY <2>1, <2>2, <2>3, KeysOfRow DEF PipelineKey
<1>11. ASSUME NEW r \in Requests, PipelineCommand(r) PROVE TypeInv'
  <2>1. call[r].pc \in {"set", "del"} /\ UNCHANGED <<users, committed>>
    BY <1>11 DEF PipelineCommand, MoreCommands
  <2>2. redis' \in [Keys -> User \cup {NoUser}]
    <3>1. redis' = [redis EXCEPT ![PipelineKey(r, call[r].n)] = PipelineValue(r)]
      BY <1>11 DEF PipelineCommand, MoreCommands
    <3> QED
      BY <3>1, <2>1, <1>a, <1>v
  <2>3. call' \in [Requests -> Activation] /\ WellFormed'
    <3>1. CASE call[r].n < 3
      <4> DEFINE a == [call[r] EXCEPT !.n = @ + 1]
      <4>1. call' = [call EXCEPT ![r] = a]
        BY <1>11, <3>1 DEF PipelineCommand, MoreCommands
      <4>2. call[r].n \in 1..3
        BY <1>b DEF Activation
      <4>3. call[r].n + 1 \in 1..3
        BY <3>1, <4>2
      <4>4. /\ a \in Activation /\ a.pc = call[r].pc /\ a.fn = call[r].fn
            /\ a.key = call[r].key /\ a.user = call[r].user /\ a.row = call[r].row
        BY <1>b, <4>3 DEF Activation
      <4> HIDE DEF a
      <4> QED
        BY <4>1, <4>4, <2>1, CallShape DEF WellFormed, At
    <3>2. CASE call[r].n >= 3 /\ At(r, "del") /\ call[r].fn = "Update"
      <4> DEFINE a == [call[r] EXCEPT !.pc = "reload"]
      <4>1. call' = [call EXCEPT ![r] = a]
        BY <1>11, <3>2, <1>b DEF PipelineCommand, MoreCommands, AfterPipeline, Goto, Activation
      <4>2. /\ a \in Activation /\ a.pc = "reload" /\ a.fn = call[r].fn
            /\ a.key = call[r].key /\ a.user = call[r].user
        BY <1>b DEF Activation, Points, Running
      <4> HIDE DEF a
      <4> QED
        BY <4>1, <4>2, <3>2, CallShape DEF WellFormed
    <3>3. CASE call[r].n >= 3 /\ ~ (At(r, "del") /\ call[r].fn = "Update")
      <4>1. Finish(r, "ok")
        BY <1>11, <3>3, <1>b DEF PipelineCommand, MoreCommands, AfterPipeline, Activation
      <4> QED
        BY <4>1, <1>e, FinishShape
    <3>4. call[r].n \in 1..3
      BY <1>b DEF Activation
    <3> QED
      BY <3>1, <3>2, <3>3, <3>4
  <2> QED
    BY <2>1, <2>2, <2>3, <1>a DEF TypeOK
<1>12. ASSUME NEW r \in Requests, PipelineFails(r) PROVE TypeInv'
  <2>1. call[r].pc \in {"set", "del"} /\ UNCHANGED <<users, committed>> /\ Finish(r, "cache_error")
    BY <1>12 DEF PipelineFails
  <2>2. redis' \in [Keys -> User \cup {NoUser}]
    BY <1>12, <2>1, <1>a, <1>v DEF PipelineFails
  <2>3. call' \in [Requests -> Activation] /\ WellFormed'
    BY <2>1, <1>e, FinishShape
  <2> QED
    BY <2>1, <2>2, <2>3, <1>a DEF TypeOK
<1> QED
  BY <1>2, <1>3, <1>4, <1>5, <1>6, <1>7, <1>8, <1>9, <1>10, <1>11, <1>12 DEF Step

\* So does a cache entry that expires.
LEMMA ExpireTypes ==
    ASSUME TypeInv, NEW k \in Keys, Expire(k)
    PROVE  TypeInv'
<1>1. redis' = [redis EXCEPT ![k] = NoUser] /\ UNCHANGED <<users, call, committed>>
  BY DEF Expire
<1> QED
  BY <1>1 DEF TypeInv, TypeOK, WellFormed, At

\* Every step, of every request and of the environment, keeps the types.
LEMMA TypeStep == TypeInv /\ [Next]_vars => TypeInv'
<1> SUFFICES ASSUME TypeInv, [Next]_vars PROVE TypeInv'
  OBVIOUS
<1> USE DEF TypeInv
<1>a. /\ users \subseteq User /\ committed \subseteq User
      /\ redis \in [Keys -> User \cup {NoUser}]
      /\ call \in [Requests -> Activation]
  BY DEF TypeOK
<1>b. \A r \in Requests : call[r] \in Activation
  BY <1>a
<1>1. ASSUME NEW r \in Requests, Invoke(r) PROVE TypeInv'
  <2>1. UNCHANGED <<users, redis, committed>>
    BY <1>1 DEF Invoke
  <2>2. call' \in [Requests -> Activation] /\ WellFormed'
    <3>1. CASE \E i \in Ids : Begin(r, "GetByID", IdKey(i), NoUser)
      BY <3>1, BeginShape DEF Reads, Writes, Keys
    <3>2. CASE \E e \in Emails : Begin(r, "GetByEmail", EmailKey(e), NoUser)
      BY <3>2, BeginShape DEF Reads, Writes, Keys
    <3>3. CASE \E n \in Nicknames : Begin(r, "GetByNickname", NickKey(n), NoUser)
      BY <3>3, BeginShape DEF Reads, Writes, Keys
    <3>4. CASE \E u \in User : Begin(r, "Create", IdKey(u.id), u)
      <4>1. PICK u \in User : Begin(r, "Create", IdKey(u.id), u)
        BY <3>4
      <4>2. IdKey(u.id) \in Keys
        BY DEF User, Keys
      <4> QED
        BY <4>1, <4>2, BeginShape DEF Reads, Writes
    <3>5. CASE \E u \in User : Begin(r, "Update", IdKey(u.id), u)
      <4>1. PICK u \in User : Begin(r, "Update", IdKey(u.id), u)
        BY <3>5
      <4>2. IdKey(u.id) \in Keys
        BY DEF User, Keys
      <4> QED
        BY <4>1, <4>2, BeginShape DEF Reads, Writes
    <3>6. CASE \E i \in Ids : Begin(r, "Delete", IdKey(i), NoUser)
      BY <3>6, BeginShape DEF Reads, Writes, Keys
    <3> QED
      BY <1>1, <3>1, <3>2, <3>3, <3>4, <3>5, <3>6 DEF Invoke
  <2> QED
    BY <2>1, <2>2, <1>a DEF TypeOK
<1>2. ASSUME NEW r \in Requests, Step(r) PROVE TypeInv'
  BY <1>2, StepTypes
<1>3. ASSUME NEW k \in Keys, Expire(k) PROVE TypeInv'
  BY <1>3, ExpireTypes
<1>4. ASSUME Crash PROVE TypeInv'
  <2>1. /\ UNCHANGED <<users, redis, committed>>
        /\ call' = [r \in Requests |-> IF r \in InFlight THEN [NoCall EXCEPT !.pc = "lost", !.key = call[r].key]
                                       ELSE call[r]]
    BY <1>4 DEF Crash
  <2>2. ASSUME NEW r \in Requests, r \in InFlight
        PROVE  /\ call'[r] \in Activation
               /\ call'[r].pc = "lost" /\ call'[r].fn = "none"
    <3> DEFINE b == [NoCall EXCEPT !.pc = "lost"]
               a == [b EXCEPT !.key = call[r].key]
    <3>1. call'[r] = a
      BY <2>1, <2>2 DEF NoCall
    <3>2. call[r].key \in Keys \cup {NoKey}
      BY <1>b DEF Activation
    <3>3. b = [pc |-> "lost", fn |-> "none", key |-> NoKey, user |-> NoUser,
               row |-> NoUser, n |-> 1, err |-> "ok"]
      BY DEF NoCall
    <3> HIDE DEF b
    <3>4. a = [pc |-> "lost", fn |-> "none", key |-> call[r].key, user |-> NoUser,
               row |-> NoUser, n |-> 1, err |-> "ok"]
      BY <3>3
    <3> HIDE DEF a
    <3> QED
      BY <3>1, <3>2, <3>4 DEF Activation, Points, Errors
  <2>5. \A r \in Requests : r \notin InFlight => call'[r] = call[r]
    BY <2>1
  <2>3. call' \in [Requests -> Activation]
    BY <2>1, <2>2, <2>5, <1>b
  <2>4. WellFormed'
    BY <2>2, <2>5 DEF WellFormed, At
  <2> QED
    BY <2>1, <2>3, <2>4, <1>a DEF TypeOK
<1>5. ASSUME UNCHANGED vars PROVE TypeInv'
  BY <1>5 DEF vars, TypeOK, WellFormed, At
<1> QED
  BY <1>1, <1>2, <1>3, <1>4, <1>5 DEF Next

\* Every variable keeps its type, whatever fails and however requests interleave.
THEOREM TypeCorrect == Spec => []TypeOK
<1>1. TypeInv => TypeOK
  BY DEF TypeInv
<1> QED
  BY <1>1, TypeInit, TypeStep, PTL DEF Spec

-----------------------------------------------------------------------------
(* What is stored, cached and returned *)

\* Rows have a key in common exactly if they agree on a unique column.
LEMMA SharedKey ==
    ASSUME NEW u \in User, NEW v \in User
    PROVE  KeySet(u) \cap KeySet(v) # {} <=>
              u.id = v.id \/ u.email = v.email \/ u.nickname = v.nickname
<1>1. \A w \in User : KeySet(w) = {<<"id", w.id>>, <<"email", w.email>>, <<"nick", w.nickname>>}
  <2>1. 1..3 = {1, 2, 3}
    OBVIOUS
  <2> QED
    BY <2>1 DEF KeySet, KeysOf
<1>2. ASSUME NEW k \in KeySet(u), k \in KeySet(v)
      PROVE  u.id = v.id \/ u.email = v.email \/ u.nickname = v.nickname
  <2>1. k = <<"id", u.id>> \/ k = <<"email", u.email>> \/ k = <<"nick", u.nickname>>
    BY <1>1
  <2>2. k = <<"id", v.id>> \/ k = <<"email", v.email>> \/ k = <<"nick", v.nickname>>
    BY <1>1, <1>2
  <2> QED
    BY <2>1, <2>2
<1>3. ASSUME u.id = v.id \/ u.email = v.email \/ u.nickname = v.nickname
      PROVE  \E k \in KeySet(u) : k \in KeySet(v)
  BY <1>1, <1>3
<1> QED
  BY <1>2, <1>3

\* A statement that the unique constraints accept keeps rows identifiable.
LEMMA AcceptedRow ==
    ASSUME NEW T \in SUBSET User, NEW u \in User,
           IdentifiesRows(T), Conflicts(T, u) = {}
    PROVE  IdentifiesRows(T \cup {u})
<1>1. \A v \in T : v.id # u.id /\ v.email # u.email /\ v.nickname # u.nickname
  BY DEF Conflicts
<1>2. \A v \in T : KeySet(u) \cap KeySet(v) = {} /\ KeySet(v) \cap KeySet(u) = {}
  BY <1>1, SharedKey
<1> QED
  BY <1>2 DEF IdentifiesRows

\* What an activation carries, given the rows that were ever stored: a row about
\* to be cached is one of them, and so is a row that a lookup returns.
CarriesStored(a, rows) ==
    /\ a.pc = "set" => a.row \in rows
    /\ a.pc = "set" /\ a.fn \in Reads => a.user = a.row /\ a.key \in KeySet(a.row)
    /\ a.pc = "done" /\ a.fn \in Reads /\ a.err = "ok" =>
          /\ a.user \in User
          /\ \E u \in rows : a.key \in KeySet(u) /\ Sanitize(a.user) = Sanitize(u)

\* The inductive invariant behind the three data properties.
DataInv ==
    /\ IdentifiesRows(users)
    /\ users \subseteq committed
    /\ CacheHoldsCommittedRows
    /\ \A r \in Requests : CarriesStored(call[r], committed)

\* The initial states satisfy the data invariant.
LEMMA DataInit == Init => DataInv
<1> SUFFICES ASSUME Init PROVE DataInv
  OBVIOUS
<1>1. IdentifiesRows(users) /\ users \subseteq committed /\ users \subseteq User
  BY InitialTablesAssumption DEF Init
<1>2. CacheHoldsCommittedRows
  <2>1. PICK warm \in SUBSET {k \in Keys : \E u \in users : k \in KeySet(u)} :
           redis = [k \in Keys |-> IF k \in warm
                                   THEN Sanitize(CHOOSE u \in users : k \in KeySet(u))
                                   ELSE NoUser]
    BY DEF Init
  <2> SUFFICES ASSUME NEW k \in Keys, redis[k] # NoUser
               PROVE  \E u \in committed : k \in KeySet(u) /\ redis[k] = Sanitize(u)
    BY DEF CacheHoldsCommittedRows
  <2> DEFINE owner == CHOOSE u \in users : k \in KeySet(u)
  <2>2. k \in warm
    BY <2>1
  <2>3. \E u \in users : k \in KeySet(u)
    BY <2>1, <2>2
  <2>4. owner \in users /\ k \in KeySet(owner)
    BY <2>3
  <2>5. redis[k] = Sanitize(owner)
    BY <2>1, <2>2
  <2> HIDE DEF owner
  <2> QED
    BY <1>1, <2>4, <2>5
<1>3. \A r \in Requests : CarriesStored(call[r], committed)
  BY DEF Init, NoCall, CarriesStored
<1> QED
  BY <1>1, <1>2, <1>3 DEF DataInv

\* The steps on Redis: entries stay, go away, or are set from a stored row.
LEMMA CacheStep ==
    ASSUME DataInv, committed \subseteq committed',
           \A k \in Keys : \/ redis'[k] = redis[k]
                           \/ redis'[k] = NoUser
                           \/ \E u \in committed : k \in KeySet(u) /\ redis'[k] = Sanitize(u)
    PROVE  CacheHoldsCommittedRows'
BY DEF DataInv, CacheHoldsCommittedRows

\* The steps on one activation.
LEMMA CarryStep ==
    ASSUME NEW r \in Requests, NEW a, TypeInv, DataInv,
           committed \subseteq committed',
           call' = [call EXCEPT ![r] = a],
           CarriesStored(a, committed')
    PROVE  \A q \in Requests : CarriesStored(call'[q], committed')
<1>1. \A q \in Requests : call'[q] = IF q = r THEN a ELSE call[q]
  BY DEF TypeInv, TypeOK
<1>2. \A q \in Requests : CarriesStored(call[q], committed')
  BY DEF DataInv, CarriesStored
<1> QED
  BY <1>1, <1>2

\* An activation that returns an error carries nothing, and one that returns
\* successfully after its pipeline carries what the pipeline was about.
LEMMA CarryFinish ==
    ASSUME NEW r \in Requests, NEW e, TypeInv, DataInv,
           committed \subseteq committed', Finish(r, e),
           e = "ok" => call[r].pc \in {"set", "del"}
    PROVE  \A q \in Requests : CarriesStored(call'[q], committed')
<1>1. PICK a : /\ call' = [call EXCEPT ![r] = a]
               /\ a.pc = "done" /\ a.err = e /\ a.fn = call[r].fn /\ a.key = call[r].key
               /\ a.user = call[r].user
  BY FinishEffect
<1>2. call' = [call EXCEPT ![r] = a]
  BY <1>1
<1>3. a.pc = "done" /\ a.err = e /\ a.fn = call[r].fn /\ a.key = call[r].key /\ a.user = call[r].user
  BY <1>1
<1>4. CASE e # "ok"
  <2>1. CarriesStored(a, committed')
    BY <1>3, <1>4 DEF CarriesStored
  <2> QED
    BY <1>2, <2>1, CarryStep
<1>5. CASE e = "ok" /\ call[r].pc = "set"
  <2>1. CarriesStored(a, committed')
    BY <1>3, <1>5 DEF CarriesStored, DataInv, TypeInv, TypeOK
  <2> QED
    BY <1>2, <2>1, CarryStep
<1>6. CASE e = "ok" /\ call[r].pc = "del"
  <2>1. call[r].fn \notin Reads
    BY <1>6 DEF TypeInv, WellFormed, At, Reads
  <2>2. CarriesStored(a, committed')
    BY <1>3, <2>1 DEF CarriesStored
  <2> QED
    BY <1>2, <2>2, CarryStep
<1> QED
  BY <1>4, <1>5, <1>6

\* Starting a pipeline on behalf of a write.
LEMMA CarryPipeline ==
    ASSUME NEW r \in Requests, NEW p \in {"set", "del"}, NEW u, TypeInv, DataInv,
           committed \subseteq committed', StartPipeline(r, p, u),
           call[r].fn \notin Reads, p = "set" => u \in committed'
    PROVE  \A q \in Requests : CarriesStored(call'[q], committed')
<1> DEFINE b == [call[r] EXCEPT !.pc = p, !.row = u]
           a == [b EXCEPT !.n = 1]
<1>1. call[r] \in Activation
  BY DEF TypeInv, TypeOK
<1>2. call' = [call EXCEPT ![r] = a]
  BY <1>1 DEF StartPipeline, Activation
<1>3. a.pc = p /\ a.fn = call[r].fn /\ a.row = u
  BY <1>1 DEF Activation
<1> HIDE DEF a, b
<1>4. CarriesStored(a, committed')
  BY <1>3 DEF CarriesStored
<1> QED
  BY <1>2, <1>4, CarryStep

\* A step that leaves the data alone.
LEMMA QuietData ==
    ASSUME DataInv, UNCHANGED <<users, redis, committed>>,
           \A q \in Requests : CarriesStored(call'[q], committed')
    PROVE  DataInv'
<1>1. CacheHoldsCommittedRows'
  BY CacheStep
<1> QED
  BY <1>1 DEF DataInv

\* A call that begins carries nothing.
LEMMA BeginData ==
    ASSUME TypeInv, DataInv, UNCHANGED <<users, redis, committed>>, NEW r \in Requests,
           NEW fn \in Reads \cup Writes, NEW k, NEW u, Begin(r, fn, k, u)
    PROVE  DataInv'
<1> DEFINE a == Called(fn, k, u)
<1>1. call' = [call EXCEPT ![r] = a]
  BY DEF Begin
<1>2. a.pc \notin {"set", "done"}
  BY DEF Called, Entry, Reads, Writes
<1> HIDE DEF a
<1>3. CarriesStored(a, committed')
  BY <1>2 DEF CarriesStored
<1> QED
  BY <1>1, <1>3, CarryStep, QuietData

\* Every step of a request on PostgreSQL or Redis keeps the data invariant: one
\* case per action.
LEMMA StepData ==
    ASSUME TypeInv, DataInv, NEW z \in Requests, Step(z)
    PROVE  DataInv'
<1>a. /\ users \subseteq User /\ committed \subseteq User
      /\ redis \in [Keys -> User \cup {NoUser}]
      /\ \A r \in Requests : call[r] \in Activation
  BY DEF TypeInv, TypeOK
<1>b. IdentifiesRows(users) /\ users \subseteq committed
  BY DEF DataInv
<1>c. ASSUME NEW r \in Requests, NEW e, Reject(r, e), e # "ok" PROVE DataInv'
  BY <1>c, QuietData, CarryFinish DEF Reject
<1>d. ASSUME NEW r \in Requests, NEW T \in SUBSET User, NEW p \in {"set", "del"}, NEW u \in User,
             Commit(r, T, StartPipeline(r, p, u)), IdentifiesRows(T),
             call[r].fn \notin Reads, p = "set" => u \in T
      PROVE  DataInv'
  <2>1. users' = T /\ committed' = committed \cup T /\ redis' = redis
    BY <1>d DEF Commit
  <2>2. CacheHoldsCommittedRows'
    BY <2>1, CacheStep
  <2>3. CASE StartPipeline(r, p, u)
    <3>1. \A q \in Requests : CarriesStored(call'[q], committed')
      BY <1>d, <2>1, <2>3, CarryPipeline
    <3> QED
      BY <1>d, <2>1, <2>2, <3>1 DEF DataInv
  <2>4. CASE Finish(r, "db_error")
    <3>1. \A q \in Requests : CarriesStored(call'[q], committed')
      BY <2>1, <2>4, CarryFinish
    <3> QED
      BY <1>d, <2>1, <2>2, <3>1 DEF DataInv
  <2> QED
    BY <1>d, <2>3, <2>4 DEF Commit
<1>2. ASSUME NEW r \in Requests, CacheHit(r) PROVE DataInv'
  <2> DEFINE a == [call[r] EXCEPT !.pc = "done", !.user = redis[call[r].key]]
  <2>1. call' = [call EXCEPT ![r] = a] /\ UNCHANGED <<users, redis, committed>>
    BY <1>2 DEF CacheHit
  <2>2. call[r].key \in Keys /\ redis[call[r].key] # NoUser
    BY <1>2 DEF CacheHit, TypeInv, WellFormed, At, Reads
  <2>3. PICK u \in committed : call[r].key \in KeySet(u) /\ redis[call[r].key] = Sanitize(u)
    BY <2>2 DEF DataInv, CacheHoldsCommittedRows
  <2>4. Sanitize(u) \in User /\ Sanitize(Sanitize(u)) = Sanitize(u)
    BY <1>a, SanitizedRow
  <2>5. a.pc = "done" /\ a.key = call[r].key /\ a.user = Sanitize(u)
    BY <1>a, <2>3 DEF Activation
  <2> HIDE DEF a
  <2>6. CarriesStored(a, committed')
    BY <2>1, <2>3, <2>4, <2>5 DEF CarriesStored
  <2> QED
    BY <2>1, <2>6, CarryStep, QuietData
<1>3. ASSUME NEW r \in Requests, CacheMiss(r) PROVE DataInv'
  <2> DEFINE a == [call[r] EXCEPT !.pc = "select"]
  <2>1. call' = [call EXCEPT ![r] = a] /\ UNCHANGED <<users, redis, committed>>
    BY <1>3 DEF CacheMiss, Goto
  <2>2. a.pc = "select"
    BY <1>a DEF Activation
  <2> HIDE DEF a
  <2>3. CarriesStored(a, committed')
    BY <2>2 DEF CarriesStored
  <2> QED
    BY <2>1, <2>3, CarryStep, QuietData
<1>4. ASSUME NEW r \in Requests, SelectRow(r) PROVE DataInv'
  <2>1. UNCHANGED <<users, redis, committed>>
    BY <1>4 DEF SelectRow
  <2>2. ASSUME NEW u \in RowsUnder(users, call[r].key),
               call' = [call EXCEPT ![r].pc = "set", ![r].user = u, ![r].row = u, ![r].n = 1]
        PROVE  \A q \in Requests : CarriesStored(call'[q], committed')
    <3> DEFINE b == [call[r] EXCEPT !.pc = "set", !.user = u]
               c == [b EXCEPT !.row = u]
               a == [c EXCEPT !.n = 1]
    <3>1. call' = [call EXCEPT ![r] = a]
      BY <2>2, <1>a DEF Activation
    <3>2. a.pc = "set" /\ a.key = call[r].key /\ a.user = u /\ a.row = u
      BY <1>a DEF Activation
    <3> HIDE DEF a, b, c
    <3>3. u \in committed /\ call[r].key \in KeySet(u)
      BY <1>b DEF RowsUnder
    <3>4. CarriesStored(a, committed')
      BY <2>1, <3>2, <3>3 DEF CarriesStored
    <3> QED
      BY <2>1, <3>1, <3>4, CarryStep
  <2>3. \A q \in Requests : CarriesStored(call'[q], committed')
    BY <1>4, <2>1, <2>2, CarryFinish DEF SelectRow
  <2> QED
    BY <2>1, <2>3, QuietData
<1>5. ASSUME NEW r \in Requests, InsertRow(r) PROVE DataInv'
  <2> DEFINE u == call[r].user
  <2>1. call[r].fn = "Create" /\ u \in User /\ call[r].fn \notin Reads
    BY <1>5 DEF InsertRow, TypeInv, WellFormed, At, Reads
  <2>2. CASE Conflicts(users, u) = {} /\ Commit(r, users \cup {u}, StartPipeline(r, "set", u))
    <3>1. users \cup {u} \in SUBSET User /\ IdentifiesRows(users \cup {u})
      BY <1>a, <1>b, <2>1, <2>2, AcceptedRow
    <3> QED
      BY <2>1, <2>2, <3>1, <1>d
  <2>3. CASE \E e \in Conflicts(users, u) : Reject(r, e)
    BY <2>3, <1>c DEF Conflicts
  <2> QED
    BY <1>5, <2>2, <2>3 DEF InsertRow
<1>6. ASSUME NEW r \in Requests, LoadRow(r) PROVE DataInv'
  <2>1. UNCHANGED <<users, redis, committed>>
    BY <1>6 DEF LoadRow
  <2>2. ASSUME NEW u,
               call' = [call EXCEPT ![r].pc = IF call[r].fn = "Update" THEN "update" ELSE "delete",
                                    ![r].row = u]
        PROVE  \A q \in Requests : CarriesStored(call'[q], committed')
    <3> DEFINE p == IF call[r].fn = "Update" THEN "update" ELSE "delete"
               a == [call[r] EXCEPT !.pc = p, !.row = u]
    <3>1. call' = [call EXCEPT ![r] = a]
      BY <2>2
    <3>2. a.pc \in {"update", "delete"}
      BY <1>a DEF Activation
    <3> HIDE DEF a, p
    <3>3. CarriesStored(a, committed')
      BY <3>2 DEF CarriesStored
    <3> QED
      BY <2>1, <3>1, <3>3, CarryStep
  <2>3. \A q \in Requests : CarriesStored(call'[q], committed')
    BY <1>6, <2>1, <2>2, CarryFinish DEF LoadRow
  <2> QED
    BY <2>1, <2>3, QuietData
<1>7. ASSUME NEW r \in Requests, UpdateRow(r) PROVE DataInv'
  <2> DEFINE new == [call[r].user EXCEPT !.updated = r]
  <2>1. call[r].fn \notin Reads /\ call[r].user \in User /\ call[r].row \in User
    BY <1>7 DEF UpdateRow, TypeInv, WellFormed, At, Reads
  <2>2. new \in User
    BY <2>1 DEF User
  <2> HIDE DEF new
  <2>3. ASSUME NEW u \in users, Conflicts(users \ {u}, new) = {},
               Commit(r, (users \ {u}) \cup {new}, StartPipeline(r, "del", call[r].row))
        PROVE  DataInv'
    <3>1. users \ {u} \in SUBSET User /\ IdentifiesRows(users \ {u})
      BY <1>a, <1>b DEF IdentifiesRows
    <3>2. (users \ {u}) \cup {new} \in SUBSET User /\ IdentifiesRows((users \ {u}) \cup {new})
      BY <2>2, <2>3, <3>1, AcceptedRow
    <3> QED
      BY <2>1, <2>3, <3>2, <1>d
  <2>4. ASSUME NEW u \in users, \E e \in Conflicts(users \ {u}, new) : Reject(r, e)
        PROVE  DataInv'
    BY <2>4, <1>c DEF Conflicts
  <2> QED
    BY <1>7, <2>3, <2>4, <1>c DEF UpdateRow, RowsUnder, new
<1>8. ASSUME NEW r \in Requests, DeleteRow(r) PROVE DataInv'
  <2>1. call[r].fn \notin Reads /\ call[r].row \in User
    BY <1>8 DEF DeleteRow, TypeInv, WellFormed, At, Reads
  <2>2. ASSUME NEW u \in users, Commit(r, users \ {u}, StartPipeline(r, "del", call[r].row))
        PROVE  DataInv'
    <3>1. users \ {u} \in SUBSET User /\ IdentifiesRows(users \ {u})
      BY <1>a, <1>b DEF IdentifiesRows
    <3> QED
      BY <2>1, <2>2, <3>1, <1>d
  <2> QED
    BY <1>8, <2>2, <1>c DEF DeleteRow, RowsUnder
<1>9. ASSUME NEW r \in Requests, ReloadRow(r) PROVE DataInv'
  <2>1. UNCHANGED <<users, redis, committed>>
    BY <1>9 DEF ReloadRow
  <2>2. call[r].fn \notin Reads
    BY <1>9 DEF ReloadRow, TypeInv, WellFormed, At, Reads
  <2>3. \A u \in RowsUnder(users, call[r].key) : u \in committed'
    BY <1>b, <2>1 DEF RowsUnder
  <2>4. \A q \in Requests : CarriesStored(call'[q], committed')
    BY <1>9, <2>1, <2>2, <2>3, CarryPipeline, CarryFinish DEF ReloadRow
  <2> QED
    BY <2>1, <2>4, QuietData
<1>10. ASSUME NEW r \in Requests, QueryFails(r) PROVE DataInv'
  BY <1>10, <1>c DEF QueryFails, AwaitsPostgres
<1>v. ASSUME NEW r \in Requests, call[r].pc \in {"set", "del"}, NEW n \in 1..3
      PROVE  \/ PipelineValue(r) = NoUser
             \/ \E u \in committed : PipelineKey(r, n) \in KeySet(u) /\ PipelineValue(r) = Sanitize(u)
  <2>1. CASE At(r, "set")
    <3>1. call[r].row \in committed
      BY <2>1 DEF DataInv, CarriesStored, At
    <3>2. PipelineKey(r, n) \in KeySet(call[r].row)
      BY <1>a, <3>1, KeysOfRow DEF PipelineKey
    <3> QED
      BY <2>1, <3>1, <3>2 DEF PipelineValue
  <2> QED
    BY <2>1 DEF PipelineValue
<1>11. ASSUME NEW r \in Requests, PipelineCommand(r) PROVE DataInv'
  <2>1. call[r].pc \in {"set", "del"} /\ UNCHANGED <<users, committed>>
    BY <1>11 DEF PipelineCommand, MoreCommands
  <2>2. call[r].n \in 1..3
    BY <1>a DEF Activation
  <2>3. CacheHoldsCommittedRows'
    <3>1. redis' = [redis EXCEPT ![PipelineKey(r, call[r].n)] = PipelineValue(r)]
      BY <1>11 DEF PipelineCommand, MoreCommands
    <3>2. \A k \in Keys : redis'[k] = redis[k]
                           \/ (k = PipelineKey(r, call[r].n) /\ redis'[k] = PipelineValue(r))
      BY <1>a, <3>1
    <3> QED
      BY <2>1, <2>2, <3>2, <1>v, CacheStep
  <2>4. \A q \in Requests : CarriesStored(call'[q], committed')
    <3>1. CASE call[r].n < 3
      <4> DEFINE a == [call[r] EXCEPT !.n = @ + 1]
      <4>1. call' = [call EXCEPT ![r] = a]
        BY <1>11, <3>1 DEF PipelineCommand, MoreCommands
      <4>2. /\ a.pc = call[r].pc /\ a.fn = call[r].fn /\ a.key = call[r].key
            /\ a.user = call[r].user /\ a.row = call[r].row /\ a.err = call[r].err
        BY <1>a DEF Activation
      <4> HIDE DEF a
      <4>3. CarriesStored(a, committed')
        BY <2>1, <4>2 DEF DataInv, CarriesStored
      <4> QED
        BY <2>1, <4>1, <4>3, CarryStep
    <3>2. CASE call[r].n >= 3 /\ At(r, "del") /\ call[r].fn = "Update"
      <4> DEFINE a == [call[r] EXCEPT !.pc = "reload"]
      <4>1. call' = [call EXCEPT ![r] = a]
        BY <1>11, <3>2, <2>2 DEF PipelineCommand, MoreCommands, AfterPipeline, Goto
      <4>2. a.pc = "reload"
        BY <1>a DEF Activation
      <4> HIDE DEF a
      <4>3. CarriesStored(a, committed')
        BY <4>2 DEF CarriesStored
      <4> QED
        BY <2>1, <4>1, <4>3, CarryStep
    <3>3. CASE call[r].n >= 3 /\ ~ (At(r, "del") /\ call[r].fn = "Update")
      <4>1. Finish(r, "ok")
        BY <1>11, <3>3, <2>2 DEF PipelineCommand, MoreCommands, AfterPipeline
      <4> QED
        BY <2>1, <4>1, CarryFinish
    <3> QED
      BY <3>1, <3>2, <3>3, <2>2
  <2> QED
    BY <2>1, <2>3, <2>4, <1>b DEF DataInv
<1>12. ASSUME NEW r \in Requests, PipelineFails(r) PROVE DataInv'
  <2>1. call[r].pc \in {"set", "del"} /\ UNCHANGED <<users, committed>> /\ Finish(r, "cache_error")
    BY <1>12 DEF PipelineFails
  <2>2. call[r].n \in 1..3
    BY <1>a DEF Activation
  <2>3. PICK applied \in SUBSET {PipelineKey(r, n) : n \in call[r].n .. 3} :
           redis' = [k \in Keys |-> IF k \in applied THEN PipelineValue(r) ELSE redis[k]]
    BY <1>12 DEF PipelineFails
  <2>4. \A k \in applied : \E n \in 1..3 : k = PipelineKey(r, n)
    BY <2>2
  <2>5. CacheHoldsCommittedRows'
    BY <2>1, <2>3, <2>4, <1>v, CacheStep
  <2>6. \A q \in Requests : CarriesStored(call'[q], committed')
    BY <2>1, CarryFinish
  <2> QED
    BY <2>1, <2>5, <2>6, <1>b DEF DataInv
<1> QED
  BY <1>2, <1>3, <1>4, <1>5, <1>6, <1>7, <1>8, <1>9, <1>10, <1>11, <1>12 DEF Step

\* So does a cache entry that expires.
LEMMA ExpireData ==
    ASSUME TypeInv, DataInv, NEW k \in Keys, Expire(k)
    PROVE  DataInv'
<1>1. redis' = [redis EXCEPT ![k] = NoUser] /\ UNCHANGED <<users, call, committed>>
  BY DEF Expire
<1>2. CacheHoldsCommittedRows'
  BY <1>1, CacheStep DEF TypeInv, TypeOK
<1> QED
  BY <1>1, <1>2 DEF DataInv

\* Every step keeps the data invariant.
LEMMA DataStep == TypeInv /\ DataInv /\ [Next]_vars => DataInv'
<1> SUFFICES ASSUME TypeInv, DataInv, [Next]_vars PROVE DataInv'
  OBVIOUS
<1>1. ASSUME NEW r \in Requests, Invoke(r) PROVE DataInv'
  <2>1. UNCHANGED <<users, redis, committed>>
    BY <1>1 DEF Invoke
  <2>2. \E fn \in Reads \cup Writes : \E k \in Keys, u \in User \cup {NoUser} : Begin(r, fn, k, u)
    BY <1>1 DEF Invoke, Reads, Writes, Keys, User
  <2> QED
    BY <2>1, <2>2, BeginData
<1>2. ASSUME NEW r \in Requests, Step(r) PROVE DataInv'
  BY <1>2, StepData
<1>3. ASSUME NEW k \in Keys, Expire(k) PROVE DataInv'
  BY <1>3, ExpireData
<1>4. ASSUME Crash PROVE DataInv'
  <2>1. /\ UNCHANGED <<users, redis, committed>>
        /\ call' = [r \in Requests |-> IF r \in InFlight THEN [NoCall EXCEPT !.pc = "lost", !.key = call[r].key]
                                       ELSE call[r]]
    BY <1>4 DEF Crash
  <2>2. ASSUME NEW r \in Requests PROVE CarriesStored(call'[r], committed')
    <3>1. CASE r \in InFlight
      <4>1. call'[r].pc = "lost"
        BY <2>1, <3>1 DEF NoCall
      <4> QED
        BY <4>1 DEF CarriesStored
    <3>2. CASE r \notin InFlight
      BY <2>1, <3>2 DEF DataInv
    <3> QED
      BY <3>1, <3>2
  <2> QED
    BY <2>1, <2>2, QuietData
<1>5. ASSUME UNCHANGED vars PROVE DataInv'
  BY <1>5 DEF vars, DataInv, CacheHoldsCommittedRows
<1> QED
  BY <1>1, <1>2, <1>3, <1>4, <1>5 DEF Next

\* Both inductive invariants hold in every reachable state.
LEMMA Data == Spec => [](TypeInv /\ DataInv)
<1>1. Init => TypeInv /\ DataInv
  BY TypeInit, DataInit
<1>2. TypeInv /\ DataInv /\ [Next]_vars => (TypeInv /\ DataInv)'
  BY TypeStep, DataStep
<1> QED
  BY <1>1, <1>2, PTL DEF Spec

\* No document in Redis was ever made up, mixed up or filed under a foreign key.
THEOREM CacheIsSound == Spec => []CacheHoldsCommittedRows
<1>1. DataInv => CacheHoldsCommittedRows
  BY DEF DataInv
<1> QED
  BY <1>1, Data, PTL

\* Concurrent checks and writes never produce two users with one identity.
THEOREM IdentityIsUnique == Spec => []UniqueIdentity
<1>1. DataInv => UniqueIdentity
  BY DEF DataInv, UniqueIdentity
<1> QED
  BY <1>1, Data, PTL

\* A successful lookup returns a user that was stored and matches the key.
THEOREM ReadsAreSound == Spec => []ReadsReturnCommittedRows
<1>1. DataInv => ReadsReturnCommittedRows
  BY DEF DataInv, ReadsReturnCommittedRows, CarriesStored, At
<1> QED
  BY <1>1, Data, PTL
=============================================================================
