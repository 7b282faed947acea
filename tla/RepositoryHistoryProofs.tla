------------------------ MODULE RepositoryHistoryProofs ------------------------
(***************************************************************************)
(* What the calls of CachedRepository may conclude about the history of    *)
(* the table: an error tells that nothing was written, "not found" that    *)
(* the row is gone for good, and a deleted row does not come back.         *)
(***************************************************************************)
EXTENDS CachedRepositoryProofs

USE DEF IdKey, EmailKey, NickKey

-----------------------------------------------------------------------------
(* The inductive invariant *)

\* No UPDATE or INSERT of the activation has taken effect yet, or ever will.
Unwritten(a) ==
    \/ a.fn \in Reads
    \/ a.pc \in {"insert", "load", "update", "delete"}
    \/ a.pc = "done" /\ a.err \in {"email_taken", "nickname_taken"}

\* Its INSERT or UPDATE has taken effect, and the activation knows.
Written(a) ==
    /\ a.fn \in {"Create", "Update"}
    /\ a.pc \in {"set", "del", "reload"} \/ (a.pc = "done" /\ a.err \in {"ok", "cache_error"})

\* Its DELETE has taken effect, and the activation knows.
Deleted(a) ==
    /\ a.fn = "Delete"
    /\ a.pc = "del" \/ (a.pc = "done" /\ a.err \in {"ok", "cache_error"})

\* It has found no row.
Missed(a) == a.pc = "done" /\ a.err = "not_found"

\* What the table was and is, as the point of an activation of request r tells.
Tells(a, r) ==
    /\ a.fn \in {"GetByID"} \cup Writes => \E i \in Ids : a.key = IdKey(i)
    /\ a.pc \in Running => a.err = "ok"
    /\ a.pc = "insert" => a.user.updated = r /\ ~ HasId(committed, a.user.id)
    /\ Unwritten(a) => \A u \in committed : u.updated # r
    /\ Written(a) => [a.user EXCEPT !.updated = r] \in committed
    /\ Deleted(a) => \A i \in Ids : a.key = IdKey(i) => HasId(committed, i) /\ ~ HasId(users, i)
    /\ Missed(a) => a.fn # "Create" /\ \A i \in Ids : a.key = IdKey(i) => ~ HasId(users, i)

\* Nobody but its creator names a user that is about to be inserted, and no user
\* is deleted twice.
Unborn == \A r, q \in Requests : At(r, "insert") /\ call[q].key = call[r].key => q = r

\* Of all calls that delete a user, one reports success.
OneDeleter ==
    \A r, q \in Requests :
        Deleted(call[r]) /\ Deleted(call[q]) /\ call[r].key = call[q].key => q = r

HistoryInv ==
    /\ \A r \in Requests : Tells(call[r], r)
    /\ Unborn /\ OneDeleter

-----------------------------------------------------------------------------
(* What one step of a request does, in these terms *)

\* Activation a takes the place of call[r].
Becomes(r, a) ==
    /\ call' = [call EXCEPT ![r] = a]
    /\ a.fn = call[r].fn /\ a.key = call[r].key
    /\ a.fn \in Writes => a.user = call[r].user
    /\ a.pc \in Running => a.err = call[r].err

\* A step that does not change the table.
Quiet(r, a) ==
    /\ UNCHANGED <<users, committed>>
    /\ a.pc \in (Running \ {"insert"}) \cup {"done"}
    /\ Unwritten(a) => Unwritten(call[r])
    /\ Written(a) => Written(call[r])
    /\ Deleted(a) => Deleted(call[r])
    /\ Missed(a) => a.fn # "Create" /\ RowsUnder(users, a.key) = {}

\* A statement that changes it: the method goes on at p, or its result is lost.
Statement(r, a, T, p) ==
    /\ users' = T /\ committed' = committed \cup T
    /\ a.pc = p \/ (a.pc = "done" /\ a.err = "db_error")

Inserts(r, a) ==
    /\ At(r, "insert") /\ call[r].fn = "Create"
    /\ Statement(r, a, users \cup {call[r].user}, "set")

Updates(r, a) ==
    /\ At(r, "update") /\ call[r].fn = "Update"
    /\ \E u \in RowsUnder(users, call[r].key) :
          Statement(r, a, (users \ {u}) \cup {[call[r].user EXCEPT !.updated = r]}, "del")

Removes(r, a) ==
    /\ At(r, "delete") /\ call[r].fn = "Delete"
    /\ \E u \in RowsUnder(users, call[r].key) : Statement(r, a, users \ {u}, "del")

\* All a step of a call may do.
Effect(r, a) ==
    /\ Becomes(r, a)
    /\ call[r].pc \in Running /\ call[r].fn # "none"
    /\ Quiet(r, a) \/ Inserts(r, a) \/ Updates(r, a) \/ Removes(r, a)

\* A call that ends becomes its own result.
LEMMA FinishBecomes ==
    ASSUME TypeInv, NEW r \in Requests, NEW e, Finish(r, e)
    PROVE  \E a : Becomes(r, a) /\ a.pc = "done" /\ a.err = e
<1>1. PICK a : /\ call' = [call EXCEPT ![r] = a]
               /\ a.pc = "done" /\ a.err = e /\ a.fn = call[r].fn /\ a.key = call[r].key
               /\ a.user = call[r].user
  BY FinishEffect
<1> QED
  BY <1>1 DEF Becomes, Running

\* A call that begins a pipeline stands at its first command.
LEMMA PipelineBecomes ==
    ASSUME TypeInv, NEW r \in Requests, NEW p, NEW u, StartPipeline(r, p, u)
    PROVE  \E a : Becomes(r, a) /\ a.pc = p
<1> DEFINE b == [call[r] EXCEPT !.pc = p, !.row = u]
           a == [b EXCEPT !.n = 1]
<1>1. call[r] \in Activation
  BY DEF TypeInv, TypeOK
<1>2. call' = [call EXCEPT ![r] = a]
  BY <1>1 DEF StartPipeline, Activation
<1>3. /\ a.pc = p /\ a.fn = call[r].fn /\ a.key = call[r].key /\ a.user = call[r].user
      /\ a.err = call[r].err
  BY <1>1 DEF Activation
<1> HIDE DEF a, b
<1> QED
  BY <1>2, <1>3 DEF Becomes

\* A call that goes on changes only its place.
LEMMA GotoBecomes ==
    ASSUME TypeInv, NEW r \in Requests, NEW p, Goto(r, p)
    PROVE  \E a : Becomes(r, a) /\ a.pc = p
<1> DEFINE a == [call[r] EXCEPT !.pc = p]
<1>1. call[r] \in Activation
  BY DEF TypeInv, TypeOK
<1>2. call' = [call EXCEPT ![r] = a]
  BY <1>1 DEF Goto
<1>3. /\ a.pc = p /\ a.fn = call[r].fn /\ a.key = call[r].key /\ a.user = call[r].user
      /\ a.err = call[r].err
  BY <1>1 DEF Activation
<1> HIDE DEF a
<1> QED
  BY <1>2, <1>3 DEF Becomes

\* A statement that takes effect is answered, or reported as failed all the same.
LEMMA CommitBecomes ==
    ASSUME TypeInv, NEW r \in Requests, NEW T, NEW p, NEW u,
           Commit(r, T, StartPipeline(r, p, u))
    PROVE  \E a : Becomes(r, a) /\ Statement(r, a, T, p)
<1>1. users' = T /\ committed' = committed \cup T
  BY DEF Commit
<1>2. StartPipeline(r, p, u) \/ Finish(r, "db_error")
  BY DEF Commit
<1> QED
  BY <1>1, <1>2, PipelineBecomes, FinishBecomes DEF Statement

\* A statement that is refused, or that fails.
LEMMA RejectEffect ==
    ASSUME TypeInv, NEW r \in Requests, NEW e, Reject(r, e), call[r].pc \in Running,
           call[r].fn # "none",
           e \in {"email_taken", "nickname_taken"} => Unwritten(call[r]),
           e = "not_found" => call[r].fn # "Create" /\ RowsUnder(users, call[r].key) = {},
           e \notin {"ok", "cache_error"}
    PROVE  \E a : Effect(r, a)
<1>1. PICK a : Becomes(r, a) /\ a.pc = "done" /\ a.err = e
  BY FinishBecomes DEF Reject
<1>2. Quiet(r, a)
  BY <1>1 DEF Reject, Becomes, Quiet, Unwritten, Written, Deleted, Missed
<1> QED
  BY <1>1, <1>2 DEF Effect

\* Every step of a call is of one of the kinds above.
LEMMA StepEffect ==
    ASSUME TypeInv, NEW r \in Requests, Tells(call[r], r), Step(r)
    PROVE  \E a : Effect(r, a)
<1> DEFINE old == call[r]
<1>1. old \in Activation
  BY DEF TypeInv, TypeOK
<1>2. /\ old.pc \in {"lookup", "select"} => old.fn \in Reads
      /\ old.pc = "insert" => old.fn = "Create"
      /\ old.pc \in {"update", "reload"} => old.fn = "Update"
      /\ old.pc = "load" => old.fn \in {"Update", "Delete"}
      /\ old.pc = "delete" => old.fn = "Delete"
      /\ old.pc = "del" => old.fn \in {"Update", "Delete"}
      /\ old.pc = "set" => old.fn \notin {"none", "Delete"}
  BY DEF TypeInv, WellFormed, At
<1>3. Reads \cap Writes = {} /\ "none" \notin Reads \cup Writes
  BY DEF Reads, Writes
<1>4. ASSUME NEW a, Becomes(r, a), UNCHANGED <<users, committed>>, old.pc \in Running,
             old.fn # "none", a.pc \in Running \ {"insert"},
             a.pc \in {"load", "update", "delete"} => Unwritten(old),
             a.pc \in {"set", "del", "reload"} => old.fn \in Reads \/ old.pc \in {"set", "del", "reload"},
             a.pc = "del" => old.pc = "del"
      PROVE  Effect(r, a)
  <2>1. Quiet(r, a)
    BY <1>3, <1>4 DEF Becomes, Quiet, Unwritten, Written, Deleted, Missed, Writes, Running
  <2> QED
    BY <1>4, <2>1 DEF Effect
<1>5. CASE CacheHit(r)
  <2> DEFINE a == [old EXCEPT !.pc = "done", !.user = redis[old.key]]
  <2>1. call' = [call EXCEPT ![r] = a] /\ UNCHANGED <<users, redis, committed>>
    BY <1>5 DEF CacheHit
  <2>2. a.pc = "done" /\ a.fn = old.fn /\ a.key = old.key /\ a.err = old.err
    BY <1>1 DEF Activation
  <2>3. old.pc = "lookup" /\ old.fn \in Reads /\ old.err = "ok"
    BY <1>2, <1>5 DEF CacheHit, At, Tells, Running
  <2> HIDE DEF a
  <2>4. Becomes(r, a) /\ Quiet(r, a)
    BY <1>3, <2>1, <2>2, <2>3
    DEF Becomes, Quiet, Unwritten, Written, Deleted, Missed, Running, Writes
  <2> QED
    BY <1>3, <2>3, <2>4 DEF Effect, Running
<1>6. CASE CacheMiss(r)
  BY <1>2, <1>3, <1>4, <1>6, GotoBecomes DEF CacheMiss, At, Running
<1>7. CASE SelectRow(r)
  <2>1. old.pc = "select" /\ old.fn \in Reads /\ UNCHANGED <<users, redis, committed>>
    BY <1>2, <1>7 DEF SelectRow, At
  <2>2. CASE Finish(r, "not_found") /\ RowsUnder(users, old.key) = {}
    BY <1>3, <2>1, <2>2, RejectEffect DEF Reject, Running, Writes
  <2>3. ASSUME NEW u,
               call' = [call EXCEPT ![r].pc = "set", ![r].user = u, ![r].row = u, ![r].n = 1]
        PROVE  \E a : Effect(r, a)
    <3> DEFINE b == [old EXCEPT !.pc = "set", !.user = u]
               c == [b EXCEPT !.row = u]
               a == [c EXCEPT !.n = 1]
    <3>1. call' = [call EXCEPT ![r] = a]
      BY <1>1, <2>3 DEF Activation
    <3>2. a.pc = "set" /\ a.fn = old.fn /\ a.key = old.key /\ a.err = old.err
      BY <1>1 DEF Activation
    <3> HIDE DEF a, b, c
    <3>3. Becomes(r, a)
      BY <1>3, <2>1, <3>1, <3>2 DEF Becomes
    <3> QED
      BY <1>3, <1>4, <2>1, <3>2, <3>3 DEF Running
  <2> QED
    BY <1>7, <2>2, <2>3 DEF SelectRow
<1>8. CASE InsertRow(r)
  <2>1. At(r, "insert") /\ old.fn = "Create" /\ old.pc \in Running /\ Unwritten(old)
    BY <1>2, <1>8 DEF InsertRow, At, Running, Unwritten
  <2>2. CASE Commit(r, users \cup {old.user}, StartPipeline(r, "set", old.user))
    BY <2>1, <2>2, CommitBecomes DEF Effect, Inserts
  <2>3. CASE \E e \in Conflicts(users, old.user) : Reject(r, e)
    BY <2>1, <2>3, RejectEffect DEF Conflicts
  <2> QED
    BY <1>8, <2>2, <2>3 DEF InsertRow
<1>9. CASE LoadRow(r)
  <2>1. old.pc = "load" /\ old.fn \in {"Update", "Delete"} /\ UNCHANGED <<users, redis, committed>>
    BY <1>2, <1>9 DEF LoadRow, At
  <2>2. CASE Finish(r, "not_found") /\ RowsUnder(users, old.key) = {}
    BY <2>1, <2>2, RejectEffect DEF Reject, Running
  <2>3. ASSUME NEW u,
               call' = [call EXCEPT ![r].pc = IF old.fn = "Update" THEN "update" ELSE "delete",
                                    ![r].row = u]
        PROVE  \E a : Effect(r, a)
    <3> DEFINE p == IF old.fn = "Update" THEN "update" ELSE "delete"
               a == [old EXCEPT !.pc = p, !.row = u]
    <3>1. call' = [call EXCEPT ![r] = a]
      BY <2>3
    <3>2. a.pc = p /\ a.fn = old.fn /\ a.key = old.key /\ a.err = old.err /\ a.user = old.user
      BY <1>1 DEF Activation
    <3>3. p \in {"update", "delete"}
      OBVIOUS
    <3> HIDE DEF a, p
    <3>4. Becomes(r, a)
      BY <3>1, <3>2 DEF Becomes
    <3> QED
      BY <1>4, <2>1, <3>2, <3>3, <3>4 DEF Running, Unwritten
  <2> QED
    BY <1>9, <2>2, <2>3 DEF LoadRow
<1>10. CASE UpdateRow(r)
  <2> DEFINE new == [old.user EXCEPT !.updated = r]
  <2>1. At(r, "update") /\ old.fn = "Update" /\ old.pc \in Running /\ Unwritten(old)
    BY <1>2, <1>10 DEF UpdateRow, At, Running, Unwritten
  <2>2. ASSUME NEW u \in RowsUnder(users, old.key),
               Commit(r, (users \ {u}) \cup {new}, StartPipeline(r, "del", old.row))
        PROVE  \E a : Effect(r, a)
    BY <2>1, <2>2, CommitBecomes DEF Effect, Updates
  <2>3. ASSUME NEW u, NEW e \in Conflicts(users \ {u}, new), Reject(r, e)
        PROVE  \E a : Effect(r, a)
    BY <2>1, <2>3, RejectEffect DEF Conflicts
  <2>4. CASE RowsUnder(users, old.key) = {} /\ Reject(r, "not_found")
    BY <2>1, <2>4, RejectEffect
  <2> QED
    BY <1>10, <2>2, <2>3, <2>4 DEF UpdateRow
<1>11. CASE DeleteRow(r)
  <2>1. At(r, "delete") /\ old.fn = "Delete" /\ old.pc \in Running /\ Unwritten(old)
    BY <1>2, <1>11 DEF DeleteRow, At, Running, Unwritten
  <2>2. ASSUME NEW u \in RowsUnder(users, old.key),
               Commit(r, users \ {u}, StartPipeline(r, "del", old.row))
        PROVE  \E a : Effect(r, a)
    BY <2>1, <2>2, CommitBecomes DEF Effect, Removes
  <2>3. CASE RowsUnder(users, old.key) = {} /\ Reject(r, "not_found")
    BY <2>1, <2>3, RejectEffect
  <2> QED
    BY <1>11, <2>2, <2>3 DEF DeleteRow
<1>12. CASE ReloadRow(r)
  <2>1. old.pc = "reload" /\ old.fn = "Update" /\ UNCHANGED <<users, redis, committed>>
    BY <1>2, <1>12 DEF ReloadRow, At
  <2>2. CASE \E u : StartPipeline(r, "set", u)
    BY <1>4, <2>1, <2>2, PipelineBecomes DEF Running
  <2>3. CASE Finish(r, "not_found") /\ RowsUnder(users, old.key) = {}
    BY <2>1, <2>3, RejectEffect DEF Reject, Running
  <2> QED
    BY <1>12, <2>2, <2>3 DEF ReloadRow
<1>13. CASE QueryFails(r)
  <2>1. old.pc \in Running /\ old.fn # "none"
    BY <1>2, <1>3, <1>13 DEF QueryFails, AwaitsPostgres, Running
  <2> QED
    BY <1>13, <2>1, RejectEffect DEF QueryFails, AwaitsPostgres
<1>14. ASSUME old.pc \in {"set", "del"}, UNCHANGED <<users, committed>>,
              NEW e \in {"ok", "cache_error"}, Finish(r, e),
              e = "ok" => ~ (old.pc = "del" /\ old.fn = "Update")
       PROVE  \E a : Effect(r, a)
  <2>1. PICK a : Becomes(r, a) /\ a.pc = "done" /\ a.err = e
    BY <1>14, FinishBecomes
  <2>2. Written(a) => Written(old)
    BY <1>14, <2>1 DEF Becomes, Written
  <2>3. Deleted(a) => Deleted(old)
    BY <1>2, <1>14, <2>1 DEF Becomes, Deleted
  <2>4. Unwritten(a) => Unwritten(old)
    BY <1>14, <2>1 DEF Becomes, Unwritten
  <2>5. Quiet(r, a)
    BY <1>14, <2>1, <2>2, <2>3, <2>4 DEF Quiet, Missed
  <2>6. old.pc \in Running /\ old.fn # "none"
    BY <1>2, <1>3, <1>14 DEF Running
  <2> QED
    BY <2>1, <2>5, <2>6 DEF Effect
<1>15. CASE PipelineCommand(r)
  <2>1. old.pc \in {"set", "del"} /\ UNCHANGED <<users, committed>>
    BY <1>15 DEF PipelineCommand, MoreCommands
  <2>2. CASE old.n < 3
    <3> DEFINE a == [old EXCEPT !.n = @ + 1]
    <3>1. call' = [call EXCEPT ![r] = a]
      BY <1>15, <2>2 DEF PipelineCommand, MoreCommands
    <3>2. /\ a.pc = old.pc /\ a.fn = old.fn /\ a.key = old.key /\ a.user = old.user
          /\ a.err = old.err
      BY <1>1 DEF Activation
    <3> HIDE DEF a
    <3>3. Becomes(r, a)
      BY <3>1, <3>2 DEF Becomes
    <3> QED
      BY <1>2, <1>3, <1>4, <2>1, <3>2, <3>3 DEF Running
  <2>3. CASE AfterPipeline(r)
    <3>1. CASE old.pc = "del" /\ old.fn = "Update"
      <4>1. Goto(r, "reload")
        BY <2>3, <3>1 DEF AfterPipeline, At
      <4> QED
        BY <1>4, <2>1, <3>1, <4>1, GotoBecomes DEF Running
    <3>2. CASE ~ (old.pc = "del" /\ old.fn = "Update")
      BY <1>14, <2>1, <2>3, <3>2 DEF AfterPipeline, At
    <3> QED
      BY <3>1, <3>2
  <2> QED
    BY <1>1, <1>15, <2>2, <2>3 DEF PipelineCommand, MoreCommands
<1>16. CASE PipelineFails(r)
  BY <1>14, <1>16 DEF PipelineFails
<1> QED
  BY <1>5, <1>6, <1>7, <1>8, <1>9, <1>10, <1>11, <1>12, <1>13, <1>15, <1>16 DEF Step

-----------------------------------------------------------------------------
(* What others and the request itself can tell after the step *)

\* The rows under the key of an id are those with that id.
LEMMA RowsById ==
    ASSUME NEW T \in SUBSET User, NEW i
    PROVE  RowsUnder(T, IdKey(i)) = {u \in T : u.id = i}
<1>1. \A u \in T : KeySet(u) = {<<"id", u.id>>, <<"email", u.email>>, <<"nick", u.nickname>>}
  <2>1. 1..3 = {1, 2, 3}
    OBVIOUS
  <2> QED
    BY <2>1 DEF KeySet, KeysOf
<1> QED
  BY <1>1 DEF RowsUnder

\* How the table changes by a step of request r: a row that appears is written by
\* r, and has a new id only if r inserts it.
TableStep(r) ==
    /\ committed \subseteq committed'
    /\ \A i \in Ids : HasId(users', i) =>
          HasId(users, i) \/ (At(r, "insert") /\ call[r].key = IdKey(i))
    /\ \A i \in Ids : HasId(committed', i) =>
          HasId(committed, i) \/ (At(r, "insert") /\ call[r].key = IdKey(i))
    /\ \A u \in committed' : u \in committed \/ (u.updated = r /\ call[r].pc \in {"insert", "update"})

\* What such a step does to the table.
LEMMA TableEffect ==
    ASSUME TypeInv, DataInv, NEW r \in Requests, Tells(call[r], r), NEW a, Effect(r, a)
    PROVE  TableStep(r)
<1>1. users \subseteq User /\ users \subseteq committed /\ committed \subseteq User
  BY DEF TypeInv, TypeOK, DataInv
<1>2. CASE Quiet(r, a)
  BY <1>2 DEF Quiet, TableStep
<1>3. CASE Inserts(r, a)
  <2> DEFINE u == call[r].user
  <2>1. /\ users' = users \cup {u} /\ committed' = committed \cup (users \cup {u})
        /\ At(r, "insert") /\ call[r].fn = "Create"
    BY <1>3 DEF Inserts, Statement
  <2>2. u.updated = r /\ call[r].key = IdKey(u.id) /\ call[r].pc = "insert"
    BY <2>1 DEF Tells, TypeInv, WellFormed, At
  <2> HIDE DEF u
  <2> QED
    BY <1>1, <2>1, <2>2 DEF TableStep, HasId
<1>4. CASE Updates(r, a)
  <2> DEFINE new == [call[r].user EXCEPT !.updated = r]
  <2>1. PICK u \in RowsUnder(users, call[r].key) : Statement(r, a, (users \ {u}) \cup {new}, "del")
    BY <1>4 DEF Updates
  <2>2. /\ users' = (users \ {u}) \cup {new} /\ committed' = committed \cup ((users \ {u}) \cup {new})
        /\ u \in users
    BY <2>1 DEF Statement, RowsUnder
  <2>3. call[r].user \in User /\ call[r].key = IdKey(call[r].user.id) /\ call[r].pc = "update"
    BY <1>4 DEF Updates, TypeInv, WellFormed, At
  <2>4. new.updated = r /\ new.id = call[r].user.id
    BY <2>3 DEF User
  <2>5. u.id = new.id
    BY <1>1, <2>1, <2>3, <2>4, RowsById
  <2> HIDE DEF new
  <2>6. \A v \in users' : v \in users \/ v = new
    BY <2>2
  <2>7. \A i \in Ids : HasId(users', i) => HasId(users, i)
    BY <2>2, <2>5, <2>6 DEF HasId
  <2>8. \A v \in committed' : v \in committed \/ v = new
    BY <1>1, <2>2
  <2>9. \A i \in Ids : HasId(committed', i) => HasId(committed, i)
    BY <1>1, <2>2, <2>5, <2>8 DEF HasId
  <2> QED
    BY <2>2, <2>3, <2>4, <2>7, <2>8, <2>9 DEF TableStep
<1>5. CASE Removes(r, a)
  <2>1. users' \subseteq users /\ committed' = committed \cup users'
    BY <1>5 DEF Removes, Statement
  <2> QED
    BY <1>1, <2>1 DEF TableStep, HasId
<1> QED
  BY <1>2, <1>3, <1>4, <1>5 DEF Effect

\* What another request can tell stays true.
LEMMA OthersTell ==
    ASSUME TypeInv, HistoryInv, NEW r \in Requests, TableStep(r),
           NEW q \in Requests, q # r, call'[q] = call[q]
    PROVE  Tells(call[q], q)'
<1> DEFINE a == call[q]
<1>1. Tells(a, q) /\ a \in Activation
  BY DEF HistoryInv, TypeInv, TypeOK
<1>2. ASSUME NEW i \in Ids, a.key = IdKey(i)
      PROVE  (HasId(users', i) => HasId(users, i)) /\ (HasId(committed, i) => HasId(committed', i))
  <2>1. At(r, "insert") => call[r].key # IdKey(i)
    BY <1>2 DEF HistoryInv, Unborn
  <2> QED
    BY <2>1 DEF TableStep, HasId
<1>3. ASSUME a.pc = "insert" PROVE a.user.updated = q /\ ~ HasId(committed', a.user.id)
  <2>1. a.user.updated = q /\ ~ HasId(committed, a.user.id)
    BY <1>1, <1>3 DEF Tells
  <2>2. a.user \in User /\ a.key = IdKey(a.user.id)
    BY <1>3 DEF TypeInv, WellFormed, At
  <2>3. a.user.id \in Ids
    BY <2>2 DEF User
  <2>4. At(r, "insert") => call[r].key # IdKey(a.user.id)
    BY <2>2 DEF HistoryInv, Unborn
  <2> QED
    BY <2>1, <2>3, <2>4 DEF TableStep
<1>4. ASSUME Unwritten(a) PROVE \A u \in committed' : u.updated # q
  BY <1>1, <1>4 DEF Tells, TableStep
<1>5. Written(a) => [a.user EXCEPT !.updated = q] \in committed'
  BY <1>1 DEF Tells, TableStep
<1>6. Deleted(a) => \A i \in Ids : a.key = IdKey(i) => HasId(committed', i) /\ ~ HasId(users', i)
  BY <1>1, <1>2 DEF Tells
<1>7. Missed(a) => a.fn # "Create" /\ \A i \in Ids : a.key = IdKey(i) => ~ HasId(users', i)
  BY <1>1, <1>2 DEF Tells
<1>8. /\ a.fn \in {"GetByID"} \cup Writes => \E i \in Ids : a.key = IdKey(i)
      /\ a.pc \in Running => a.err = "ok"
  BY <1>1 DEF Tells
<1> HIDE DEF a
<1>9. call'[q] = a
  BY DEF a
<1> QED
  BY <1>3, <1>4, <1>5, <1>6, <1>7, <1>8, <1>9 DEF Tells

\* What the request itself can tell after its step.
LEMMA SelfTells ==
    ASSUME TypeInv, DataInv, NEW r \in Requests, Tells(call[r], r), NEW a, Effect(r, a)
    PROVE  /\ Tells(a, r)' /\ a.pc # "insert"
           /\ Deleted(a) => Deleted(call[r]) \/ \E i \in Ids : a.key = IdKey(i) /\ HasId(users, i)
<1> DEFINE old == call[r]
<1>1. users \subseteq User /\ users \subseteq committed /\ IdentifiesRows(users)
  BY DEF TypeInv, TypeOK, DataInv
<1>2. /\ old.fn \in Writes => \E i \in Ids : old.key = IdKey(i)
      /\ old.fn \in {"GetByID"} \cup Writes => \E i \in Ids : old.key = IdKey(i)
      /\ old.err = "ok"
  BY DEF Effect, Tells
<1>3. /\ a.fn = old.fn /\ a.key = old.key
      /\ a.fn \in Writes => a.user = old.user
      /\ a.pc \in Running => a.err = "ok"
  BY <1>2 DEF Effect, Becomes
<1>4. CASE Quiet(r, a)
  <2>1. users' = users /\ committed' = committed
    BY <1>4 DEF Quiet
  <2>2. /\ Unwritten(a) => \A u \in committed : u.updated # r
        /\ Written(a) => [a.user EXCEPT !.updated = r] \in committed
        /\ Deleted(a) => \A i \in Ids : a.key = IdKey(i) => HasId(committed, i) /\ ~ HasId(users, i)
    BY <1>3, <1>4 DEF Quiet, Tells, Written, Writes
  <2>3. Missed(a) => a.fn # "Create" /\ \A i \in Ids : a.key = IdKey(i) => ~ HasId(users, i)
    <3>1. \A i \in Ids : RowsUnder(users, IdKey(i)) = {u \in users : u.id = i}
      BY <1>1, RowsById
    <3> QED
      BY <1>4, <3>1 DEF Quiet, HasId
  <2> QED
    BY <1>2, <1>3, <1>4, <2>1, <2>2, <2>3 DEF Tells, Quiet
<1>5. CASE Inserts(r, a)
  <2>1. /\ old.fn = "Create" /\ old.pc = "insert"
        /\ committed' = committed \cup (users \cup {old.user})
        /\ a.pc = "set" \/ (a.pc = "done" /\ a.err = "db_error")
    BY <1>5 DEF Inserts, Statement, At
  <2>2. old.user.updated = r /\ old.user \in User
    BY <2>1 DEF Tells, TypeInv, WellFormed
  <2>3. [old.user EXCEPT !.updated = r] = old.user
    BY <2>2 DEF User
  <2>4. a.user = old.user /\ a.fn = "Create"
    BY <1>3, <2>1 DEF Writes
  <2>5. ~ Unwritten(a) /\ ~ Deleted(a) /\ ~ Missed(a) /\ a.pc # "insert"
    BY <2>1, <2>4 DEF Unwritten, Deleted, Missed, Reads
  <2>6. [a.user EXCEPT !.updated = r] \in committed'
    BY <2>1, <2>3, <2>4
  <2> QED
    BY <1>2, <1>3, <2>5, <2>6 DEF Tells
<1>6. CASE Updates(r, a)
  <2> DEFINE new == [old.user EXCEPT !.updated = r]
  <2>1. PICK u \in RowsUnder(users, old.key) : Statement(r, a, (users \ {u}) \cup {new}, "del")
    BY <1>6 DEF Updates
  <2>2. new \in committed' /\ (a.pc = "del" \/ (a.pc = "done" /\ a.err = "db_error"))
    BY <2>1 DEF Statement
  <2>3. a.user = old.user /\ a.fn = "Update"
    BY <1>3, <1>6 DEF Updates, Writes
  <2>4. ~ Unwritten(a) /\ ~ Deleted(a) /\ ~ Missed(a) /\ a.pc # "insert"
    BY <2>2, <2>3 DEF Unwritten, Deleted, Missed, Reads
  <2>5. [a.user EXCEPT !.updated = r] \in committed'
    BY <2>2, <2>3
  <2> QED
    BY <1>2, <1>3, <2>4, <2>5 DEF Tells
<1>7. CASE Removes(r, a)
  <2>1. PICK u \in RowsUnder(users, old.key) : Statement(r, a, users \ {u}, "del")
    BY <1>7 DEF Removes
  <2>2. /\ users' = users \ {u} /\ committed \subseteq committed' /\ old.fn = "Delete"
        /\ a.pc = "del" \/ (a.pc = "done" /\ a.err = "db_error")
    BY <1>7, <2>1 DEF Removes, Statement
  <2>3. PICK i \in Ids : old.key = IdKey(i)
    BY <1>2, <2>2 DEF Writes
  <2>4. u \in users /\ u.id = i
    BY <1>1, <2>1, <2>3, RowsById
  <2>5. \A v \in users : v.id = i => v = u
    BY <1>1, <2>4, SharedKey DEF IdentifiesRows
  <2>6. HasId(committed', i) /\ ~ HasId(users', i) /\ HasId(users, i)
    BY <1>1, <2>2, <2>4, <2>5 DEF HasId
  <2>7. \A j \in Ids : a.key = IdKey(j) => j = i
    BY <1>3, <2>3
  <2>8. ~ Unwritten(a) /\ ~ Written(a) /\ ~ Missed(a) /\ a.pc # "insert"
    BY <1>3, <2>2 DEF Unwritten, Written, Missed, Reads
  <2> QED
    BY <1>2, <1>3, <2>3, <2>6, <2>7, <2>8 DEF Tells
<1> QED
  BY <1>4, <1>5, <1>6, <1>7 DEF Effect, Quiet

\* Every step of a request on PostgreSQL or Redis keeps the history invariant.
LEMMA StepHistory ==
    ASSUME TypeInv, DataInv, HistoryInv, NEW r \in Requests, Step(r)
    PROVE  HistoryInv'
<1>1. Tells(call[r], r)
  BY DEF HistoryInv
<1>2. PICK a : Effect(r, a)
  BY <1>1, StepEffect
<1>3. call \in [Requests -> Activation]
  BY DEF TypeInv, TypeOK
<1>4. call'[r] = a /\ \A q \in Requests : q # r => call'[q] = call[q]
  BY <1>2, <1>3 DEF Effect, Becomes
<1>5. TableStep(r)
  BY <1>1, <1>2, TableEffect
<1>6. /\ Tells(a, r)' /\ a.pc # "insert" /\ a.key = call[r].key
      /\ Deleted(a) => Deleted(call[r]) \/ \E i \in Ids : a.key = IdKey(i) /\ HasId(users, i)
  BY <1>1, <1>2, SelfTells DEF Effect, Becomes
<1>7. ASSUME NEW q \in Requests PROVE Tells(call[q], q)'
  <2>1. CASE q = r
    <3>1. Tells(call[r], r)'
      BY <1>4, <1>6 DEF Tells
    <3> QED
      BY <2>1, <3>1
  <2>2. CASE q # r
    BY <1>4, <1>5, <2>2, OthersTell
  <2> QED
    BY <2>1, <2>2
<1>8. Unborn'
  BY <1>4, <1>6 DEF HistoryInv, Unborn, At
<1>9. ASSUME NEW q \in Requests, q # r, Deleted(call[q]), Deleted(a), call[q].key = a.key
      PROVE  FALSE
  <2>1. CASE Deleted(call[r])
    BY <1>6, <1>9, <2>1 DEF HistoryInv, OneDeleter
  <2>2. CASE \E i \in Ids : a.key = IdKey(i) /\ HasId(users, i)
    <3>1. Tells(call[q], q)
      BY DEF HistoryInv
    <3>2. \A i \in Ids : call[q].key = IdKey(i) => ~ HasId(users, i)
      BY <1>9, <3>1 DEF Tells
    <3> QED
      BY <1>9, <2>2, <3>2
  <2> QED
    BY <1>6, <1>9, <2>1, <2>2
<1>10. OneDeleter'
  BY <1>4, <1>9 DEF HistoryInv, OneDeleter
<1> QED
  BY <1>7, <1>8, <1>10 DEF HistoryInv

-----------------------------------------------------------------------------
(* Calls begin and end *)

\* A call that begins after reads only, and names a user that nobody is about to
\* insert, or inserts one that nobody has named.
LEMMA BeginHistory ==
    ASSUME TypeInv, HistoryInv, UNCHANGED <<users, committed>>, NEW r \in Requests,
           NEW fn \in Reads \cup Writes, NEW k, NEW u, Begin(r, fn, k, u),
           \A v \in committed : v.updated # r,
           fn \in {"GetByID"} \cup Writes => \E i \in Ids : k = IdKey(i),
           fn = "Create" => u.updated = r /\ ~ HasId(committed, u.id)
                            /\ \A q \in Requests : q # r => call[q].key # k,
           \A q \in Requests : q # r /\ At(q, "insert") => call[q].key # k
    PROVE  HistoryInv'
<1> DEFINE a == Called(fn, k, u)
<1>1. call \in [Requests -> Activation] /\ call' = [call EXCEPT ![r] = a]
  BY DEF TypeInv, TypeOK, Begin
<1>2. /\ a.fn = fn /\ a.key = k /\ a.user = u /\ a.err = "ok"
      /\ a.pc \in {"lookup", "insert", "load"} /\ (a.pc = "insert" => fn = "Create")
  BY DEF Called, Entry, Reads, Writes
<1> HIDE DEF a
<1>3. call'[r] = a /\ \A q \in Requests : q # r => call'[q] = call[q]
  BY <1>1
<1>4. Tells(a, r)
  BY <1>2 DEF Tells, Unwritten, Written, Deleted, Missed
<1>5. ASSUME NEW q \in Requests PROVE Tells(call[q], q)'
  <2>1. CASE q = r
    BY <1>3, <1>4, <2>1 DEF Tells
  <2>2. CASE q # r
    BY <1>3, <2>2 DEF HistoryInv, Tells
  <2> QED
    BY <2>1, <2>2
<1>6. Unborn'
  <2> SUFFICES ASSUME NEW p \in Requests, NEW q \in Requests, p # q,
                      call'[p].pc = "insert", call'[q].key = call'[p].key
               PROVE  FALSE
    BY DEF Unborn, At
  <2>1. CASE p = r
    BY <1>2, <1>3, <2>1
  <2>2. CASE q = r
    BY <1>2, <1>3, <2>2 DEF At
  <2>3. CASE p # r /\ q # r
    BY <1>3, <2>3 DEF HistoryInv, Unborn, At
  <2> QED
    BY <2>1, <2>2, <2>3
<1>7. OneDeleter'
  BY <1>2, <1>3 DEF HistoryInv, OneDeleter, Deleted
<1> QED
  BY <1>5, <1>6, <1>7 DEF HistoryInv

\* Calls that end without a trace: their caller takes the result or dies.
LEMMA EndHistory ==
    ASSUME TypeInv, HistoryInv, UNCHANGED <<users, committed>>,
           \A q \in Requests :
              \/ call'[q] = call[q]
              \/ /\ call'[q].pc \in {"idle", "lost"} /\ call'[q].fn = "none"
                 /\ call'[q].key \in {NoKey, call[q].key}
    PROVE  HistoryInv'
<1>1. ASSUME NEW q \in Requests PROVE Tells(call[q], q)'
  <2>1. CASE call'[q] = call[q]
    BY <2>1 DEF HistoryInv, Tells
  <2>2. CASE call'[q].pc \in {"idle", "lost"} /\ call'[q].fn = "none"
    BY <2>2 DEF Tells, Unwritten, Written, Deleted, Missed, Running, Reads, Writes
  <2> QED
    BY <2>1, <2>2
<1>2. Unborn'
  <2> SUFFICES ASSUME NEW p \in Requests, NEW q \in Requests, p # q,
                      call'[p].pc = "insert", call'[q].key = call'[p].key
               PROVE  FALSE
    BY DEF Unborn, At
  <2>1. call'[p] = call[p] /\ call[p].pc = "insert"
    OBVIOUS
  <2>2. PICK i \in Ids : call[p].key = IdKey(i)
    BY <2>1 DEF HistoryInv, Tells, TypeInv, WellFormed, At, Writes
  <2>3. IdKey(i) # NoKey
    BY DEF NoKey
  <2>4. call[q].key = call[p].key
    BY <2>1, <2>2, <2>3
  <2> QED
    BY <2>1, <2>4 DEF HistoryInv, Unborn, At
<1>3. OneDeleter'
  <2>1. \A q \in Requests : Deleted(call'[q]) => call'[q] = call[q]
    BY DEF Deleted
  <2> QED
    BY <2>1 DEF HistoryInv, OneDeleter
<1> QED
  BY <1>1, <1>2, <1>3 DEF HistoryInv

\* The cache does not matter.
LEMMA ExpireHistory ==
    ASSUME TypeInv, HistoryInv, NEW k \in Keys, Expire(k)
    PROVE  HistoryInv'
BY EndHistory DEF Expire

-----------------------------------------------------------------------------
(* The theorems *)

\* A request that has not called anything has written nothing.
Fresh == \A r \in Requests : At(r, "idle") => \A u \in committed : u.updated # r

\* The initial rows were written by nobody.
LEMMA HistoryInit == Init => HistoryInv /\ Fresh
<1> SUFFICES ASSUME Init PROVE HistoryInv /\ Fresh
  OBVIOUS
<1>1. \A r \in Requests : call[r] = NoCall
  BY DEF Init
<1>2. \A r \in Requests : Tells(call[r], r) /\ ~ At(r, "insert") /\ ~ Deleted(call[r])
  BY <1>1 DEF NoCall, At, Tells, Unwritten, Written, Deleted, Missed, Running, Reads, Writes
<1>3. \A r \in Requests : \A u \in committed : u.updated # r
  BY InitialTablesAssumption, SeedAssumption DEF Init
<1> QED
  BY <1>2, <1>3 DEF HistoryInv, Unborn, OneDeleter, Fresh

\* Every step keeps the history invariant, and ids fresh.
LEMMA HistoryStep ==
    TypeInv /\ DataInv /\ HistoryInv /\ Fresh /\ [Next]_vars => HistoryInv' /\ Fresh'
<1> SUFFICES ASSUME TypeInv, DataInv, HistoryInv, Fresh, [Next]_vars
             PROVE  HistoryInv' /\ Fresh'
  OBVIOUS
<1>1. call \in [Requests -> Activation]
  BY DEF TypeInv, TypeOK
<1>2. ASSUME NEW r \in Requests, Invoke(r) PROVE HistoryInv' /\ Fresh'
  <2>1. UNCHANGED <<users, committed>> /\ At(r, "idle")
    BY <1>2 DEF Invoke
  <2>2. \A u \in committed : u.updated # r
    BY <2>1 DEF Fresh
  <2>3. ASSUME NEW fn, NEW k, NEW u, Begin(r, fn, k, u) PROVE Fresh'
    BY <1>1, <2>1, <2>3 DEF Fresh, Begin, At
  <2>4. ASSUME NEW q \in Requests, At(q, "insert")
        PROVE  \E i \in Ids : call[q].key = IdKey(i) /\ ~ HasId(committed, i) /\ i \in UnbornIds
    <3>1. call[q].user \in User /\ call[q].key = IdKey(call[q].user.id)
      BY <2>4 DEF TypeInv, WellFormed, At
    <3>2. call[q].user.id \in Ids /\ ~ HasId(committed, call[q].user.id)
      BY <2>4, <3>1 DEF User, HistoryInv, Tells, At
    <3> QED
      BY <2>4, <3>1, <3>2 DEF UnbornIds
  <2>5. CASE \E i \in Ids \ UnbornIds : Begin(r, "GetByID", IdKey(i), NoUser)
    BY <2>1, <2>2, <2>3, <2>4, <2>5, BeginHistory DEF Reads, Writes
  <2>6. CASE \E e \in Emails : Begin(r, "GetByEmail", EmailKey(e), NoUser)
    BY <2>1, <2>2, <2>3, <2>4, <2>6, BeginHistory DEF Reads, Writes
  <2>7. CASE \E n \in Nicknames : Begin(r, "GetByNickname", NickKey(n), NoUser)
    BY <2>1, <2>2, <2>3, <2>4, <2>7, BeginHistory DEF Reads, Writes
  <2>8. CASE \E i \in FreshIds, u \in User : /\ u.id = i /\ u.password = "hash" /\ u.updated = r
                                             /\ Begin(r, "Create", IdKey(i), u)
    BY <2>1, <2>2, <2>3, <2>4, <2>8, BeginHistory DEF Writes, FreshIds
  <2>9. CASE \E old \in committed, u \in User : /\ u.id = old.id /\ u.updated = old.updated
                                                /\ Begin(r, "Update", IdKey(u.id), u)
    <3>1. PICK old \in committed, u \in User : u.id = old.id /\ Begin(r, "Update", IdKey(u.id), u)
      BY <2>9
    <3>2. u.id \in Ids /\ HasId(committed, u.id)
      BY <3>1 DEF User, HasId
    <3> QED
      BY <2>1, <2>2, <2>3, <2>4, <3>1, <3>2, BeginHistory DEF Writes
  <2>10. CASE \E i \in Ids \ UnbornIds : Begin(r, "Delete", IdKey(i), NoUser)
    BY <2>1, <2>2, <2>3, <2>4, <2>10, BeginHistory DEF Reads, Writes
  <2> QED
    BY <1>2, <2>5, <2>6, <2>7, <2>8, <2>9, <2>10 DEF Invoke
<1>3. ASSUME NEW r \in Requests, Step(r) PROVE HistoryInv' /\ Fresh'
  <2>1. HistoryInv'
    BY <1>3, StepHistory
  <2>2. Tells(call[r], r)
    BY DEF HistoryInv
  <2>3. PICK a : Effect(r, a)
    BY <1>3, <2>2, StepEffect
  <2>4. TableStep(r) /\ call' = [call EXCEPT ![r] = a]
    BY <2>2, <2>3, TableEffect DEF Effect, Becomes
  <2>5. a.pc # "idle"
    BY <2>3 DEF Effect, Quiet, Inserts, Updates, Removes, Statement, Running
  <2>6. Fresh'
    BY <1>1, <2>4, <2>5 DEF Fresh, At, TableStep
  <2> QED
    BY <2>1, <2>6
<1>4. ASSUME NEW k \in Keys, Expire(k) PROVE HistoryInv' /\ Fresh'
  BY <1>4, ExpireHistory DEF Expire, Fresh, At
<1>5. CASE Crash
  <2>1. UNCHANGED <<users, committed>>
    BY <1>5 DEF Crash
  <2>2. ASSUME NEW q \in Requests
        PROVE  \/ call'[q] = call[q]
               \/ call'[q].pc = "lost" /\ call'[q].fn = "none" /\ call'[q].key = call[q].key
    BY <1>5 DEF Crash, NoCall
  <2>3. HistoryInv'
    BY <2>1, <2>2, EndHistory
  <2>4. Fresh'
    BY <2>1, <2>2 DEF Fresh, At
  <2> QED
    BY <2>3, <2>4
<1>6. CASE UNCHANGED vars
  BY <1>6, EndHistory DEF vars, Fresh, At
<1> QED
  BY <1>2, <1>3, <1>4, <1>5, <1>6 DEF Next

\* The history of the table is as HistoryInv says, always.
LEMMA History == Spec => [](TypeInv /\ DataInv /\ HistoryInv /\ Fresh)
<1>1. Init => TypeInv /\ DataInv /\ HistoryInv /\ Fresh
  BY TypeInit, DataInit, HistoryInit
<1>2. TypeInv /\ DataInv /\ HistoryInv /\ Fresh /\ [Next]_vars
          => (TypeInv /\ DataInv /\ HistoryInv /\ Fresh)'
  BY TypeStep, DataStep, HistoryStep
<1> QED
  BY <1>1, <1>2, PTL DEF Spec

\* "Not found" is never said of a user that exists, nor of one that will come.
THEOREM MissesAreTrue == Spec => []NotFoundIsTrue
<1>1. HistoryInv => NotFoundIsTrue
  BY DEF HistoryInv, Tells, Missed, NotFoundIsTrue, At
<1> QED
  BY <1>1, History, PTL

\* A method that reports a conflict has left no row behind.
THEOREM RefusedWritesLeaveNoRow == Spec => []ConflictWritesNothing
<1>1. HistoryInv => ConflictWritesNothing
  BY DEF HistoryInv, Tells, Unwritten, ConflictWritesNothing, At
<1> QED
  BY <1>1, History, PTL

\* No step brings a deleted user back.
THEOREM TheDeletedStayDeleted == Spec => NoResurrection
<1> DEFINE Stays == \A u \in committed : ~ HasId(users, u.id) => ~ HasId(users', u.id)
<1>1. TypeInv /\ DataInv /\ HistoryInv /\ [Next]_vars => [Stays]_vars
  <2> SUFFICES ASSUME TypeInv, DataInv, HistoryInv, Next PROVE Stays
    BY DEF vars
  <2>1. CASE UNCHANGED users
    BY <2>1
  <2>2. ASSUME NEW r \in Requests, Step(r) PROVE Stays
    <3>1. Tells(call[r], r)
      BY DEF HistoryInv
    <3>2. TableStep(r)
      BY <2>2, <3>1, StepEffect, TableEffect
    <3>3. ASSUME NEW u \in committed, At(r, "insert") PROVE call[r].key # IdKey(u.id)
      <4>1. call[r].key = IdKey(call[r].user.id) /\ ~ HasId(committed, call[r].user.id)
        BY <3>1, <3>3 DEF TypeInv, WellFormed, At, Tells
      <4> QED
        BY <4>1 DEF HasId
    <3>4. \A u \in committed : u.id \in Ids
      BY DEF TypeInv, TypeOK, User
    <3> QED
      BY <3>2, <3>3, <3>4 DEF TableStep
  <2> QED
    BY <2>1, <2>2 DEF Next, Invoke, Expire, Crash
<1> QED
  BY <1>1, History, PTL DEF Spec, NoResurrection
=============================================================================
