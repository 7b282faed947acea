--------------------------- MODULE SequentialProofs ---------------------------
(***************************************************************************)
(* What holds when requests are served one at a time and nothing fails:    *)
(* the cache agrees with the table, the cached repository implements the   *)
(* abstract Repository step by step, a lookup answers with the row of the  *)
(* moment, an update touches the given fields only, and every change is    *)
(* announced.  The runs that expect a violation show how three of them     *)
(* fail once two requests overlap.                                         *)
(***************************************************************************)
EXTENDS UserServiceProofs, FiniteSetTheorems

USE DEF IdKey, EmailKey, NickKey

\* The setting of every theorem here.
Sequential == MaxInFlight = 1 /\ ~ DbFaults /\ ~ RedisFaults /\ ~ ProcessCrashes

-----------------------------------------------------------------------------
(* The inductive invariant *)

\* The keys that the pipeline of an activation has yet to delete.
ToDelete(a) == IF a.pc = "del" THEN {KeysOf(a.row)[n] : n \in a.n .. 3} ELSE {}

\* Nothing happens to the table between what an activation has read of it, or
\* written to it, and what it does next.
UpToDate(a, table) ==
    /\ a.pc = "set" => a.row \in table
    /\ a.pc \in {"update", "delete"} => a.row \in RowsUnder(table, a.key)
    /\ a.pc = "reload" \/ (a.pc = "del" /\ a.fn = "Update") => RowsUnder(table, a.key) # {}

\* A document of the cache is that of the row the table holds under its key.
Filed(k, doc, table) == \E u \in table : k \in KeySet(u) /\ doc = Sanitize(u)

SequentialInv ==
    /\ \A r, q \in InFlight : r = q
    /\ \A r \in Requests : UpToDate(call[r], users)
    /\ \A k \in Keys : redis[k] # NoUser =>
          Filed(k, redis[k], users) \/ \E r \in Requests : k \in ToDelete(call[r])

-----------------------------------------------------------------------------
(* What one step of a call does *)

\* Activation a takes the place of call[r], at point p and with result e.
Goes(r, a, p, e) ==
    /\ call' = [call EXCEPT ![r] = a]
    /\ a.fn = call[r].fn /\ a.key = call[r].key
    /\ a.pc = p /\ a.err = e

Keeps(r, a) == a.user = call[r].user

\* It looks at the cache or at the table.
Looks(r, a) ==
    LET k == call[r].key IN
    /\ UNCHANGED <<users, redis>>
    /\ \/ /\ At(r, "lookup") /\ redis[k] # NoUser
          /\ Goes(r, a, "done", "ok") /\ a.user = redis[k]
       \/ At(r, "lookup") /\ Goes(r, a, "select", "ok") /\ Keeps(r, a)
       \/ /\ At(r, "select") /\ Goes(r, a, "set", "ok")
          /\ a.user \in RowsUnder(users, k) /\ a.row = a.user
       \/ /\ At(r, "load") /\ Goes(r, a, IF call[r].fn = "Update" THEN "update" ELSE "delete", "ok")
          /\ Keeps(r, a) /\ a.row \in RowsUnder(users, k)
       \/ /\ At(r, "reload") /\ Goes(r, a, "set", "ok") /\ Keeps(r, a)
          /\ a.row \in RowsUnder(users, k)

\* It finds no row.
FindsNone(r, a) ==
    /\ UNCHANGED <<users, redis>>
    /\ call[r].pc \in {"select", "load", "update", "delete", "reload"}
    /\ RowsUnder(users, call[r].key) = {}
    /\ Goes(r, a, "done", "not_found") /\ Keeps(r, a)

\* A unique constraint refuses its row.
IsRefused(r, a) ==
    /\ UNCHANGED <<users, redis>>
    /\ Keeps(r, a)
    /\ \/ At(r, "insert") /\ \E e \in Conflicts(users, call[r].user) : Goes(r, a, "done", e)
       \/ /\ At(r, "update")
          /\ \E u \in RowsUnder(users, call[r].key) :
                \E e \in Conflicts(users \ {u}, [call[r].user EXCEPT !.updated = r]) :
                   Goes(r, a, "done", e)

\* It changes the table, and goes on with a pipeline over the keys of a row.
Inserted(r, a) ==
    LET u == call[r].user IN
    /\ At(r, "insert") /\ Conflicts(users, u) = {}
    /\ users' = users \cup {u} /\ redis' = redis
    /\ Goes(r, a, "set", "ok") /\ Keeps(r, a) /\ a.row = u

Updated(r, a) ==
    LET new == [call[r].user EXCEPT !.updated = r] IN
    /\ At(r, "update")
    /\ \E u \in RowsUnder(users, call[r].key) :
          Conflicts(users \ {u}, new) = {} /\ users' = (users \ {u}) \cup {new}
    /\ redis' = redis
    /\ Goes(r, a, "del", "ok") /\ Keeps(r, a) /\ a.row = call[r].row /\ a.n = 1

Erased(r, a) ==
    /\ At(r, "delete")
    /\ \E u \in RowsUnder(users, call[r].key) : users' = users \ {u}
    /\ redis' = redis
    /\ Goes(r, a, "del", "ok") /\ Keeps(r, a) /\ a.row = call[r].row /\ a.n = 1

\* It executes a command of its pipeline.
Commanded(r, a) ==
    /\ call[r].pc \in {"set", "del"}
    /\ users' = users
    /\ redis' = [redis EXCEPT ![PipelineKey(r, call[r].n)] = PipelineValue(r)]
    /\ Keeps(r, a)
    /\ \/ /\ call[r].n < 3 /\ Goes(r, a, call[r].pc, "ok")
          /\ a.row = call[r].row /\ a.n = call[r].n + 1
       \/ /\ call[r].n = 3 /\ At(r, "del") /\ call[r].fn = "Update" /\ Goes(r, a, "reload", "ok")
       \/ /\ call[r].n = 3 /\ ~ (At(r, "del") /\ call[r].fn = "Update") /\ Goes(r, a, "done", "ok")

Outcome(r, a) ==
    \/ Looks(r, a) \/ FindsNone(r, a) \/ IsRefused(r, a)
    \/ Inserted(r, a) \/ Updated(r, a) \/ Erased(r, a)
    \/ Commanded(r, a)

\* A call that goes on changes only its place.
LEMMA GotoGoes ==
    ASSUME TypeInv, NEW r \in Requests, call[r].err = "ok", NEW p, Goto(r, p)
    PROVE  \E a : Goes(r, a, p, "ok") /\ Keeps(r, a)
<1> DEFINE a == [call[r] EXCEPT !.pc = p]
<1>1. call[r] \in Activation
  BY DEF TypeInv, TypeOK
<1>2. call' = [call EXCEPT ![r] = a]
  BY <1>1 DEF Goto
<1>3. /\ a.pc = p /\ a.fn = call[r].fn /\ a.key = call[r].key /\ a.user = call[r].user
      /\ a.err = "ok"
  BY <1>1 DEF Activation
<1> HIDE DEF a
<1> QED
  BY <1>2, <1>3 DEF Goes, Keeps

\* A call that ends carries its result.
LEMMA FinishGoes ==
    ASSUME TypeInv, NEW r \in Requests, NEW e, Finish(r, e)
    PROVE  \E a : Goes(r, a, "done", e) /\ Keeps(r, a)
BY FinishEffect DEF Goes, Keeps

\* A call that begins a pipeline stands at its first command.
LEMMA PipelineGoes ==
    ASSUME TypeInv, NEW r \in Requests, call[r].err = "ok", NEW p, NEW u, StartPipeline(r, p, u)
    PROVE  \E a : Goes(r, a, p, "ok") /\ Keeps(r, a) /\ a.row = u /\ a.n = 1
<1> DEFINE b == [call[r] EXCEPT !.pc = p, !.row = u]
           a == [b EXCEPT !.n = 1]
<1>1. call[r] \in Activation
  BY DEF TypeInv, TypeOK
<1>2. call' = [call EXCEPT ![r] = a]
  BY <1>1 DEF StartPipeline, Activation
<1>3. /\ a.pc = p /\ a.fn = call[r].fn /\ a.key = call[r].key /\ a.user = call[r].user
      /\ a.err = "ok" /\ a.row = u /\ a.n = 1
  BY <1>1 DEF Activation
<1> HIDE DEF a, b
<1> QED
  BY <1>2, <1>3 DEF Goes, Keeps

\* Without faults these are all the outcomes: one case per action.
LEMMA Outcomes ==
    ASSUME Sequential, TypeInv, NEW r \in Requests, Tells(call[r], r), Step(r)
    PROVE  call[r].pc \in Running /\ \E a : Outcome(r, a)
<1> DEFINE old == call[r]
<1>1. old \in Activation /\ ~ DbFaults /\ ~ RedisFaults
  BY DEF TypeInv, TypeOK, Sequential
<1>2. old.pc \in Running
  BY DEF Step, CacheHit, CacheMiss, SelectRow, InsertRow, LoadRow, UpdateRow, DeleteRow,
         ReloadRow, QueryFails, AwaitsPostgres, PipelineCommand, PipelineFails, At, Running
<1> SUFFICES \E a : Outcome(r, a)
  BY <1>2
<1>3. old.err = "ok"
  BY <1>2 DEF Tells
<1>4. CASE CacheHit(r)
  <2> DEFINE a == [old EXCEPT !.pc = "done", !.user = redis[old.key]]
  <2>1. /\ call' = [call EXCEPT ![r] = a] /\ UNCHANGED <<users, redis>>
        /\ At(r, "lookup") /\ redis[old.key] # NoUser
    BY <1>4 DEF CacheHit
  <2>2. a.pc = "done" /\ a.fn = old.fn /\ a.key = old.key /\ a.err = "ok" /\ a.user = redis[old.key]
    BY <1>1, <1>3 DEF Activation
  <2> HIDE DEF a
  <2>3. Goes(r, a, "done", "ok")
    BY <2>1, <2>2 DEF Goes
  <2>4. Looks(r, a)
    BY <2>1, <2>2, <2>3 DEF Looks
  <2> QED
    BY <2>4 DEF Outcome
<1>5. CASE CacheMiss(r)
  <2>1. UNCHANGED <<users, redis>> /\ At(r, "lookup")
    BY <1>5 DEF CacheMiss
  <2>2. PICK a : Goes(r, a, "select", "ok") /\ Keeps(r, a)
    BY <1>3, <1>5, GotoGoes DEF CacheMiss
  <2>3. Looks(r, a)
    BY <2>1, <2>2 DEF Looks
  <2> QED
    BY <2>3 DEF Outcome
<1>6. ASSUME old.pc \in {"select", "load", "update", "delete", "reload"},
             UNCHANGED <<users, redis>>, RowsUnder(users, old.key) = {}, Finish(r, "not_found")
      PROVE  \E a : Outcome(r, a)
  <2>1. PICK a : Goes(r, a, "done", "not_found") /\ Keeps(r, a)
    BY <1>6, FinishGoes
  <2>2. FindsNone(r, a)
    BY <1>6, <2>1 DEF FindsNone
  <2> QED
    BY <2>2 DEF Outcome
<1>7. CASE SelectRow(r)
  <2>1. UNCHANGED <<users, redis>> /\ At(r, "select")
    BY <1>7 DEF SelectRow
  <2>2. CASE RowsUnder(users, old.key) = {} /\ Finish(r, "not_found")
    BY <1>6, <2>1, <2>2 DEF At
  <2>3. ASSUME NEW u \in RowsUnder(users, old.key),
               call' = [call EXCEPT ![r].pc = "set", ![r].user = u, ![r].row = u, ![r].n = 1]
        PROVE  \E a : Outcome(r, a)
    <3> DEFINE b == [old EXCEPT !.pc = "set", !.user = u]
               c == [b EXCEPT !.row = u]
               a == [c EXCEPT !.n = 1]
    <3>1. call' = [call EXCEPT ![r] = a]
      BY <1>1, <2>3 DEF Activation
    <3>2. /\ a.pc = "set" /\ a.fn = old.fn /\ a.key = old.key /\ a.err = "ok"
          /\ a.user = u /\ a.row = u
      BY <1>1, <1>3 DEF Activation
    <3> HIDE DEF a, b, c
    <3>3. Goes(r, a, "set", "ok")
      BY <3>1, <3>2 DEF Goes
    <3>4. Looks(r, a)
      BY <2>1, <2>3, <3>2, <3>3 DEF Looks
    <3> QED
      BY <3>4 DEF Outcome
  <2> QED
    BY <1>7, <2>2, <2>3 DEF SelectRow
<1>8. CASE InsertRow(r)
  <2>1. At(r, "insert")
    BY <1>8 DEF InsertRow
  <2>2. CASE Conflicts(users, old.user) = {}
             /\ Commit(r, users \cup {old.user}, StartPipeline(r, "set", old.user))
    <3>1. /\ users' = users \cup {old.user} /\ redis' = redis
          /\ StartPipeline(r, "set", old.user)
      BY <1>1, <2>2 DEF Commit
    <3>2. PICK a : Goes(r, a, "set", "ok") /\ Keeps(r, a) /\ a.row = old.user
      BY <1>3, <3>1, PipelineGoes
    <3>3. Inserted(r, a)
      BY <2>1, <2>2, <3>1, <3>2 DEF Inserted
    <3> QED
      BY <3>3 DEF Outcome
  <2>3. ASSUME NEW e \in Conflicts(users, old.user), Reject(r, e) PROVE \E a : Outcome(r, a)
    <3>1. PICK a : Goes(r, a, "done", e) /\ Keeps(r, a)
      BY <2>3, FinishGoes DEF Reject
    <3>2. IsRefused(r, a)
      BY <2>1, <2>3, <3>1 DEF IsRefused, Reject
    <3> QED
      BY <3>2 DEF Outcome
  <2> QED
    BY <1>8, <2>2, <2>3 DEF InsertRow
<1>9. CASE LoadRow(r)
  <2>1. UNCHANGED <<users, redis>> /\ At(r, "load")
    BY <1>9 DEF LoadRow
  <2>2. CASE RowsUnder(users, old.key) = {} /\ Finish(r, "not_found")
    BY <1>6, <2>1, <2>2 DEF At
  <2>3. ASSUME NEW u \in RowsUnder(users, old.key),
               call' = [call EXCEPT ![r].pc = IF old.fn = "Update" THEN "update" ELSE "delete",
                                    ![r].row = u]
        PROVE  \E a : Outcome(r, a)
    <3> DEFINE p == IF old.fn = "Update" THEN "update" ELSE "delete"
               a == [old EXCEPT !.pc = p, !.row = u]
    <3>1. call' = [call EXCEPT ![r] = a]
      BY <2>3
    <3>2. /\ a.pc = p /\ a.fn = old.fn /\ a.key = old.key /\ a.err = "ok"
          /\ a.user = old.user /\ a.row = u
      BY <1>1, <1>3 DEF Activation
    <3> HIDE DEF a
    <3>3. Goes(r, a, p, "ok")
      BY <3>1, <3>2 DEF Goes
    <3>4. Looks(r, a)
      BY <2>1, <2>3, <3>2, <3>3 DEF Looks, Keeps
    <3> QED
      BY <3>4 DEF Outcome
  <2> QED
    BY <1>9, <2>2, <2>3 DEF LoadRow
<1>10. CASE UpdateRow(r)
  <2> DEFINE new == [old.user EXCEPT !.updated = r]
  <2>1. At(r, "update")
    BY <1>10 DEF UpdateRow
  <2>2. ASSUME NEW u \in RowsUnder(users, old.key), Conflicts(users \ {u}, new) = {},
               Commit(r, (users \ {u}) \cup {new}, StartPipeline(r, "del", old.row))
        PROVE  \E a : Outcome(r, a)
    <3>1. /\ users' = (users \ {u}) \cup {new} /\ redis' = redis
          /\ StartPipeline(r, "del", old.row)
      BY <1>1, <2>2 DEF Commit
    <3>2. PICK a : Goes(r, a, "del", "ok") /\ Keeps(r, a) /\ a.row = old.row /\ a.n = 1
      BY <1>3, <3>1, PipelineGoes
    <3>3. Updated(r, a)
      BY <2>1, <2>2, <3>1, <3>2 DEF Updated
    <3> QED
      BY <3>3 DEF Outcome
  <2>3. ASSUME NEW u \in RowsUnder(users, old.key), NEW e \in Conflicts(users \ {u}, new),
               Reject(r, e)
        PROVE  \E a : Outcome(r, a)
    <3>1. PICK a : Goes(r, a, "done", e) /\ Keeps(r, a)
      BY <2>3, FinishGoes DEF Reject
    <3>2. IsRefused(r, a)
      BY <2>1, <2>3, <3>1 DEF IsRefused, Reject
    <3> QED
      BY <3>2 DEF Outcome
  <2>4. CASE RowsUnder(users, old.key) = {} /\ Reject(r, "not_found")
    BY <1>6, <2>1, <2>4 DEF Reject, At
  <2> QED
    BY <1>10, <2>2, <2>3, <2>4 DEF UpdateRow
<1>11. CASE DeleteRow(r)
  <2>1. At(r, "delete")
    BY <1>11 DEF DeleteRow
  <2>2. ASSUME NEW u \in RowsUnder(users, old.key),
               Commit(r, users \ {u}, StartPipeline(r, "del", old.row))
        PROVE  \E a : Outcome(r, a)
    <3>1. users' = users \ {u} /\ redis' = redis /\ StartPipeline(r, "del", old.row)
      BY <1>1, <2>2 DEF Commit
    <3>2. PICK a : Goes(r, a, "del", "ok") /\ Keeps(r, a) /\ a.row = old.row /\ a.n = 1
      BY <1>3, <3>1, PipelineGoes
    <3>3. Erased(r, a)
      BY <2>1, <2>2, <3>1, <3>2 DEF Erased
    <3> QED
      BY <3>3 DEF Outcome
  <2>3. CASE RowsUnder(users, old.key) = {} /\ Reject(r, "not_found")
    BY <1>6, <2>1, <2>3 DEF Reject, At
  <2> QED
    BY <1>11, <2>2, <2>3 DEF DeleteRow
<1>12. CASE ReloadRow(r)
  <2>1. UNCHANGED <<users, redis>> /\ At(r, "reload")
    BY <1>12 DEF ReloadRow
  <2>2. ASSUME NEW u \in RowsUnder(users, old.key), StartPipeline(r, "set", u)
        PROVE  \E a : Outcome(r, a)
    <3>1. PICK a : Goes(r, a, "set", "ok") /\ Keeps(r, a) /\ a.row = u
      BY <1>3, <2>2, PipelineGoes
    <3>2. Looks(r, a)
      BY <2>1, <2>2, <3>1 DEF Looks
    <3> QED
      BY <3>2 DEF Outcome
  <2>3. CASE RowsUnder(users, old.key) = {} /\ Finish(r, "not_found")
    BY <1>6, <2>1, <2>3 DEF At
  <2> QED
    BY <1>12, <2>2, <2>3 DEF ReloadRow
<1>13. CASE PipelineCommand(r)
  <2>1. /\ old.pc \in {"set", "del"} /\ users' = users
        /\ redis' = [redis EXCEPT ![PipelineKey(r, old.n)] = PipelineValue(r)]
    BY <1>13 DEF PipelineCommand, MoreCommands
  <2>2. old.n \in 1 .. 3
    BY <1>1 DEF Activation
  <2>3. CASE old.n < 3
    <3> DEFINE a == [old EXCEPT !.n = @ + 1]
    <3>1. call' = [call EXCEPT ![r] = a]
      BY <1>13, <2>3 DEF PipelineCommand, MoreCommands
    <3>2. /\ a.pc = old.pc /\ a.fn = old.fn /\ a.key = old.key /\ a.user = old.user
          /\ a.err = "ok" /\ a.row = old.row /\ a.n = old.n + 1
      BY <1>1, <1>3 DEF Activation
    <3> HIDE DEF a
    <3>3. Goes(r, a, old.pc, "ok") /\ Keeps(r, a)
      BY <3>1, <3>2 DEF Goes, Keeps
    <3>4. Commanded(r, a)
      BY <2>1, <2>3, <3>2, <3>3 DEF Commanded
    <3> QED
      BY <3>4 DEF Outcome
  <2>4. CASE old.n = 3
    <3>1. AfterPipeline(r)
      BY <1>13, <2>4 DEF PipelineCommand, MoreCommands
    <3>2. CASE At(r, "del") /\ old.fn = "Update"
      <4>1. PICK a : Goes(r, a, "reload", "ok") /\ Keeps(r, a)
        BY <1>3, <3>1, <3>2, GotoGoes DEF AfterPipeline
      <4>2. Commanded(r, a)
        BY <2>1, <2>4, <3>2, <4>1 DEF Commanded
      <4> QED
        BY <4>2 DEF Outcome
    <3>3. CASE ~ (At(r, "del") /\ old.fn = "Update")
      <4>1. PICK a : Goes(r, a, "done", "ok") /\ Keeps(r, a)
        BY <3>1, <3>3, FinishGoes DEF AfterPipeline
      <4>2. Commanded(r, a)
        BY <2>1, <2>4, <3>3, <4>1 DEF Commanded
      <4> QED
        BY <4>2 DEF Outcome
    <3> QED
      BY <3>2, <3>3
  <2> QED
    BY <2>2, <2>3, <2>4
<1>14. ~ QueryFails(r) /\ ~ PipelineFails(r)
  BY <1>1 DEF QueryFails, AwaitsPostgres, PipelineFails
<1> QED
  BY <1>4, <1>5, <1>7, <1>8, <1>9, <1>10, <1>11, <1>12, <1>13, <1>14 DEF Step

-----------------------------------------------------------------------------
(* The invariant is inductive *)

\* The document under key k is filed correctly, or about to be deleted.
InOrder(k, doc, table, a) == doc # NoUser => Filed(k, doc, table) \/ k \in ToDelete(a)

\* Under a key there is one row.
LEMMA OneRowUnderKey ==
    ASSUME DataInv, NEW k, NEW u \in RowsUnder(users, k), NEW v \in RowsUnder(users, k)
    PROVE  u = v
BY DEF DataInv, IdentifiesRows, RowsUnder

\* A step of the only call under way keeps its knowledge and the cache in order.
LEMMA OutcomeInOrder ==
    ASSUME TypeInv, DataInv, NEW r \in Requests, NEW a, Outcome(r, a),
           UpToDate(call[r], users),
           \A k \in Keys : InOrder(k, redis[k], users, call[r])
    PROVE  /\ UpToDate(a, users')
           /\ \A k \in Keys : InOrder(k, redis'[k], users', a)
<1> DEFINE old == call[r]
<1>1. /\ old \in Activation /\ redis \in [Keys -> User \cup {NoUser}]
      /\ users \subseteq User /\ WellFormed
  BY DEF TypeInv, TypeOK
<1>2. CASE redis' = redis /\ users' = users /\ UpToDate(a, users) /\ old.pc # "del"
  BY <1>2 DEF InOrder, ToDelete
<1>3. CASE Looks(r, a)
  <2>1. old.pc # "del" /\ redis' = redis /\ users' = users
    BY <1>3 DEF Looks, At
  <2>2. UpToDate(a, users)
    BY <1>3 DEF Looks, Goes, UpToDate, RowsUnder
  <2> QED
    BY <1>2, <2>1, <2>2
<1>4. CASE FindsNone(r, a) \/ IsRefused(r, a)
  <2>1. old.pc # "del" /\ redis' = redis /\ users' = users
    BY <1>4 DEF FindsNone, IsRefused, At
  <2>2. UpToDate(a, users)
    BY <1>4 DEF FindsNone, IsRefused, Goes, UpToDate
  <2> QED
    BY <1>2, <2>1, <2>2
<1>5. CASE Inserted(r, a)
  <2>1. /\ users' = users \cup {old.user} /\ redis' = redis /\ old.pc = "insert"
        /\ a.pc = "set" /\ a.row = old.user
    BY <1>5 DEF Inserted, Goes, At
  <2>2. UpToDate(a, users')
    BY <2>1 DEF UpToDate
  <2>3. ASSUME NEW k \in Keys PROVE InOrder(k, redis'[k], users', a)
    BY <2>1 DEF InOrder, ToDelete, Filed
  <2> QED
    BY <2>2, <2>3
\* The row that is replaced or removed is the one whose keys are to be deleted.
<1>6. ASSUME NEW u \in RowsUnder(users, old.key), users \ {u} \subseteq users', redis' = redis,
             old.pc \in {"update", "delete"},
             a.pc = "del", a.row = old.row, a.n = 1
      PROVE  \A k \in Keys : InOrder(k, redis'[k], users', a)
  <2>1. old.row = u
    BY <1>6, OneRowUnderKey DEF UpToDate
  <2>2. ToDelete(a) = KeySet(u)
    BY <1>6, <2>1 DEF ToDelete, KeySet
  <2>3. ToDelete(old) = {}
    BY <1>6 DEF ToDelete
  <2> SUFFICES ASSUME NEW k \in Keys, redis[k] # NoUser
               PROVE  Filed(k, redis[k], users') \/ k \in ToDelete(a)
    BY <1>6 DEF InOrder
  <2>4. PICK v \in users : k \in KeySet(v) /\ redis[k] = Sanitize(v)
    BY <2>3 DEF InOrder, Filed
  <2>5. CASE v = u
    BY <2>2, <2>4, <2>5
  <2>6. CASE v # u
    BY <1>6, <2>4, <2>6 DEF Filed
  <2> QED
    BY <2>5, <2>6
<1>7. CASE Updated(r, a)
  <2> DEFINE new == [old.user EXCEPT !.updated = r]
  <2>1. PICK u \in RowsUnder(users, old.key) : users' = (users \ {u}) \cup {new}
    BY <1>7 DEF Updated
  <2>2. /\ redis' = redis /\ old.pc = "update" /\ a.pc = "del" /\ a.key = old.key
        /\ a.row = old.row /\ a.n = 1
    BY <1>7 DEF Updated, Goes, At
  <2>3. old.key = IdKey(old.user.id) /\ old.user \in User
    BY <1>1, <2>2 DEF WellFormed
  <2>4. new.id = old.user.id
    BY <2>3 DEF User
  <2> HIDE DEF new
  <2>5. KeysOf(new)[1] = old.key
    BY <2>3, <2>4 DEF KeysOf
  <2>6. new \in RowsUnder(users', old.key)
    BY <2>1, <2>5 DEF RowsUnder, KeySet
  <2>7. UpToDate(a, users')
    BY <2>2, <2>6 DEF UpToDate
  <2>8. \A k \in Keys : InOrder(k, redis'[k], users', a)
    BY <1>6, <2>1, <2>2
  <2> QED
    BY <2>7, <2>8
<1>8. CASE Erased(r, a)
  <2>1. PICK u \in RowsUnder(users, old.key) : users' = users \ {u}
    BY <1>8 DEF Erased
  <2>2. /\ redis' = redis /\ old.pc = "delete" /\ a.pc = "del" /\ a.fn = old.fn
        /\ a.row = old.row /\ a.n = 1
    BY <1>8 DEF Erased, Goes, At
  <2>3. a.fn = "Delete"
    BY <1>1, <2>2 DEF WellFormed, At
  <2>4. UpToDate(a, users')
    BY <2>2, <2>3 DEF UpToDate
  <2>5. \A k \in Keys : InOrder(k, redis'[k], users', a)
    BY <1>6, <2>1, <2>2
  <2> QED
    BY <2>4, <2>5
<1>9. CASE Commanded(r, a)
  <2> DEFINE n == old.n
             k0 == KeysOf(old.row)[n]
  <2>1. /\ old.pc \in {"set", "del"} /\ users' = users /\ n \in 1 .. 3
        /\ redis' = [redis EXCEPT ![k0] = PipelineValue(r)]
        /\ a.fn = old.fn /\ a.key = old.key
        /\ \/ n < 3 /\ a.pc = old.pc /\ a.row = old.row /\ a.n = n + 1
           \/ n = 3 /\ old.pc = "del" /\ old.fn = "Update" /\ a.pc = "reload"
           \/ n = 3 /\ a.pc = "done"
    BY <1>1, <1>9 DEF Commanded, Goes, PipelineKey, At, Activation
  <2>2. old.row \in User
    BY <1>1, <2>1 DEF WellFormed
  <2>3. k0 \in Keys /\ k0 \in KeySet(old.row)
    BY <2>1, <2>2, KeysOfRow
  <2>4. UpToDate(a, users')
    BY <2>1 DEF UpToDate
  <2>5. ASSUME NEW k \in Keys PROVE InOrder(k, redis'[k], users', a)
    <3>1. CASE k = k0 /\ old.pc = "set"
      <4>1. redis'[k] = Sanitize(old.row) /\ old.row \in users
        BY <1>1, <2>1, <2>3, <3>1 DEF PipelineValue, At, UpToDate
      <4> QED
        BY <2>1, <2>3, <3>1, <4>1 DEF InOrder, Filed
    <3>2. CASE k = k0 /\ old.pc = "del"
      <4>1. redis'[k] = NoUser
        BY <1>1, <2>1, <2>3, <3>2 DEF PipelineValue, At
      <4> QED
        BY <4>1 DEF InOrder
    <3>3. CASE k # k0
      <4>1. redis'[k] = redis[k] /\ InOrder(k, redis[k], users, old)
        BY <1>1, <2>1, <3>3
      <4>2. k \in ToDelete(old) => k \in ToDelete(a)
        <5> SUFFICES ASSUME old.pc = "del", NEW m \in n .. 3, k = KeysOf(old.row)[m]
                     PROVE  k \in ToDelete(a)
          BY DEF ToDelete
        <5>1. m # n /\ n < 3
          BY <2>1, <3>3
        <5>2. a.pc = "del" /\ a.row = old.row /\ a.n = n + 1 /\ m \in n + 1 .. 3
          BY <2>1, <5>1
        <5> QED
          BY <5>2 DEF ToDelete
      <4> QED
        BY <2>1, <4>1, <4>2 DEF InOrder
    <3> QED
      BY <2>1, <3>1, <3>2, <3>3
  <2> QED
    BY <2>4, <2>5
<1> QED
  BY <1>3, <1>4, <1>5, <1>7, <1>8, <1>9 DEF Outcome

\* An activation that is not under way tells nothing and deletes nothing.
LEMMA OnlyTheRunningTell ==
    ASSUME NEW a, a.pc \notin Running, NEW table
    PROVE  UpToDate(a, table) /\ ToDelete(a) = {}
BY DEF Running, UpToDate, ToDelete

\* Every step of a call keeps the sequential invariant.
LEMMA SequentialStep ==
    ASSUME Sequential, TypeInv, DataInv, HistoryInv, SequentialInv, NEW r \in Requests, Step(r)
    PROVE  SequentialInv'
<1>1. call \in [Requests -> Activation] /\ Tells(call[r], r)
  BY DEF TypeInv, TypeOK, HistoryInv
<1>2. call[r].pc \in Running
  BY <1>1, Outcomes
<1>3. PICK a : Outcome(r, a)
  BY <1>1, Outcomes
<1>4. call' = [call EXCEPT ![r] = a]
  BY <1>3 DEF Outcome, Looks, FindsNone, IsRefused, Inserted, Updated, Erased, Commanded, Goes
<1>5. call'[r] = a /\ \A q \in Requests : q # r => call'[q] = call[q]
  BY <1>1, <1>4
<1>6. ASSUME NEW q \in Requests, q # r PROVE call[q].pc \notin Running
  BY <1>2, <1>6 DEF SequentialInv, InFlight
<1>7. \A k \in Keys : InOrder(k, redis[k], users, call[r])
  <2>1. \A q \in Requests : q # r => ToDelete(call[q]) = {}
    BY <1>6, OnlyTheRunningTell
  <2> QED
    BY <2>1 DEF SequentialInv, InOrder
<1>8. UpToDate(a, users') /\ \A k \in Keys : InOrder(k, redis'[k], users', a)
  BY <1>3, <1>7, OutcomeInOrder DEF SequentialInv
<1>9. \A q \in InFlight' : q = r
  BY <1>5, <1>6 DEF InFlight
<1>10. ASSUME NEW q \in Requests PROVE UpToDate(call'[q], users')
  <2>1. CASE q = r
    BY <1>5, <1>8, <2>1
  <2>2. CASE q # r
    BY <1>5, <1>6, <2>2, OnlyTheRunningTell
  <2> QED
    BY <2>1, <2>2
<1> QED
  BY <1>5, <1>8, <1>9, <1>10 DEF SequentialInv, InOrder

\* Where nothing was under way and the table stays, a call begins or its result
\* is taken.
LEMMA SwapSequential ==
    ASSUME TypeInv, SequentialInv, UNCHANGED <<users, redis>>, InFlight = {},
           NEW r \in Requests, NEW a, call' = [call EXCEPT ![r] = a],
           a.pc \in {"lookup", "insert", "load"} \/ a.pc \notin Running
    PROVE  SequentialInv'
<1>1. call \in [Requests -> Activation]
  BY DEF TypeInv, TypeOK
<1>2. call'[r] = a /\ \A q \in Requests : q # r => call'[q] = call[q]
  BY <1>1
<1>3. \A q \in Requests : call[q].pc \notin Running
  BY DEF InFlight
<1>4. \A q \in InFlight' : q = r
  BY <1>2, <1>3 DEF InFlight
<1>5. UpToDate(a, users)
  BY DEF UpToDate, Running
<1>6. \A q \in Requests : UpToDate(call'[q], users)
  BY <1>2, <1>5 DEF SequentialInv
<1>7. \A q \in Requests : ToDelete(call[q]) = {}
  BY <1>3, OnlyTheRunningTell
<1>8. \A k \in Keys : redis[k] # NoUser => Filed(k, redis[k], users)
  BY <1>7 DEF SequentialInv
<1> QED
  BY <1>4, <1>6, <1>8 DEF SequentialInv

\* An entry that expires is in nobody's way.
LEMMA ExpireSequential ==
    ASSUME TypeInv, SequentialInv, NEW k \in Keys, Expire(k)
    PROVE  SequentialInv'
<1>1. redis \in [Keys -> User \cup {NoUser}]
  BY DEF TypeInv, TypeOK
<1>2. UNCHANGED <<users, call>> /\ InFlight' = InFlight
  BY DEF Expire, InFlight
<1>3. \A l \in Keys : redis'[l] # NoUser => redis'[l] = redis[l]
  BY <1>1 DEF Expire
<1> QED
  BY <1>2, <1>3 DEF SequentialInv

\* A warm cache holds the documents of the stored rows, and nothing is under way.
LEMMA SequentialInit == Init => SequentialInv
<1> SUFFICES ASSUME Init PROVE SequentialInv
  OBVIOUS
<1>1. \A r \in Requests : call[r].pc \notin Running
  BY DEF Init, NoCall, Running
<1>2. InFlight = {}
  BY <1>1 DEF InFlight
<1>3. \A r \in Requests : UpToDate(call[r], users)
  BY <1>1, OnlyTheRunningTell
<1>4. ASSUME NEW k \in Keys, redis[k] # NoUser PROVE Filed(k, redis[k], users)
  <2>1. PICK warm \in SUBSET {l \in Keys : \E u \in users : l \in KeySet(u)} :
           redis = [l \in Keys |-> IF l \in warm
                                   THEN Sanitize(CHOOSE u \in users : l \in KeySet(u))
                                   ELSE NoUser]
    BY DEF Init
  <2> DEFINE owner == CHOOSE u \in users : k \in KeySet(u)
  <2>2. k \in warm
    BY <1>4, <2>1
  <2>3. \E u \in users : k \in KeySet(u)
    BY <2>1, <2>2
  <2>4. owner \in users /\ k \in KeySet(owner)
    BY <2>3
  <2>5. redis[k] = Sanitize(owner)
    BY <2>1, <2>2
  <2> HIDE DEF owner
  <2> QED
    BY <2>4, <2>5 DEF Filed
<1> QED
  BY <1>2, <1>3, <1>4 DEF SequentialInv

\* One request at a time: a call begins only if none is under way.
LEMMA OneAtATime ==
    ASSUME Sequential, NEW S, \A r, q \in S : r = q, Cardinality(S) < MaxInFlight
    PROVE  S = {}
<1> SUFFICES ASSUME NEW r \in S PROVE FALSE
  OBVIOUS
<1>1. S = {r}
  OBVIOUS
<1>2. Cardinality(S) = 1
  BY <1>1, FS_Singleton
<1> QED
  BY <1>2 DEF Sequential

RepositorySequential == RepositoryInv /\ Fresh /\ SequentialInv

\* Every step of the repository alone keeps it.
LEMMA RepositoryStays ==
    ASSUME Sequential, RepositorySequential, [Next]_vars
    PROVE  RepositorySequential'
<1>1. TypeInv /\ DataInv /\ HistoryInv /\ Fresh /\ SequentialInv
  BY DEF RepositorySequential, RepositoryInv
<1>2. (TypeInv /\ DataInv /\ HistoryInv /\ Fresh)'
  BY <1>1, TypeStep, DataStep, HistoryStep
<1>3. ASSUME NEW r \in Requests, Invoke(r) PROVE SequentialInv'
  <2>1. UNCHANGED <<users, redis>> /\ Cardinality(InFlight) < MaxInFlight
    BY <1>3 DEF Invoke
  <2>2. InFlight = {}
    BY <1>1, <2>1, OneAtATime DEF SequentialInv
  <2>3. PICK fn, k, u : fn \in Reads \cup Writes /\ Begin(r, fn, k, u)
    BY <1>3 DEF Invoke, Reads, Writes
  <2> DEFINE a == Called(fn, k, u)
  <2>4. call' = [call EXCEPT ![r] = a]
    BY <2>3 DEF Begin
  <2>5. a.pc \in {"lookup", "insert", "load"}
    BY <2>3 DEF Called, Entry, Reads, Writes
  <2> HIDE DEF a
  <2> QED
    BY <1>1, <2>1, <2>2, <2>4, <2>5, SwapSequential
<1>4. ASSUME NEW r \in Requests, Step(r) PROVE SequentialInv'
  BY <1>1, <1>4, SequentialStep
<1>5. ASSUME NEW k \in Keys, Expire(k) PROVE SequentialInv'
  BY <1>1, <1>5, ExpireSequential
<1>6. ASSUME Crash PROVE SequentialInv'
  BY <1>6 DEF Crash, Sequential
<1>7. ASSUME UNCHANGED vars PROVE SequentialInv'
  <2>1. UNCHANGED <<users, redis, call>>
    BY <1>7 DEF vars
  <2>2. InFlight' = InFlight
    BY <2>1 DEF InFlight
  <2> QED
    BY <1>1, <2>1, <2>2 DEF SequentialInv
<1>8. SequentialInv'
  BY <1>3, <1>4, <1>5, <1>6, <1>7 DEF Next
<1> QED
  BY <1>2, <1>8 DEF RepositorySequential, RepositoryInv

\* The sequential invariant holds in every state of a sequential run.
LEMMA RepositorySequence ==
    ASSUME Sequential PROVE Spec => []RepositorySequential
<1>1. Init => RepositorySequential
  BY TypeInit, DataInit, HistoryInit, SequentialInit DEF RepositorySequential, RepositoryInv
<1>2. RepositorySequential /\ [Next]_vars => RepositorySequential'
  BY RepositoryStays
<1> QED
  BY <1>1, <1>2, PTL DEF Spec

\* With no call under way, the cache agrees with the table.
THEOREM CacheIsCoherentAtRest == ASSUME Sequential PROVE Spec => []CoherentAtRest
<1>1. RepositorySequential => CoherentAtRest
  <2> SUFFICES ASSUME SequentialInv, InFlight = {} PROVE Coherent
    BY DEF RepositorySequential, CoherentAtRest
  <2>1. \A r \in Requests : ToDelete(call[r]) = {}
    BY OnlyTheRunningTell DEF InFlight
  <2> QED
    BY <2>1 DEF SequentialInv, Filed, Coherent
<1> QED
  BY <1>1, RepositorySequence, PTL

-----------------------------------------------------------------------------
(* The refinement of Repository *)

\* The rows of a table, as the abstract repository knows them.
WithoutHashes(T) == {Sanitize(u) : u \in T}

\* What a call has been given, or returns, as the abstract repository knows it.
Outline(a) == IF a.user = NoUser \/ a.fn = "Delete" THEN NoUser ELSE Sanitize(a.user)

PendingPoints == {"lookup", "select", "insert", "load", "update", "delete"}

AsOps == [r \in Requests |-> AsOp(r)]

\* Both levels mean the same by rows, keys and conflicts.
LEMMA SameTables ==
    /\ \A T, k : Ideal!RowsUnder(T, k) = RowsUnder(T, k)
    /\ \A T, u : Ideal!Conflicts(T, u) = Conflicts(T, u)
    /\ \A i : Ideal!IdKey(i) = IdKey(i)
    /\ \A u : Ideal!Sanitize(u) = Sanitize(u)
    /\ Ideal!Keys = Keys /\ Ideal!User = User /\ Ideal!Reads = Reads
    /\ Ideal!NoKey = NoKey
<1>1. \A i : Ideal!IdKey(i) = IdKey(i)
  BY DEF Ideal!IdKey
<1>2. \A u : Ideal!KeySet(u) = KeySet(u)
  BY DEF Ideal!KeySet, KeySet, Ideal!KeysOf, KeysOf, Ideal!IdKey, Ideal!EmailKey, Ideal!NickKey
<1>3. \A T, k : Ideal!RowsUnder(T, k) = RowsUnder(T, k)
  BY <1>2 DEF Ideal!RowsUnder, RowsUnder
<1>4. \A T, u : Ideal!Conflicts(T, u) = Conflicts(T, u)
  BY DEF Ideal!Conflicts, Conflicts
<1>5. \A u : Ideal!Sanitize(u) = Sanitize(u)
  BY DEF Ideal!Sanitize, Sanitize
<1>6. Ideal!Keys = Keys /\ Ideal!User = User /\ Ideal!Reads = Reads /\ Ideal!NoKey = NoKey
  BY DEF Ideal!Keys, Keys, Ideal!User, User, Ideal!Reads, Reads, Ideal!NoKey, NoKey
<1> QED
  BY <1>1, <1>3, <1>4, <1>5, <1>6

\* A lookup finds the same rows with and without their hashes.
LEMMA RowsWithoutHashes ==
    ASSUME NEW T \in SUBSET User, NEW k
    PROVE  RowsUnder(WithoutHashes(T), k) = WithoutHashes(RowsUnder(T, k))
<1>1. \A u \in T : KeySet(Sanitize(u)) = KeySet(u)
  BY SanitizedRow
<1> QED
  BY <1>1 DEF RowsUnder, WithoutHashes

\* The constraints do not look at the hashes.
LEMMA ConflictsWithoutHashes ==
    ASSUME NEW T \in SUBSET User, NEW u \in User
    PROVE  Conflicts(WithoutHashes(T), Sanitize(u)) = Conflicts(T, u)
<1>1. \A v \in User : /\ Sanitize(v).id = v.id /\ Sanitize(v).email = v.email
                      /\ Sanitize(v).nickname = v.nickname
  BY DEF Sanitize, User
<1>2. \A e : (\E v \in WithoutHashes(T) : \/ e = "db_error"       /\ v.id = u.id
                                          \/ e = "email_taken"    /\ v.email = u.email
                                          \/ e = "nickname_taken" /\ v.nickname = u.nickname)
             <=> (\E v \in T : \/ e = "db_error"       /\ v.id = u.id
                               \/ e = "email_taken"    /\ v.email = u.email
                               \/ e = "nickname_taken" /\ v.nickname = u.nickname)
  BY <1>1 DEF WithoutHashes
<1> QED
  BY <1>1, <1>2 DEF Conflicts

\* A row that leaves the table leaves it without its hash.
LEMMA RemovalWithoutHashes ==
    ASSUME NEW T \in SUBSET User, IdentifiesRows(T), NEW u \in T
    PROVE  WithoutHashes(T \ {u}) = WithoutHashes(T) \ {Sanitize(u)}
<1>1. ASSUME NEW v \in T, Sanitize(v) = Sanitize(u) PROVE v = u
  <2>1. KeySet(v) = KeySet(u)
    BY <1>1, SanitizedRow
  <2>2. KeysOf(u)[1] \in KeySet(u)
    BY DEF KeySet
  <2> QED
    BY <2>1, <2>2 DEF IdentifiesRows
<1> QED
  BY <1>1 DEF WithoutHashes

\* What the activation of a call says to the abstract repository.
LEMMA CallAsOp ==
    ASSUME NEW r \in Requests
    PROVE  /\ call[r].pc = "idle" => AsOp(r) = Ideal!IdleOp
           /\ call[r].pc \in PendingPoints =>
                 AsOp(r) = [status |-> "pending", fn |-> call[r].fn, key |-> call[r].key,
                            user |-> Outline(call[r]), err |-> "ok"]
           /\ call[r].pc \in {"done", "set", "del", "reload"} =>
                 AsOp(r) = [status |-> "returned", fn |-> call[r].fn, key |-> call[r].key,
                            user |-> Outline(call[r]), err |-> call[r].err]
BY DEF AsOp, Outline, PendingPoints, Ideal!IdleOp, Ideal!NoKey, NoKey

\* The other calls stay as they are.
LEMMA OthersAsOp ==
    ASSUME TypeInv, NEW r \in Requests, NEW a, call' = [call EXCEPT ![r] = a]
    PROVE  AsOps' = [AsOps EXCEPT ![r] = AsOp(r)']
<1>1. \A q \in Requests : q # r => call'[q] = call[q]
  BY DEF TypeInv, TypeOK
<1>2. \A q \in Requests : q # r => AsOp(q)' = AsOp(q)
  BY <1>1 DEF AsOp
<1> QED
  BY <1>2 DEF AsOps

\* A call that returns to the service, or is about to, returns at both levels.
LEMMA ReturnAsOp ==
    ASSUME TypeInv, NEW r \in Requests, call[r].pc \in PendingPoints,
           NEW a, NEW p \in {"done", "set", "del", "reload"}, NEW e, Goes(r, a, p, e)
    PROVE  Ideal!Return(r, Outline(a), e)
<1> DEFINE b == [AsOp(r) EXCEPT !.status = "returned"]
           c == [b EXCEPT !.user = Outline(a)]
           d == [c EXCEPT !.err = e]
<1>1. call' = [call EXCEPT ![r] = a] /\ call'[r] = a
  BY DEF Goes, TypeInv, TypeOK
<1>2. AsOp(r) = [status |-> "pending", fn |-> call[r].fn, key |-> call[r].key,
                 user |-> Outline(call[r]), err |-> "ok"]
  BY CallAsOp
<1>3. AsOp(r)' = [status |-> "returned", fn |-> call[r].fn, key |-> call[r].key,
                  user |-> Outline(a), err |-> e]
  BY <1>1 DEF AsOp, Outline, Goes
<1>4. d = AsOp(r)'
  <2>1. b = [status |-> "returned", fn |-> call[r].fn, key |-> call[r].key,
             user |-> Outline(call[r]), err |-> "ok"]
    BY <1>2
  <2> HIDE DEF b
  <2>2. c = [status |-> "returned", fn |-> call[r].fn, key |-> call[r].key,
             user |-> Outline(a), err |-> "ok"]
    BY <2>1
  <2> HIDE DEF c
  <2>3. d = [status |-> "returned", fn |-> call[r].fn, key |-> call[r].key,
             user |-> Outline(a), err |-> e]
    BY <2>2
  <2> HIDE DEF d
  <2> QED
    BY <1>3, <2>3
<1>5. AsOps' = [AsOps EXCEPT ![r] = d]
  BY <1>1, <1>4, OthersAsOp
<1>6. AsOps[r] = AsOp(r)
  BY DEF AsOps
<1>7. [AsOps EXCEPT ![r].status = "returned", ![r].user = Outline(a), ![r].err = e]
         = [AsOps EXCEPT ![r] = d]
  <2> DEFINE f == [AsOps EXCEPT ![r] = b]
             g == [f EXCEPT ![r] = c]
  <2>1. f = [AsOps EXCEPT ![r].status = "returned"] /\ f[r] = b
    BY <1>6 DEF AsOps
  <2>2. g = [f EXCEPT ![r].user = Outline(a)] /\ g[r] = c
    BY <2>1 DEF AsOps
  <2>3. [g EXCEPT ![r] = d] = [g EXCEPT ![r].err = e]
    BY <2>2 DEF AsOps
  <2>4. [g EXCEPT ![r] = d] = [AsOps EXCEPT ![r] = d]
    BY DEF AsOps
  <2> QED
    BY <2>1, <2>2, <2>3, <2>4
<1> QED
  BY <1>5, <1>7 DEF Ideal!Return, AsOps

\* A call that only goes on shows nothing of it.
LEMMA StutterAsOp ==
    ASSUME TypeInv, NEW r \in Requests, NEW a, NEW p, Goes(r, a, p, "ok"), Keeps(r, a),
           \/ call[r].pc \in PendingPoints /\ p \in PendingPoints
           \/ /\ call[r].pc \in {"set", "del", "reload"} /\ call[r].err = "ok"
              /\ p \in {"done", "set", "del", "reload"}
    PROVE  AsOps' = AsOps
<1>1. call' = [call EXCEPT ![r] = a] /\ call'[r] = a
  BY DEF Goes, TypeInv, TypeOK
<1>2. Outline(a) = Outline(call[r])
  BY DEF Outline, Goes, Keeps
<1>3. AsOp(r)' = AsOp(r)
  <2>1. CASE call[r].pc \in PendingPoints /\ p \in PendingPoints
    <3>1. AsOp(r)' = [status |-> "pending", fn |-> a.fn, key |-> a.key,
                      user |-> Outline(a), err |-> "ok"]
      BY <1>1, <2>1 DEF AsOp, Outline, Goes, PendingPoints
    <3> QED
      BY <1>2, <2>1, <3>1, CallAsOp DEF Goes
  <2>2. CASE /\ call[r].pc \in {"set", "del", "reload"} /\ call[r].err = "ok"
             /\ p \in {"done", "set", "del", "reload"}
    <3>1. AsOp(r)' = [status |-> "returned", fn |-> a.fn, key |-> a.key,
                      user |-> Outline(a), err |-> a.err]
      BY <1>1, <2>2 DEF AsOp, Outline, Goes
    <3> QED
      BY <1>2, <2>2, <3>1, CallAsOp DEF Goes
  <2> QED
    BY <2>1, <2>2
<1> QED
  BY <1>1, <1>3, OthersAsOp DEF AsOps

\* What a pending call says, part by part.
LEMMA PendingOp ==
    ASSUME NEW r \in Requests, call[r].pc \in PendingPoints
    PROVE  /\ AsOps[r].status = "pending" /\ AsOps[r].fn = call[r].fn
           /\ AsOps[r].key = call[r].key /\ AsOps[r].user = Outline(call[r])
<1>1. AsOps[r] = AsOp(r)
  BY DEF AsOps
<1> QED
  BY <1>1, CallAsOp

\* A call that looks at the cache or at the table reads, or shows nothing of it.
LEMMA LooksRefines ==
    ASSUME RepositorySequential, NEW r \in Requests, NEW a, Looks(r, a)
    PROVE  Ideal!TakeEffect(r) \/ UNCHANGED <<WithoutHashes(users), AsOps>>
<1> DEFINE old == call[r]
<1>1. /\ TypeInv /\ WellFormed /\ DataInv /\ SequentialInv /\ old \in Activation
      /\ users \subseteq User
      /\ old.pc \in Running => old.err = "ok"
  BY DEF RepositorySequential, RepositoryInv, TypeInv, TypeOK, HistoryInv, Tells
<1>2. users' = users /\ WithoutHashes(users)' = WithoutHashes(users)
  BY DEF Looks, WithoutHashes
<1>3. ASSUME old.pc \in {"lookup", "select"}, NEW u \in RowsUnder(users, old.key),
             NEW p \in {"done", "set"}, Goes(r, a, p, "ok"), Outline(a) = Sanitize(u)
      PROVE  Ideal!TakeEffect(r)
  <2>1. old.fn \in Reads /\ old.pc \in PendingPoints
    BY <1>1, <1>3 DEF WellFormed, PendingPoints
  <2>2. Sanitize(u) \in RowsUnder(WithoutHashes(users), old.key)
    BY <1>1, <1>3, RowsWithoutHashes DEF WithoutHashes
  <2>3. Ideal!Return(r, Sanitize(u), "ok")
    BY <1>1, <1>3, <2>1, ReturnAsOp
  <2>4. Ideal!Read(r)
    BY <1>2, <2>1, <2>2, <2>3, PendingOp, SameTables
    DEF Ideal!Read, Ideal!Pending, WithoutHashes, AsOps
  <2> QED
    BY <2>4 DEF Ideal!TakeEffect
<1>4. CASE At(r, "lookup") /\ redis[old.key] # NoUser /\ Goes(r, a, "done", "ok")
           /\ a.user = redis[old.key]
  <2>1. old.pc = "lookup" /\ old.fn \in Reads /\ old.key \in Keys
    BY <1>1, <1>4 DEF At, WellFormed, Reads
  <2>2. ASSUME NEW q \in Requests PROVE ToDelete(call[q]) = {}
    <3>1. r \in InFlight
      BY <2>1 DEF InFlight, Running
    <3>2. call[q].pc # "del"
      BY <1>1, <2>1, <3>1 DEF SequentialInv, InFlight, Running
    <3> QED
      BY <3>2 DEF ToDelete
  <2>3. PICK u \in users : old.key \in KeySet(u) /\ redis[old.key] = Sanitize(u)
    BY <1>1, <1>4, <2>1, <2>2 DEF SequentialInv, Filed
  <2>4. u \in RowsUnder(users, old.key) /\ Sanitize(u) \in User /\ Sanitize(Sanitize(u)) = Sanitize(u)
    BY <1>1, <2>3, SanitizedRow DEF RowsUnder
  <2>5. Outline(a) = Sanitize(u)
    BY <1>4, <2>1, <2>3, <2>4, NoUserAssumption DEF Outline, Goes, Reads
  <2> QED
    BY <1>3, <1>4, <2>1, <2>4, <2>5
<1>5. CASE At(r, "lookup") /\ Goes(r, a, "select", "ok") /\ Keeps(r, a)
  BY <1>1, <1>2, <1>5, StutterAsOp DEF At, PendingPoints
<1>6. CASE /\ At(r, "select") /\ Goes(r, a, "set", "ok")
           /\ a.user \in RowsUnder(users, old.key)
  <2>1. old.pc = "select" /\ old.fn \in Reads /\ a.user \in User
    BY <1>1, <1>6 DEF At, WellFormed, RowsUnder
  <2>2. Outline(a) = Sanitize(a.user)
    BY <1>6, <2>1, NoUserAssumption DEF Outline, Goes, Reads
  <2> QED
    BY <1>3, <1>6, <2>1, <2>2
<1>7. CASE /\ At(r, "load") /\ Keeps(r, a)
           /\ Goes(r, a, IF old.fn = "Update" THEN "update" ELSE "delete", "ok")
  <2> DEFINE p == IF old.fn = "Update" THEN "update" ELSE "delete"
  <2>1. p \in PendingPoints /\ old.pc \in PendingPoints
    BY <1>7 DEF At, PendingPoints
  <2>2. Goes(r, a, p, "ok") /\ Keeps(r, a)
    BY <1>7
  <2> HIDE DEF p
  <2> QED
    BY <1>1, <1>2, <2>1, <2>2, StutterAsOp
<1>8. CASE At(r, "reload") /\ Goes(r, a, "set", "ok") /\ Keeps(r, a)
  <2>1. old.pc = "reload" /\ old.err = "ok"
    BY <1>1, <1>8 DEF At, Running
  <2> QED
    BY <1>1, <1>2, <1>8, <2>1, StutterAsOp
<1> QED
  BY <1>4, <1>5, <1>6, <1>7, <1>8 DEF Looks

\* A call that finds nothing, or is refused, does so at both levels.
LEMMA FailuresRefine ==
    ASSUME RepositorySequential, NEW r \in Requests, NEW a, FindsNone(r, a) \/ IsRefused(r, a)
    PROVE  Ideal!TakeEffect(r)
<1> DEFINE old == call[r]
           new == [old.user EXCEPT !.updated = r]
<1>1. /\ TypeInv /\ WellFormed /\ SequentialInv /\ DataInv
      /\ users \subseteq User /\ IdentifiesRows(users)
  BY DEF RepositorySequential, RepositoryInv, TypeInv, TypeOK, DataInv
<1>2. users' = users /\ WithoutHashes(users)' = WithoutHashes(users) /\ Keeps(r, a)
  BY DEF FindsNone, IsRefused, WithoutHashes
<1>3. ASSUME NEW e, Goes(r, a, "done", e), old.pc \in PendingPoints
      PROVE  Ideal!Return(r, AsOps[r].user, e)
  <2>1. Outline(a) = Outline(old)
    BY <1>2, <1>3 DEF Outline, Goes, Keeps
  <2>2. Ideal!Return(r, Outline(a), e)
    BY <1>1, <1>3, ReturnAsOp
  <2> QED
    BY <1>3, <2>1, <2>2, PendingOp
<1>4. CASE FindsNone(r, a)
  <2>1. old.pc \in {"select", "load", "update", "delete"}
    BY <1>1, <1>4 DEF FindsNone, SequentialInv, UpToDate
  <2>2. old.pc \in PendingPoints /\ old.fn \in Reads \cup {"Update", "Delete"}
    BY <1>1, <2>1 DEF PendingPoints, WellFormed, At
  <2>3. RowsUnder(WithoutHashes(users), old.key) = {}
    BY <1>1, <1>4, RowsWithoutHashes DEF FindsNone, WithoutHashes
  <2>4. Ideal!Return(r, AsOps[r].user, "not_found")
    BY <1>3, <1>4, <2>2 DEF FindsNone
  <2>5. Ideal!NotFound(r)
    BY <1>2, <2>2, <2>3, <2>4, PendingOp, SameTables
    DEF Ideal!NotFound, Ideal!Pending, WithoutHashes, AsOps
  <2> QED
    BY <2>5 DEF Ideal!TakeEffect
<1>5. ASSUME At(r, "insert"), NEW e \in Conflicts(users, old.user), Goes(r, a, "done", e)
      PROVE  Ideal!TakeEffect(r)
  <2>1. old.pc \in PendingPoints /\ old.fn = "Create" /\ old.user \in User
    BY <1>1, <1>5 DEF At, PendingPoints, WellFormed
  <2>2. AsOps[r].user = Sanitize(old.user)
    BY <2>1, PendingOp, NoUserAssumption DEF Outline
  <2>3. e \in Conflicts(WithoutHashes(users), AsOps[r].user)
    BY <1>1, <1>5, <2>1, <2>2, ConflictsWithoutHashes
  <2>4. Ideal!Return(r, AsOps[r].user, e)
    BY <1>3, <1>5, <2>1
  <2>5. Ideal!Refuse(r)
    BY <1>2, <2>1, <2>3, <2>4, PendingOp, SameTables
    DEF Ideal!Refuse, Ideal!Pending, WithoutHashes, AsOps
  <2> QED
    BY <2>5 DEF Ideal!TakeEffect
<1>6. ASSUME At(r, "update"), NEW u \in RowsUnder(users, old.key),
             NEW e \in Conflicts(users \ {u}, new), Goes(r, a, "done", e)
      PROVE  Ideal!TakeEffect(r)
  <2>1. old.pc \in PendingPoints /\ old.fn = "Update" /\ old.user \in User /\ u \in users
    BY <1>1, <1>6 DEF At, PendingPoints, WellFormed, RowsUnder
  <2>2. AsOps[r].user = Sanitize(old.user)
    BY <2>1, PendingOp, NoUserAssumption DEF Outline
  <2>3. Sanitize(u) \in RowsUnder(WithoutHashes(users), old.key)
    BY <1>1, <1>6, RowsWithoutHashes DEF WithoutHashes
  <2>4. e \in Conflicts(WithoutHashes(users) \ {Sanitize(u)}, AsOps[r].user)
    <3>1. Conflicts(users \ {u}, new) = Conflicts(users \ {u}, old.user)
      BY <2>1 DEF Conflicts, User
    <3>2. WithoutHashes(users \ {u}) = WithoutHashes(users) \ {Sanitize(u)}
      BY <1>1, <2>1, RemovalWithoutHashes
    <3>3. users \ {u} \in SUBSET User
      BY <1>1
    <3>4. Conflicts(WithoutHashes(users \ {u}), Sanitize(old.user)) = Conflicts(users \ {u}, old.user)
      BY <2>1, <3>3, ConflictsWithoutHashes
    <3> QED
      BY <1>6, <2>2, <3>1, <3>2, <3>4
  <2>5. Ideal!Return(r, AsOps[r].user, e)
    BY <1>3, <1>6, <2>1
  <2>6. Ideal!Refuse(r)
    BY <1>2, <2>1, <2>3, <2>4, <2>5, PendingOp, SameTables
    DEF Ideal!Refuse, Ideal!Pending, WithoutHashes, AsOps
  <2> QED
    BY <2>6 DEF Ideal!TakeEffect
<1> QED
  BY <1>4, <1>5, <1>6 DEF IsRefused

\* A statement that changes the table changes it at both levels.
LEMMA ChangesRefine ==
    ASSUME RepositorySequential, NEW r \in Requests, NEW a,
           Inserted(r, a) \/ Updated(r, a) \/ Erased(r, a)
    PROVE  Ideal!TakeEffect(r)
<1> DEFINE old == call[r]
           new == [old.user EXCEPT !.updated = r]
<1>1. /\ TypeInv /\ WellFormed /\ DataInv
      /\ users \subseteq User /\ IdentifiesRows(users)
  BY DEF RepositorySequential, RepositoryInv, TypeInv, TypeOK, DataInv
<1>2. CASE Inserted(r, a)
  <2>1. old.pc \in PendingPoints /\ old.fn = "Create" /\ old.user \in User
    BY <1>1, <1>2 DEF Inserted, At, PendingPoints, WellFormed
  <2>2. AsOps[r].user = Sanitize(old.user) /\ Outline(a) = Sanitize(old.user)
    BY <1>2, <2>1, PendingOp, NoUserAssumption DEF Inserted, Outline, Goes, Keeps
  <2>3. Conflicts(WithoutHashes(users), AsOps[r].user) = {}
    BY <1>1, <1>2, <2>1, <2>2, ConflictsWithoutHashes DEF Inserted
  <2>4. Ideal!Return(r, AsOps[r].user, "ok")
    BY <1>1, <1>2, <2>1, <2>2, ReturnAsOp DEF Inserted
  <2>5. WithoutHashes(users)' = WithoutHashes(users) \cup {AsOps[r].user}
    BY <1>2, <2>2 DEF Inserted, WithoutHashes
  <2>6. Ideal!Create(r)
    BY <2>1, <2>3, <2>4, <2>5, PendingOp, SameTables
    DEF Ideal!Create, Ideal!Pending, WithoutHashes, AsOps
  <2> QED
    BY <2>6 DEF Ideal!TakeEffect
<1>3. CASE Updated(r, a)
  <2>1. old.pc \in PendingPoints /\ old.fn = "Update" /\ old.user \in User
    BY <1>1, <1>3 DEF Updated, At, PendingPoints, WellFormed
  <2>2. AsOps[r].user = Sanitize(old.user) /\ Outline(a) = Sanitize(old.user)
    BY <1>3, <2>1, PendingOp, NoUserAssumption DEF Updated, Outline, Goes, Keeps
  <2>3. PICK u \in RowsUnder(users, old.key) :
           Conflicts(users \ {u}, new) = {} /\ users' = (users \ {u}) \cup {new}
    BY <1>3 DEF Updated
  <2>4. Sanitize(u) \in RowsUnder(WithoutHashes(users), old.key) /\ u \in users
    BY <1>1, <2>3, RowsWithoutHashes DEF WithoutHashes, RowsUnder
  <2>5. WithoutHashes(users \ {u}) = WithoutHashes(users) \ {Sanitize(u)}
    BY <1>1, <2>4, RemovalWithoutHashes
  <2>6. Conflicts(WithoutHashes(users) \ {Sanitize(u)}, AsOps[r].user) = {}
    <3>1. Conflicts(users \ {u}, new) = Conflicts(users \ {u}, old.user)
      BY <2>1 DEF Conflicts, User
    <3>2. users \ {u} \in SUBSET User
      BY <1>1
    <3>3. Conflicts(WithoutHashes(users \ {u}), Sanitize(old.user)) = Conflicts(users \ {u}, old.user)
      BY <2>1, <3>2, ConflictsWithoutHashes
    <3> QED
      BY <2>2, <2>3, <2>5, <3>1, <3>3
  <2>7. WithoutHashes(users)' = (WithoutHashes(users) \ {Sanitize(u)}) \cup
                                {[AsOps[r].user EXCEPT !.updated = r]}
    <3>1. Sanitize(new) = [AsOps[r].user EXCEPT !.updated = r]
      BY <2>1, <2>2 DEF Sanitize, User
    <3>2. WithoutHashes(users') = WithoutHashes(users \ {u}) \cup {Sanitize(new)}
      BY <2>3 DEF WithoutHashes
    <3>3. WithoutHashes(users)' = WithoutHashes(users')
      BY DEF WithoutHashes
    <3> QED
      BY <2>5, <3>1, <3>2, <3>3
  <2>8. Ideal!Return(r, AsOps[r].user, "ok")
    BY <1>1, <1>3, <2>1, <2>2, ReturnAsOp DEF Updated
  <2>9. Ideal!Update(r)
    BY <2>1, <2>4, <2>6, <2>7, <2>8, PendingOp, SameTables
    DEF Ideal!Update, Ideal!Pending, WithoutHashes, AsOps
  <2> QED
    BY <2>9 DEF Ideal!TakeEffect
<1>4. CASE Erased(r, a)
  <2>1. old.pc \in PendingPoints /\ old.fn = "Delete"
    BY <1>1, <1>4 DEF Erased, At, PendingPoints, WellFormed
  <2>2. Outline(a) = NoUser
    BY <1>4, <2>1 DEF Erased, Outline, Goes
  <2>3. PICK u \in RowsUnder(users, old.key) : users' = users \ {u}
    BY <1>4 DEF Erased
  <2>4. Sanitize(u) \in RowsUnder(WithoutHashes(users), old.key) /\ u \in users
    BY <1>1, <2>3, RowsWithoutHashes DEF WithoutHashes, RowsUnder
  <2>5. WithoutHashes(users)' = WithoutHashes(users) \ {Sanitize(u)}
    <3>1. WithoutHashes(users)' = WithoutHashes(users \ {u})
      BY <2>3 DEF WithoutHashes
    <3> QED
      BY <1>1, <2>4, <3>1, RemovalWithoutHashes
  <2>6. Ideal!Return(r, NoUser, "ok")
    BY <1>1, <1>4, <2>1, <2>2, ReturnAsOp DEF Erased
  <2>7. Ideal!Delete(r)
    BY <2>1, <2>4, <2>5, <2>6, PendingOp, SameTables
    DEF Ideal!Delete, Ideal!Pending, WithoutHashes, AsOps
  <2> QED
    BY <2>7 DEF Ideal!TakeEffect
<1> QED
  BY <1>2, <1>3, <1>4

\* Every step of a call takes effect on the abstract table, or shows nothing there.
LEMMA StepRefines ==
    ASSUME Sequential, RepositorySequential, NEW r \in Requests, Step(r)
    PROVE  Ideal!TakeEffect(r) \/ UNCHANGED <<WithoutHashes(users), AsOps>>
<1>1. TypeInv /\ Tells(call[r], r)
  BY DEF RepositorySequential, RepositoryInv, HistoryInv
<1>2. PICK a : Outcome(r, a)
  BY <1>1, Outcomes
<1>3. CASE Commanded(r, a)
  <2>1. call[r].pc \in {"set", "del"} /\ call[r].err = "ok"
    BY <1>1, <1>3 DEF Commanded, Tells, Running
  <2>2. PICK p \in {"done", "set", "del", "reload"} : Goes(r, a, p, "ok")
    BY <1>3 DEF Commanded
  <2>3. AsOps' = AsOps
    BY <1>1, <1>3, <2>1, <2>2, StutterAsOp DEF Commanded
  <2>4. WithoutHashes(users)' = WithoutHashes(users)
    BY <1>3 DEF Commanded, WithoutHashes
  <2> QED
    BY <2>3, <2>4
<1> QED
  BY <1>2, <1>3, LooksRefines, FailuresRefine, ChangesRefine DEF Outcome

\* A call that begins is invoked at both levels.
LEMMA InvokeRefines ==
    ASSUME TypeInv, NEW r \in Requests, Invoke(r)
    PROVE  Ideal!Invoke(r) \/ Ideal!InvokeWrite(r)
<1>1. /\ At(r, "idle") /\ WithoutHashes(users)' = WithoutHashes(users)
      /\ call \in [Requests -> Activation] /\ committed \subseteq User
  BY DEF Invoke, WithoutHashes, TypeInv, TypeOK
<1>2. AsOps[r].status = "idle"
  BY <1>1, CallAsOp DEF At, AsOps, Ideal!IdleOp
<1>3. ASSUME NEW fn \in Reads \cup Writes, NEW k, NEW u, Begin(r, fn, k, u)
      PROVE  AsOps' = [AsOps EXCEPT ![r] =
                 [status |-> "pending", fn |-> fn, key |-> k,
                  user |-> IF u = NoUser \/ fn = "Delete" THEN NoUser ELSE Sanitize(u),
                  err |-> "ok"]]
  <2> DEFINE a == Called(fn, k, u)
  <2>1. call' = [call EXCEPT ![r] = a] /\ call'[r] = a
    BY <1>1, <1>3 DEF Begin
  <2>2. a.pc \in {"lookup", "insert", "load"} /\ a.fn = fn /\ a.key = k /\ a.user = u
    BY DEF Called, Entry, Reads, Writes
  <2> HIDE DEF a
  <2>3. AsOp(r)' = [status |-> "pending", fn |-> fn, key |-> k,
                    user |-> IF u = NoUser \/ fn = "Delete" THEN NoUser ELSE Sanitize(u),
                    err |-> "ok"]
    BY <2>1, <2>2 DEF AsOp
  <2> QED
    BY <2>1, <2>3, OthersAsOp
<1>4. ASSUME NEW fn \in Reads \cup {"Delete"}, NEW k \in Keys, Begin(r, fn, k, NoUser),
             k[1] = Ideal!KeyKind[fn]
      PROVE  Ideal!Invoke(r)
  <2>1. AsOps' = [AsOps EXCEPT ![r] = [status |-> "pending", fn |-> fn, key |-> k,
                                       user |-> NoUser, err |-> "ok"]]
    BY <1>3, <1>4 DEF Writes
  <2> QED
    BY <1>1, <1>2, <1>4, <2>1, SameTables DEF Ideal!Invoke, WithoutHashes, AsOps
<1>5. ASSUME NEW fn \in {"Create", "Update"}, NEW u \in User, Begin(r, fn, IdKey(u.id), u)
      PROVE  Ideal!InvokeWrite(r)
  <2>1. u # NoUser /\ fn # "Delete" /\ Sanitize(u).id = u.id
    BY <1>5, NoUserAssumption DEF Sanitize, User
  <2>2. AsOps' = [AsOps EXCEPT ![r] = [status |-> "pending", fn |-> fn,
                                       key |-> IdKey(Sanitize(u).id),
                                       user |-> Sanitize(u), err |-> "ok"]]
    <3>1. fn \in Reads \cup Writes
      BY <1>5 DEF Writes
    <3>2. AsOps' = [AsOps EXCEPT ![r] =
             [status |-> "pending", fn |-> fn, key |-> IdKey(u.id),
              user |-> IF u = NoUser \/ fn = "Delete" THEN NoUser ELSE Sanitize(u),
              err |-> "ok"]]
      BY <1>3, <1>5, <3>1
    <3>3. (IF u = NoUser \/ fn = "Delete" THEN NoUser ELSE Sanitize(u)) = Sanitize(u)
      BY <2>1
    <3>4. IdKey(u.id) = IdKey(Sanitize(u).id)
      BY <2>1
    <3> QED
      BY <3>2, <3>3, <3>4
  <2> QED
    BY <1>1, <1>2, <2>2, SameTables DEF Ideal!InvokeWrite, WithoutHashes, AsOps
<1>6. /\ \A i \in Ids : IdKey(i) \in Keys /\ IdKey(i)[1] = "id"
      /\ \A e \in Emails : EmailKey(e) \in Keys /\ EmailKey(e)[1] = "email"
      /\ \A n \in Nicknames : NickKey(n) \in Keys /\ NickKey(n)[1] = "nick"
  BY DEF Keys
<1>7. CASE \E i \in Ids \ UnbornIds : Begin(r, "GetByID", IdKey(i), NoUser)
  BY <1>4, <1>6, <1>7 DEF Reads, Ideal!KeyKind
<1>8. CASE \E e \in Emails : Begin(r, "GetByEmail", EmailKey(e), NoUser)
  BY <1>4, <1>6, <1>8 DEF Reads, Ideal!KeyKind
<1>9. CASE \E n \in Nicknames : Begin(r, "GetByNickname", NickKey(n), NoUser)
  BY <1>4, <1>6, <1>9 DEF Reads, Ideal!KeyKind
<1>10. CASE \E i \in FreshIds, u \in User : /\ u.id = i /\ u.password = "hash" /\ u.updated = r
                                            /\ Begin(r, "Create", IdKey(i), u)
  BY <1>5, <1>10
<1>11. CASE \E old \in committed, u \in User : /\ u.id = old.id /\ u.updated = old.updated
                                               /\ Begin(r, "Update", IdKey(u.id), u)
  BY <1>5, <1>11
<1>12. CASE \E i \in Ids \ UnbornIds : Begin(r, "Delete", IdKey(i), NoUser)
  BY <1>4, <1>6, <1>12 DEF Ideal!KeyKind
<1> QED
  BY <1>7, <1>8, <1>9, <1>10, <1>11, <1>12 DEF Invoke

\* Served one request at a time, without faults, the cached repository behaves
\* as the abstract one: every run of the first is, seen through the refinement
\* mapping, a run of the second.
THEOREM CachedRepositoryIsARepository ==
    ASSUME Sequential PROVE Spec => ImplementsRepository
<1>1. Init => Ideal!Init
  <2> SUFFICES ASSUME Init PROVE Ideal!Init
    OBVIOUS
  <2>1. \A r \in Requests : AsOp(r) = Ideal!IdleOp
    BY CallAsOp DEF Init, NoCall
  <2> QED
    BY <2>1, SameTables DEF Init, Ideal!Init
<1>2. RepositorySequential /\ [Next]_vars => [Ideal!Next]_Ideal!vars
  <2> SUFFICES ASSUME RepositorySequential, [Next]_vars
               PROVE  Ideal!Next \/ UNCHANGED <<WithoutHashes(users), AsOps>>
    BY DEF Ideal!vars, WithoutHashes, AsOps
  <2>1. ASSUME NEW r \in Requests, Invoke(r) PROVE Ideal!Next
    BY <2>1, InvokeRefines DEF Ideal!Next, RepositorySequential, RepositoryInv
  <2>2. ASSUME NEW r \in Requests, Step(r)
        PROVE  Ideal!Next \/ UNCHANGED <<WithoutHashes(users), AsOps>>
    BY <2>2, StepRefines DEF Ideal!Next
  <2>3. ASSUME UNCHANGED <<users, call>> PROVE UNCHANGED <<WithoutHashes(users), AsOps>>
    BY <2>3 DEF WithoutHashes, AsOps, AsOp
  <2>4. ASSUME NEW k \in Keys, Expire(k) PROVE UNCHANGED <<users, call>>
    BY <2>4 DEF Expire
  <2>5. ASSUME Crash PROVE FALSE
    BY <2>5 DEF Crash, Sequential
  <2>6. ASSUME UNCHANGED vars PROVE UNCHANGED <<users, call>>
    BY <2>6 DEF vars
  <2> QED
    BY <2>1, <2>2, <2>3, <2>4, <2>5, <2>6 DEF Next
<1> QED
  BY <1>1, <1>2, RepositorySequence, PTL DEF Spec, ImplementsRepository, Ideal!Spec

-----------------------------------------------------------------------------
(* One request at a time: the inductive invariant of the service *)

\* User u is what the table holds under key k.
Shows(u, k, table) == \E v \in RowsUnder(table, k) : Sanitize(u) = Sanitize(v)

\* A lookup that has found a user has found the row of the moment.
Current(a, table) ==
    a.fn \in Reads /\ (a.pc = "set" \/ (a.pc = "done" /\ a.err = "ok")) =>
        Shows(a.user, a.key, table)

\* Row u differs from row v in no field that the patch leaves empty.
Respects(patch, u, v) ==
    /\ patch.email = NotGiven => u.email = v.email
    /\ patch.nickname = NotGiven => u.nickname = v.nickname
    /\ patch.profile = NotGiven => u.profile = v.profile

\* The row an update has put together, and has yet to write, still fits.
Patching(s, a) == s.pc = "update_email_check" \/ (s.pc = "update" /\ a.pc \in {"load", "update"})

Fits(s, a, table) ==
    Patching(s, a) => \A v \in table : v.id = s.id => Respects(s.patch, s.user, v)

\* The call has made its change and will return successfully, or has done so.
Achieving(a) == a.pc \in {"set", "del", "reload"} \/ (a.pc = "done" /\ a.err = "ok")

\* The request has changed a row, or has removed one, and has yet to announce it.
Announcing(s, a) ==
    \/ s.pc \in {"create", "update"} /\ Achieving(a)
    \/ s.pc = "publish" /\ s.op \in {"create", "update"}

Burying(s, a) ==
    \/ s.pc = "delete" /\ Achieving(a)
    \/ s.pc = "publish" /\ s.op = "delete"

ToldOf(published, r)   == \E e \in published : e.by = r /\ e.type # "deleted"
ToldGone(published, i) == \E e \in published : e.user.id = i /\ e.type = "deleted"

\* Every change is announced, or about to be.
Telling ==
    /\ \A u \in committed : u.updated \in Requests =>
          ToldOf(events, u.updated) \/ Announcing(svc[u.updated], call[u.updated])
    /\ \A u \in committed :
          \/ HasId(users, u.id)
          \/ ToldGone(events, u.id)
          \/ \E r \in Requests : svc[r].id = u.id /\ Burying(svc[r], call[r])

AloneInv ==
    /\ \A r, q \in InService : r = q
    /\ SequentialInv
    /\ \A r \in Requests : Current(call[r], users) /\ Fits(svc[r], call[r], users)
    /\ ~ PublishFaults => Telling

-----------------------------------------------------------------------------
(* A step of its repository call *)

\* What was in the table stays in the history.
LEMMA StepRemembers ==
    ASSUME DataInv, NEW r \in Requests, Step(r)
    PROVE  committed' = committed \cup users'
<1>1. users \subseteq committed
  BY DEF DataInv
<1>2. CASE UNCHANGED <<users, committed>>
  BY <1>1, <1>2
<1>3. ASSUME NEW T, NEW P, Commit(r, T, P) PROVE committed' = committed \cup users'
  BY <1>3 DEF Commit
<1>4. InsertRow(r) \/ UpdateRow(r) \/ DeleteRow(r) => committed' = committed \cup users'
  BY <1>2 DEF InsertRow, UpdateRow, DeleteRow, Commit, Reject
<1> QED
  BY <1>2, <1>4 DEF Step, CacheHit, CacheMiss, SelectRow, LoadRow, ReloadRow, QueryFails, AwaitsPostgres, Reject,
                    PipelineCommand, PipelineFails

\* A step of the only call under way keeps what a lookup has found up to date.
LEMMA OutcomeIsCurrent ==
    ASSUME TypeInv, DataInv, NEW r \in Requests, NEW a, Outcome(r, a), Current(call[r], users),
           \A k \in Keys : InOrder(k, redis[k], users, call[r])
    PROVE  Current(a, users')
<1> DEFINE old == call[r]
<1>1. old \in Activation /\ users \subseteq User /\ WellFormed
  BY DEF TypeInv, TypeOK
<1>2. CASE Looks(r, a)
  <2>1. users' = users /\ a.fn = old.fn /\ a.key = old.key
    BY <1>2 DEF Looks, Goes
  <2>2. CASE At(r, "lookup") /\ redis[old.key] # NoUser /\ a.user = redis[old.key]
    <3>1. old.fn \in Reads /\ old.key \in Keys /\ old.pc = "lookup"
      BY <1>1, <2>2 DEF WellFormed, At, Reads
    <3>2. ToDelete(old) = {}
      BY <3>1 DEF ToDelete
    <3>3. PICK u \in users : old.key \in KeySet(u) /\ a.user = Sanitize(u)
      BY <2>2, <3>1, <3>2 DEF InOrder, Filed
    <3>4. Sanitize(a.user) = Sanitize(u) /\ u \in RowsUnder(users, old.key)
      BY <1>1, <3>3, SanitizedRow DEF RowsUnder
    <3> QED
      BY <2>1, <3>4 DEF Current, Shows
  <2>3. CASE At(r, "select") /\ a.user \in RowsUnder(users, old.key)
    BY <2>1, <2>3 DEF Current, Shows
  <2>4. CASE a.pc \in {"select", "update", "delete"}
    BY <2>4 DEF Current
  <2>5. CASE At(r, "reload")
    <3>1. old.fn = "Update"
      BY <1>1, <2>5 DEF WellFormed, At
    <3> QED
      BY <2>1, <3>1 DEF Current, Reads
  <2> QED
    BY <1>2, <2>2, <2>3, <2>4, <2>5 DEF Looks, Goes
<1>3. CASE FindsNone(r, a)
  BY <1>3 DEF FindsNone, Goes, Current
<1>4. CASE IsRefused(r, a)
  <2>1. a.pc = "done" /\ a.err # "ok"
    BY <1>4 DEF IsRefused, Goes, Conflicts
  <2> QED
    BY <2>1 DEF Current
<1>5. CASE Inserted(r, a) \/ Updated(r, a) \/ Erased(r, a)
  <2>1. a.fn = old.fn /\ old.pc \in {"insert", "update", "delete"}
    BY <1>5 DEF Inserted, Updated, Erased, Goes, At
  <2>2. old.fn \notin Reads
    BY <1>1, <2>1 DEF WellFormed, At, Reads
  <2> QED
    BY <2>1, <2>2 DEF Current
<1>6. CASE Commanded(r, a)
  <2>1. users' = users /\ a.fn = old.fn /\ a.key = old.key /\ a.user = old.user
        /\ old.pc \in {"set", "del"}
    BY <1>6 DEF Commanded, Goes, Keeps
  <2>2. old.pc = "del" => old.fn \notin Reads
    BY <1>1 DEF WellFormed, At, Reads
  <2> QED
    BY <2>1, <2>2 DEF Current
<1> QED
  BY <1>2, <1>3, <1>4, <1>5, <1>6 DEF Outcome

\* A step before the UPDATE does not touch the table, so that the patched row fits.
LEMMA OutcomeFits ==
    ASSUME ServiceInv, NEW r \in Requests, NEW a, Outcome(r, a), Fits(svc[r], call[r], users)
    PROVE  Fits(svc[r], a, users')
<1> DEFINE s == svc[r]
<1> SUFFICES ASSUME Patching(s, a) PROVE Patching(s, call[r]) /\ users' = users
  BY DEF Fits
<1>1. s \in ServiceActivation /\ Serves(s, call[r], r) /\ WellFormed
  BY Together DEF ServiceInv, RepositoryInv, TypeInv
<1>2. CASE s.pc = "update_email_check"
  <2>1. call[r].fn = "GetByEmail"
    BY <1>1, <1>2 DEF Serves, Calls, Awaits
  <2>2. call[r].pc \notin {"insert", "update", "delete"}
    BY <1>1, <2>1 DEF WellFormed, At
  <2> QED
    BY <1>2, <2>2 DEF Outcome, Looks, FindsNone, IsRefused, Inserted, Updated, Erased, Commanded,
                      At, Patching
<1>3. CASE s.pc = "update" /\ a.pc \in {"load", "update"}
  <2>1. call[r].pc = "load" /\ users' = users
    BY <1>3 DEF Outcome, Looks, FindsNone, IsRefused, Inserted, Updated, Erased, Commanded,
                At, Goes
  <2> QED
    BY <1>3, <2>1 DEF Patching
<1> QED
  BY <1>2, <1>3 DEF Patching

\* A call that has made its change goes on to success.
LEMMA OutcomeAchieves ==
    ASSUME NEW r \in Requests, NEW a, Outcome(r, a), UpToDate(call[r], users), Achieving(call[r])
    PROVE  Achieving(a)
<1>1. call[r].pc \in {"set", "del", "reload"}
  BY DEF Achieving, Outcome, Looks, FindsNone, IsRefused, Inserted, Updated, Erased, Commanded, At
<1>2. ~ FindsNone(r, a)
  BY <1>1 DEF FindsNone, UpToDate
<1>3. a.pc \in {"set", "del", "reload"} \/ (a.pc = "done" /\ a.err = "ok")
  BY <1>1, <1>2 DEF Outcome, Looks, IsRefused, Inserted, Updated, Erased, Commanded, Goes, At
<1> QED
  BY <1>3 DEF Achieving

\* A row that a step stores is about to be announced by the request it names.
LEMMA NewRowsAnnounced ==
    ASSUME ServiceInv, NEW r \in Requests, NEW a, Outcome(r, a), NEW u \in users', u \notin users
    PROVE  u.updated = r /\ Announcing(svc[r], a)
<1> DEFINE old == call[r]
<1>1. /\ svc[r] \in ServiceActivation /\ Serves(svc[r], old, r) /\ Tells(old, r)
      /\ WellFormed /\ users \subseteq User
  BY Together DEF ServiceInv, RepositoryInv, TypeInv
<1>2. CASE Inserted(r, a)
  <2>1. u = old.user /\ old.pc = "insert" /\ a.pc = "set"
    BY <1>2 DEF Inserted, Goes, At
  <2>2. old.fn = "Create"
    BY <1>1, <2>1 DEF WellFormed, At
  <2>3. svc[r].pc = "create"
    BY <1>1, <2>2, CallTellsPoint DEF Serves
  <2> QED
    BY <1>1, <2>1, <2>3 DEF Tells, Announcing, Achieving
<1>3. CASE Updated(r, a)
  <2>1. u = [old.user EXCEPT !.updated = r] /\ old.pc = "update" /\ a.pc = "del"
    BY <1>3 DEF Updated, Goes, At
  <2>2. old.fn = "Update" /\ old.user \in User
    BY <1>1, <2>1 DEF WellFormed, At
  <2>3. svc[r].pc = "update"
    BY <1>1, <2>2, CallTellsPoint DEF Serves
  <2>4. u.updated = r
    BY <2>1, <2>2 DEF User
  <2> QED
    BY <2>1, <2>3, <2>4 DEF Announcing, Achieving
<1>4. users' \subseteq users => FALSE
  OBVIOUS
<1> QED
  BY <1>2, <1>3, <1>4 DEF Outcome, Looks, FindsNone, IsRefused, Erased, Commanded

\* A user whom a step removes is about to be announced as deleted.
LEMMA RemovedUsersBuried ==
    ASSUME ServiceInv, NEW r \in Requests, NEW a, Outcome(r, a), NEW i,
           HasId(users, i), ~ HasId(users', i)
    PROVE  svc[r].id = i /\ Burying(svc[r], a)
<1> DEFINE old == call[r]
<1>1. /\ svc[r] \in ServiceActivation /\ Serves(svc[r], old, r)
      /\ WellFormed /\ users \subseteq User
  BY Together DEF ServiceInv, RepositoryInv, TypeInv
<1>2. PICK v \in users : v.id = i
  BY DEF HasId
<1>3. v \notin users'
  BY <1>2 DEF HasId
<1>4. CASE Erased(r, a)
  <2>1. v \in RowsUnder(users, old.key) /\ old.pc = "delete" /\ a.pc = "del"
    BY <1>2, <1>3, <1>4 DEF Erased, Goes, At
  <2>2. old.fn = "Delete"
    BY <1>1, <2>1 DEF WellFormed, At
  <2>3. svc[r].pc = "delete" /\ old.key = IdKey(svc[r].id)
    BY <1>1, <2>2, CallTellsPoint DEF Serves, Writes
  <2>4. v.id = svc[r].id
    BY <1>1, <2>1, <2>3, RowsById
  <2> QED
    BY <1>2, <2>1, <2>3, <2>4 DEF Burying, Achieving
<1>5. CASE Updated(r, a)
  <2> DEFINE new == [old.user EXCEPT !.updated = r]
  <2>1. PICK u \in RowsUnder(users, old.key) : users' = (users \ {u}) \cup {new}
    BY <1>5 DEF Updated
  <2>2. v = u
    BY <1>2, <1>3, <2>1
  <2>3. old.user \in User /\ old.key = IdKey(old.user.id)
    BY <1>1, <1>5 DEF WellFormed, Updated, At
  <2>4. u.id = old.user.id
    BY <1>1, <2>3, RowsById
  <2>5. new.id = old.user.id
    BY <2>3 DEF User
  <2>6. new \in users'
    BY <2>1
  <2> HIDE DEF new
  <2> QED
    BY <1>2, <2>2, <2>4, <2>5, <2>6 DEF HasId
<1>6. users \subseteq users' => FALSE
  BY <1>2, <1>3
<1> QED
  BY <1>4, <1>5, <1>6 DEF Outcome, Looks, FindsNone, IsRefused, Inserted, Commanded

\* Every step of a repository call keeps the invariant.
LEMMA RepositoryStepAlone ==
    ASSUME Sequential, ServiceInv, AloneInv, NEW r \in Requests, RepositoryStep(r)
    PROVE  AloneInv'
<1>1. /\ TypeInv /\ DataInv /\ HistoryInv /\ SequentialInv
      /\ Step(r) /\ UNCHANGED <<svc, events>>
  BY DEF ServiceInv, RepositoryInv, AloneInv, RepositoryStep
<1>2. Tells(call[r], r) /\ call \in [Requests -> Activation]
  BY <1>1 DEF HistoryInv, TypeInv, TypeOK
<1>3. call[r].pc \in Running
  BY <1>1, <1>2, Outcomes
<1>4. PICK a : Outcome(r, a)
  BY <1>1, <1>2, Outcomes
<1>5. call' = [call EXCEPT ![r] = a]
  BY <1>4 DEF Outcome, Looks, FindsNone, IsRefused, Inserted, Updated, Erased, Commanded, Goes
<1>6. call'[r] = a /\ \A q \in Requests : q # r => call'[q] = call[q]
  BY <1>2, <1>5
<1>7. SequentialInv'
  BY <1>1, SequentialStep
<1>8. InService' = InService
  BY <1>1 DEF InService
\* The others are not being served.
<1>9. svc[r].pc \in Waits /\ \A q \in Requests : q # r => svc[q].pc \notin Waits
  <2>1. svc[r] \in ServiceActivation /\ Serves(svc[r], call[r], r)
    BY Together
  <2>2. svc[r].pc \in Waits
    BY <1>3, <2>1 DEF ServiceActivation, ServicePoints, Serves, Calls, NoCall, Running
  <2> QED
    BY <2>2 DEF AloneInv, InService
<1>10. \A q \in Requests : q # r => call[q] = NoCall
  BY <1>9, Together DEF ServiceActivation, ServicePoints, Serves, Calls
<1>11. \A k \in Keys : InOrder(k, redis[k], users, call[r])
  <2>1. \A q \in Requests : q # r => ToDelete(call[q]) = {}
    BY <1>10 DEF NoCall, ToDelete
  <2> QED
    BY <1>1, <2>1 DEF SequentialInv, InOrder
<1>12. ASSUME NEW q \in Requests PROVE Current(call'[q], users') /\ Fits(svc[q], call'[q], users')
  <2>1. CASE q = r
    <3>1. Current(a, users')
      BY <1>1, <1>4, <1>11, OutcomeIsCurrent DEF AloneInv
    <3>2. Fits(svc[r], a, users')
      BY <1>4, OutcomeFits DEF AloneInv
    <3> QED
      BY <1>6, <2>1, <3>1, <3>2
  <2>2. CASE q # r
    <3>1. call'[q] = NoCall /\ svc[q].pc \notin Waits
      BY <1>6, <1>9, <1>10, <2>2
    <3> QED
      BY <3>1 DEF NoCall, Current, Reads, Fits, Patching, Waits
  <2> QED
    BY <2>1, <2>2
<1>13. committed' = committed \cup users' /\ users \subseteq committed
  BY <1>1, StepRemembers DEF DataInv
<1>14. UpToDate(call[r], users)
  BY <1>1 DEF SequentialInv
<1>15. Achieving(call[r]) => Achieving(a)
  BY <1>4, <1>14, OutcomeAchieves
<1>16. ASSUME Telling, NEW u \in committed', u.updated \in Requests
       PROVE  ToldOf(events, u.updated) \/ Announcing(svc[u.updated], call'[u.updated])
  <2>1. CASE u \in committed
    BY <1>6, <1>15, <1>16, <2>1 DEF Telling, Announcing
  <2>2. CASE u \notin committed
    <3>1. u \in users' /\ u \notin users
      BY <1>13, <2>2
    <3> QED
      BY <1>4, <1>6, <3>1, NewRowsAnnounced
  <2> QED
    BY <2>1, <2>2
<1>17. ASSUME Telling, NEW u \in committed'
       PROVE  \/ HasId(users', u.id)
              \/ ToldGone(events, u.id)
              \/ \E q \in Requests : svc[q].id = u.id /\ Burying(svc[q], call'[q])
  <2>1. CASE u \in users'
    BY <2>1 DEF HasId
  <2>2. CASE u \in committed /\ ~ HasId(users, u.id)
    <3>1. ASSUME NEW q \in Requests, Burying(svc[q], call[q]) PROVE Burying(svc[q], call'[q])
      BY <1>6, <1>15, <3>1 DEF Burying
    <3> QED
      BY <1>17, <2>2, <3>1 DEF Telling
  <2>3. CASE HasId(users, u.id) /\ ~ HasId(users', u.id)
    BY <1>4, <1>6, <2>3, RemovedUsersBuried
  <2> QED
    BY <1>13, <2>1, <2>2, <2>3
<1>18. ~ PublishFaults => Telling'
  BY <1>1, <1>16, <1>17 DEF AloneInv, Telling, ToldOf, ToldGone
<1> QED
  BY <1>1, <1>7, <1>8, <1>12, <1>18 DEF AloneInv

-----------------------------------------------------------------------------
(* A step of the service *)

\* The service moves the only request it serves to s, with a as its call: if the
\* row it has put together fits, and if what it owes to the events is not forgotten.
LEMMA AloneMoves ==
    ASSUME Sequential, ServiceInv, AloneInv, UNCHANGED <<users, redis, committed>>,
           NEW r \in Requests, NEW s, NEW a,
           svc' = [svc EXCEPT ![r] = s], call' = [call EXCEPT ![r] = a],
           events \subseteq events',
           \/ InService = {}
           \/ svc[r].pc \in Waits /\ call[r].pc \notin Running
           \/ s.pc \notin Waits /\ a = call[r],
           a.pc \in {"idle", "lookup", "insert", "load"},
           Fits(s, a, users),
           ~ PublishFaults =>
              /\ Announcing(svc[r], call[r]) => Announcing(s, a) \/ ToldOf(events', r)
              /\ Burying(svc[r], call[r]) =>
                    (s.id = svc[r].id /\ Burying(s, a)) \/ ToldGone(events', svc[r].id)
    PROVE  AloneInv'
<1>1. /\ TypeInv /\ SequentialInv /\ call \in [Requests -> Activation]
      /\ svc \in [Requests -> ServiceActivation]
  BY DEF ServiceInv, RepositoryInv, TypeInv, TypeOK, AloneInv, ServiceTypes
<1>2. /\ svc'[r] = s /\ call'[r] = a
      /\ \A q \in Requests : q # r => svc'[q] = svc[q] /\ call'[q] = call[q]
  BY <1>1
<1>3. InFlight \subseteq InService
  BY Together DEF InFlight, InService, ServiceActivation, ServicePoints, Serves, Calls, NoCall,
                  Running
<1>4. \A p, q \in InService' : p = q
  BY <1>2 DEF AloneInv, InService
<1>5. SequentialInv'
  <2>1. CASE InFlight = {}
    BY <1>1, <2>1, SwapSequential DEF Running
  <2>2. CASE InService = {}
    BY <1>3, <2>1, <2>2
  <2>3. CASE svc[r].pc \in Waits /\ call[r].pc \notin Running
    <3>1. \A q \in InService : q = r
      BY <2>3 DEF AloneInv, InService
    <3>2. InFlight = {}
      BY <1>3, <2>3, <3>1 DEF InFlight
    <3> QED
      BY <2>1, <3>2
  <2>4. CASE a = call[r]
    <3>1. call' = call
      BY <1>1, <2>4
    <3>2. InFlight' = InFlight
      BY <3>1 DEF InFlight
    <3> QED
      BY <1>1, <3>1, <3>2 DEF SequentialInv
  <2> QED
    BY <2>2, <2>3, <2>4
<1>6. ASSUME NEW q \in Requests PROVE Current(call'[q], users') /\ Fits(svc'[q], call'[q], users')
  <2>1. Current(a, users)
    BY DEF Current
  <2> QED
    BY <1>2, <2>1 DEF AloneInv
<1>7. ASSUME ~ PublishFaults PROVE Telling'
  <2>1. Telling
    BY <1>7 DEF AloneInv
  <2>2. \A q : ToldOf(events, q) => ToldOf(events', q)
    BY DEF ToldOf
  <2>3. \A i : ToldGone(events, i) => ToldGone(events', i)
    BY DEF ToldGone
  <2>4. ASSUME NEW u \in committed, u.updated \in Requests
        PROVE  ToldOf(events', u.updated) \/ Announcing(svc'[u.updated], call'[u.updated])
    <3>1. CASE u.updated = r
      BY <1>2, <1>7, <2>1, <2>2, <2>4, <3>1 DEF Telling
    <3>2. CASE u.updated # r
      BY <1>2, <2>1, <2>2, <2>4, <3>2 DEF Telling
    <3> QED
      BY <3>1, <3>2
  <2>5. ASSUME NEW u \in committed
        PROVE  \/ HasId(users, u.id)
               \/ ToldGone(events', u.id)
               \/ \E q \in Requests : svc'[q].id = u.id /\ Burying(svc'[q], call'[q])
    <3>1. CASE HasId(users, u.id) \/ ToldGone(events, u.id)
      BY <2>3, <3>1
    <3>2. ASSUME NEW q \in Requests, svc[q].id = u.id, Burying(svc[q], call[q])
          PROVE  \/ ToldGone(events', u.id)
                 \/ svc'[q].id = u.id /\ Burying(svc'[q], call'[q])
      BY <1>2, <1>7, <3>2
    <3> QED
      BY <2>1, <3>1, <3>2 DEF Telling
  <2> QED
    BY <2>4, <2>5 DEF Telling
<1> QED
  BY <1>4, <1>5, <1>6, <1>7 DEF AloneInv

\* A method that has changed nothing replies.
LEMMA ReplyAlone ==
    ASSUME Sequential, ServiceInv, AloneInv, NEW r \in Requests, NEW u, NEW e, Reply(r, u, e),
           svc[r].pc \in Waits, At(r, "done"),
           svc[r].pc \notin {"create", "update", "delete", "publish"} \/ ~ Succeeded(r)
    PROVE  AloneInv'
<1> DEFINE s == [svc[r] EXCEPT !.pc = "replied", !.patch = EmptyPatch, !.user = u, !.reply = e]
<1>1. svc[r] \in ServiceActivation /\ Serves(svc[r], call[r], r)
  BY Together
<1>2. s.pc = "replied"
  BY <1>1 DEF ServiceActivation
<1>3. svc' = [svc EXCEPT ![r] = s]
  BY <1>1 DEF Reply, ServiceActivation
<1> HIDE DEF s
<1>4. ~ Announcing(svc[r], call[r]) /\ ~ Burying(svc[r], call[r])
  <2>1. svc[r].pc # "publish"
    BY <1>1 DEF Serves, Calls, NoCall, At
  <2> QED
    BY <2>1 DEF Announcing, Burying, Achieving, At, Succeeded
<1>5. call[r].pc \notin Running /\ NoCall.pc = "idle"
  BY DEF At, Running, NoCall
<1>6. Fits(s, NoCall, users)
  BY <1>2 DEF Fits, Patching
<1>7. call' = [call EXCEPT ![r] = NoCall] /\ UNCHANGED <<users, redis, committed, events>>
  BY DEF Reply
<1> QED
  BY <1>3, <1>4, <1>5, <1>6, <1>7, AloneMoves

\* A method whose call fails.
LEMMA FailAlone ==
    ASSUME Sequential, ServiceInv, AloneInv, NEW r \in Requests, Fail(r), At(r, "done"),
           svc[r].pc \in Waits
    PROVE  AloneInv'
BY ReplyAlone DEF Fail

\* A method that has changed nothing makes another call.
LEMMA CallNextAlone ==
    ASSUME Sequential, ServiceInv, AloneInv, NEW r \in Requests, NEW wait, NEW u,
           NEW fn \in Reads \cup Writes, NEW k, NEW arg, CallNext(r, wait, u, fn, k, arg),
           svc[r].pc \in Waits, At(r, "done"),
           svc[r].pc \notin {"create", "update", "delete", "publish"},
           wait \in {"update_email_check", "update"} =>
              \A v \in users : v.id = svc[r].id => Respects(svc[r].patch, u, v)
    PROVE  AloneInv'
<1> DEFINE s == [svc[r] EXCEPT !.pc = wait, !.user = u]
           a == Called(fn, k, arg)
<1>1. svc[r] \in ServiceActivation
  BY Together
<1>2. s.pc = wait /\ s.user = u /\ s.id = svc[r].id /\ s.patch = svc[r].patch
  BY <1>1 DEF ServiceActivation
<1>3. svc' = [svc EXCEPT ![r] = s] /\ call' = [call EXCEPT ![r] = a]
  BY <1>1 DEF CallNext, Begin, ServiceActivation
<1>4. a.pc \in {"lookup", "insert", "load"}
  BY DEF Called, Entry, Reads, Writes
<1> HIDE DEF s, a
<1>5. ~ Announcing(svc[r], call[r]) /\ ~ Burying(svc[r], call[r])
  BY DEF Announcing, Burying
<1>6. Fits(s, a, users)
  BY <1>2 DEF Fits, Patching
<1>7. call[r].pc \notin Running
  BY DEF At, Running
<1>8. UNCHANGED <<users, redis, committed, events>>
  BY DEF CallNext
<1> QED
  BY <1>3, <1>4, <1>5, <1>6, <1>7, <1>8, AloneMoves

\* A method whose write succeeded owes its event.
LEMMA ThenPublishAlone ==
    ASSUME Sequential, ServiceInv, AloneInv, NEW r \in Requests, NEW u, ThenPublish(r, u),
           svc[r].pc \in {"create", "update", "delete"}, At(r, "done")
    PROVE  AloneInv'
<1> DEFINE s == [svc[r] EXCEPT !.pc = "publish", !.patch = EmptyPatch, !.user = u]
<1>1. /\ svc[r] \in ServiceActivation /\ Serves(svc[r], call[r], r)
      /\ svc[r].pc \in Waits
  BY Together DEF Waits
<1>2. s.pc = "publish" /\ s.op = svc[r].op /\ s.id = svc[r].id
  BY <1>1 DEF ServiceActivation
<1>3. svc' = [svc EXCEPT ![r] = s]
  BY <1>1 DEF ThenPublish, ServiceActivation
<1> HIDE DEF s
<1>4. svc[r].op = svc[r].pc
  BY <1>1 DEF Serves, Calls, Awaits
<1>5. /\ Announcing(svc[r], call[r]) => Announcing(s, NoCall)
      /\ Burying(svc[r], call[r]) => s.id = svc[r].id /\ Burying(s, NoCall)
  BY <1>2, <1>4 DEF Announcing, Burying
<1>6. call[r].pc \notin Running /\ NoCall.pc = "idle"
  BY DEF At, Running, NoCall
<1>7. Fits(s, NoCall, users)
  BY <1>2 DEF Fits, Patching
<1>8. call' = [call EXCEPT ![r] = NoCall] /\ UNCHANGED <<users, redis, committed, events>>
  BY DEF ThenPublish
<1> QED
  BY <1>1, <1>3, <1>5, <1>6, <1>7, <1>8, AloneMoves

\* A request arrives when no other is being served, or fails at once.
LEMMA RequestAlone ==
    ASSUME Sequential, ServiceInv, AloneInv, NEW r \in Requests, Request(r)
    PROVE  AloneInv'
<1>1. /\ svc[r] \in ServiceActivation /\ Serves(svc[r], call[r], r)
      /\ call \in [Requests -> Activation]
  BY Together DEF ServiceInv, RepositoryInv, TypeInv, TypeOK
<1>2. ASSUME NEW op, NEW id, NEW patch, NEW wait, NEW u, NEW fn \in Reads, NEW k,
             Arrive(r, op, id, patch, wait, u, fn, k),
             wait \in {"email_check", "get", "load", "delete_load"}
      PROVE  AloneInv'
  <2> DEFINE s == [pc |-> wait, op |-> op, id |-> id, patch |-> patch, user |-> u, reply |-> "ok"]
             a == Called(fn, k, NoUser)
  <2>1. svc' = [svc EXCEPT ![r] = s] /\ call' = [call EXCEPT ![r] = a] /\ s.pc = wait
    BY <1>2 DEF Arrive, Begin
  <2>2. a.pc = "lookup"
    BY DEF Called, Entry, Reads
  <2> HIDE DEF s, a
  <2>3. svc[r].pc = "idle" /\ UNCHANGED <<users, redis, committed, events>>
        /\ Cardinality(InService) < MaxInFlight
    BY <1>2 DEF Arrive
  <2>4. InService = {}
    BY <2>3, OneAtATime DEF AloneInv
  <2>5. ~ Announcing(svc[r], call[r]) /\ ~ Burying(svc[r], call[r])
    BY <2>3 DEF Announcing, Burying
  <2>6. Fits(s, a, users)
    BY <1>2, <2>1 DEF Fits, Patching
  <2> QED
    BY <2>1, <2>2, <2>3, <2>4, <2>5, <2>6, AloneMoves
<1>3. StartCreate(r) \/ StartGet(r) \/ StartUpdate(r) \/ StartDelete(r) => AloneInv'
  BY <1>2 DEF StartCreate, StartGet, StartUpdate, StartDelete, Reads
<1>4. ASSUME HashFails(r) PROVE AloneInv'
  <2> DEFINE s == [svc[r] EXCEPT !.pc = "replied", !.op = "create", !.reply = "internal"]
  <2>1. svc' = [svc EXCEPT ![r] = s] /\ s.pc = "replied"
    BY <1>1, <1>4 DEF HashFails, ServiceActivation
  <2> HIDE DEF s
  <2>2. svc[r].pc = "idle" /\ UNCHANGED <<users, redis, committed, events>> /\ call' = call
    BY <1>4 DEF HashFails
  <2>3. call[r].pc = "idle" /\ call' = [call EXCEPT ![r] = call[r]]
    BY <1>1, <2>2 DEF Serves, Calls, NoCall
  <2>4. ~ Announcing(svc[r], call[r]) /\ ~ Burying(svc[r], call[r])
    BY <2>2 DEF Announcing, Burying
  <2>5. Fits(s, call[r], users) /\ s.pc \notin Waits
    BY <2>1 DEF Fits, Patching, Waits
  <2> QED
    BY <2>1, <2>2, <2>3, <2>4, <2>5, AloneMoves
<1> QED
  BY <1>3, <1>4 DEF Request

\* The event is published for what the request owes.
LEMMA PublishAlone ==
    ASSUME Sequential, ServiceInv, AloneInv, NEW r \in Requests, Publish(r)
    PROVE  AloneInv'
<1> DEFINE s == [svc[r] EXCEPT !.pc = "replied"]
<1>1. /\ svc[r] \in ServiceActivation /\ Serves(svc[r], call[r], r)
      /\ call \in [Requests -> Activation] /\ svc[r].pc = "publish"
  BY Together DEF ServiceInv, RepositoryInv, TypeInv, TypeOK, Publish
<1>2. svc' = [svc EXCEPT ![r] = s] /\ s.pc = "replied"
  BY <1>1 DEF Publish, ServiceActivation
<1> HIDE DEF s
<1>3. call[r].pc = "idle" /\ call' = [call EXCEPT ![r] = call[r]]
  BY <1>1 DEF Publish, Serves, Calls, NoCall
<1>4. UNCHANGED <<users, redis, committed>> /\ events \subseteq events'
  BY DEF Publish
<1>5. svc[r].user \in User /\ svc[r].user.id = svc[r].id
  BY <1>1 DEF Serves, Settled
<1>6. EventOf(r).by = r /\ EventOf(r).type = EventType[svc[r].op] /\ EventOf(r).user.id = svc[r].id
  BY <1>5 DEF EventOf, Sanitize, User
<1>7. ASSUME ~ PublishFaults
      PROVE  /\ Announcing(svc[r], call[r]) => ToldOf(events', r)
             /\ Burying(svc[r], call[r]) => ToldGone(events', svc[r].id)
  <2>1. EventOf(r) \in events'
    BY <1>7 DEF Publish
  <2>2. svc[r].op \in {"create", "update"} => EventOf(r).type # "deleted"
    BY <1>6 DEF EventType
  <2>3. svc[r].op = "delete" => EventOf(r).type = "deleted"
    BY <1>6 DEF EventType
  <2>4. Announcing(svc[r], call[r]) => ToldOf(events', r)
    BY <1>1, <1>6, <2>1, <2>2 DEF Announcing, ToldOf
  <2>5. Burying(svc[r], call[r]) => ToldGone(events', svc[r].id)
    BY <1>1, <1>6, <2>1, <2>3 DEF Burying, ToldGone
  <2> QED
    BY <2>4, <2>5
<1>8. Fits(s, call[r], users) /\ s.pc \notin Waits
  BY <1>2 DEF Fits, Patching, Waits
<1> QED
  BY <1>2, <1>3, <1>4, <1>7, <1>8, AloneMoves

\* The row a lookup has just found is the one the table holds.
LEMMA LoadedRow ==
    ASSUME ServiceInv, AloneInv, NEW r \in Requests, At(r, "done"), Succeeded(r),
           call[r].fn = "GetByID", NEW v \in users, v.id = svc[r].id
    PROVE  Sanitize(Answered(r)) = Sanitize(v)
<1>1. /\ call[r].key = IdKey(svc[r].id) /\ users \subseteq User
      /\ DataInv /\ Current(call[r], users)
  BY Together DEF Serves, AloneInv, ServiceInv, RepositoryInv
<1>2. PICK w \in RowsUnder(users, IdKey(svc[r].id)) : Sanitize(Answered(r)) = Sanitize(w)
  BY <1>1 DEF Current, Shows, At, Succeeded, Answered, Reads
<1>3. v \in RowsUnder(users, IdKey(svc[r].id))
  BY <1>1, RowsById
<1>4. v = w
  BY <1>1, <1>2, <1>3, OneRowUnderKey
<1> QED
  BY <1>2, <1>4

\* Patching a row leaves the fields that were not given.
LEMMA PatchedRespects ==
    ASSUME NEW u \in User, NEW v \in User, Sanitize(u) = Sanitize(v), NEW patch
    PROVE  Respects(patch, Patched(u, patch), v)
<1>1. u.email = v.email /\ u.nickname = v.nickname /\ u.profile = v.profile
  <2>1. \A w \in User : /\ Sanitize(w).email = w.email /\ Sanitize(w).nickname = w.nickname
                        /\ Sanitize(w).profile = w.profile
    BY DEF Sanitize, User
  <2> QED
    BY <2>1
<1>2. /\ Patched(u, patch).email = u.email
      /\ Patched(u, patch).nickname = OrElse(patch.nickname, u.nickname)
      /\ Patched(u, patch).profile = OrElse(patch.profile, u.profile)
  BY DEF Patched, User
<1> QED
  BY <1>1, <1>2 DEF Respects, OrElse

\* Every step of a service method keeps the invariant: one case per action.
LEMMA ServiceStepAlone ==
    ASSUME Sequential, ServiceInv, AloneInv, NEW r \in Requests, ServiceStep(r)
    PROVE  AloneInv'
<1> DEFINE s == svc[r]
<1>1. /\ s \in ServiceActivation /\ Serves(s, call[r], r) /\ users \subseteq User
      /\ s.pc = "load" => call[r].fn = "GetByID"
  BY Together DEF Serves, Calls, Awaits
<1>2. /\ "GetByNickname" \in Reads \cup Writes /\ "GetByEmail" \in Reads \cup Writes
      /\ "Create" \in Reads \cup Writes /\ "Update" \in Reads \cup Writes
      /\ "Delete" \in Reads \cup Writes
  BY DEF Reads, Writes
<1>3. {"email_check", "nickname_check", "create", "get", "load", "update_email_check", "update",
       "delete_load", "delete"} \subseteq Waits
  BY DEF Waits
<1>4. ASSUME AfterEmailCheck(r) \/ AfterNicknameCheck(r) PROVE AloneInv'
  <2>1. s.pc \in {"email_check", "nickname_check"} /\ s.pc \in Waits /\ At(r, "done")
    BY <1>3, <1>4 DEF AfterEmailCheck, AfterNicknameCheck, Returned
  <2>2. ASSUME NEW e, Reply(r, NoUser, e) PROVE AloneInv'
    BY <2>1, <2>2, ReplyAlone
  <2>3. ASSUME NEW wait \in {"nickname_check", "create"}, NEW fn \in Reads \cup Writes, NEW k,
               NEW arg, CallNext(r, wait, s.user, fn, k, arg)
        PROVE  AloneInv'
    BY <2>1, <2>3, CallNextAlone
  <2> QED
    BY <1>2, <1>4, <2>2, <2>3 DEF AfterEmailCheck, AfterNicknameCheck
<1>5. ASSUME AfterCreate(r) \/ AfterUpdate(r) \/ AfterDelete(r) PROVE AloneInv'
  BY <1>3, <1>5, FailAlone, ThenPublishAlone DEF AfterCreate, AfterUpdate, AfterDelete, Returned
<1>6. ASSUME AfterGet(r) PROVE AloneInv'
  BY <1>3, <1>6, FailAlone, ReplyAlone DEF AfterGet, Returned
<1>7. ASSUME AfterLoad(r) PROVE AloneInv'
  <2> DEFINE u == Patched(Answered(r), s.patch)
  <2>1. s.pc = "load" /\ s.pc \in Waits /\ At(r, "done")
    BY <1>3, <1>7 DEF AfterLoad, Returned
  <2>2. CASE Fail(r)
    BY <2>1, <2>2, FailAlone
  <2>3. ASSUME Succeeded(r),
               NEW wait \in {"update_email_check", "update"}, NEW fn \in Reads \cup Writes, NEW k,
               NEW arg, CallNext(r, wait, u, fn, k, arg)
        PROVE  AloneInv'
    <3>1. ASSUME NEW v \in users, v.id = s.id PROVE Respects(s.patch, u, v)
      <4>1. Answered(r) \in User
        BY <1>1, <2>1, <2>3, AnswerHasId
      <4>2. Sanitize(Answered(r)) = Sanitize(v)
        BY <1>1, <2>1, <2>3, <3>1, LoadedRow
      <4> QED
        BY <1>1, <4>1, <4>2, PatchedRespects
    <3> HIDE DEF u
    <3> QED
      BY <2>1, <2>3, <3>1, CallNextAlone
  <2> QED
    BY <1>2, <1>7, <2>2, <2>3 DEF AfterLoad
<1>8. ASSUME AfterUpdateEmailCheck(r) PROVE AloneInv'
  <2> DEFINE u == [s.user EXCEPT !.email = s.patch.email]
  <2>1. s.pc = "update_email_check" /\ s.pc \in Waits /\ At(r, "done")
    BY <1>3, <1>8 DEF AfterUpdateEmailCheck, Returned
  <2>2. CASE Reply(r, NoUser, "email_taken")
    BY <2>1, <2>2, ReplyAlone
  <2>3. CASE CallNext(r, "update", u, "Update", IdKey(s.id), u)
    <3>1. s.patch.email \in Emails /\ s.user \in User
      BY <1>1, <2>1 DEF Serves
    <3>2. s.patch.email # NotGiven
      BY <3>1, NotGivenAssumption
    <3>3. ASSUME NEW v \in users, v.id = s.id PROVE Respects(s.patch, u, v)
      <4>1. Respects(s.patch, s.user, v)
        BY <2>1, <3>3 DEF AloneInv, Fits, Patching
      <4>2. u.nickname = s.user.nickname /\ u.profile = s.user.profile
        BY <3>1 DEF User
      <4> QED
        BY <3>2, <4>1, <4>2 DEF Respects
    <3> HIDE DEF u
    <3> DEFINE k == IdKey(s.id)
    <3>4. CallNext(r, "update", u, "Update", k, u)
      BY <2>3
    <3> HIDE DEF k
    <3> QED
      BY <1>2, <2>1, <3>3, <3>4, CallNextAlone
  <2> QED
    BY <1>8, <2>2, <2>3 DEF AfterUpdateEmailCheck
<1>9. ASSUME AfterDeleteLoad(r) PROVE AloneInv'
  <2>1. s.pc = "delete_load" /\ s.pc \in Waits /\ At(r, "done")
    BY <1>3, <1>9 DEF AfterDeleteLoad, Returned
  <2>2. CASE Fail(r)
    BY <2>1, <2>2, FailAlone
  <2>3. CASE CallNext(r, "delete", Answered(r), "Delete", IdKey(s.id), NoUser)
    BY <1>2, <2>1, <2>3, CallNextAlone
  <2> QED
    BY <1>9, <2>2, <2>3 DEF AfterDeleteLoad
<1> QED
  BY <1>4, <1>5, <1>6, <1>7, <1>8, <1>9, PublishAlone DEF ServiceStep

-----------------------------------------------------------------------------
(* What holds of the service when requests come one after the other *)

\* Nothing is under way or owed when the service starts.
LEMMA AloneStart == ServiceInit => AloneInv
<1> SUFFICES ASSUME ServiceInit PROVE AloneInv
  OBVIOUS
<1>1. Init /\ svc = [r \in Requests |-> NoRequest]
  BY DEF ServiceInit
<1>2. \A r \in Requests : svc[r].pc = "idle" /\ call[r] = NoCall
  BY <1>1 DEF NoRequest, Init
<1>3. InService = {}
  BY <1>2 DEF InService, Waits
<1>4. SequentialInv
  BY <1>1, SequentialInit
<1>5. \A r \in Requests : Current(call[r], users) /\ Fits(svc[r], call[r], users)
  BY <1>2 DEF Current, Fits, Patching, NoCall
<1>6. Telling
  <2>1. committed = users /\ \A u \in committed : u.updated = Seed
    BY <1>1, InitialTablesAssumption DEF Init
  <2> QED
    BY <2>1, SeedAssumption DEF Telling, HasId
<1> QED
  BY <1>3, <1>4, <1>5, <1>6 DEF AloneInv

\* Every step keeps it.
LEMMA AloneStays ==
    ASSUME Sequential, ServiceInv, AloneInv, [ServiceNext]_serviceVars
    PROVE  AloneInv'
<1>1. ASSUME CacheExpiry PROVE AloneInv'
  <2>1. PICK k \in Keys : Expire(k)
    BY <1>1 DEF CacheExpiry
  <2>2. UNCHANGED <<users, call, committed, svc, events>>
    BY <1>1, <2>1 DEF CacheExpiry, Expire
  <2>3. SequentialInv'
    BY <2>1, ExpireSequential DEF ServiceInv, RepositoryInv, AloneInv
  <2>4. InService' = InService /\ (Telling => Telling')
    BY <2>2 DEF InService, Telling
  <2> QED
    BY <2>2, <2>3, <2>4 DEF AloneInv
<1>2. ASSUME ServiceCrash PROVE AloneInv'
  BY <1>2 DEF ServiceCrash, Sequential
<1>3. ASSUME UNCHANGED serviceVars PROVE AloneInv'
  <2>1. UNCHANGED <<users, redis, call, committed, svc, events>>
    BY <1>3 DEF serviceVars
  <2>2. InService' = InService /\ InFlight' = InFlight
    BY <2>1 DEF InService, InFlight
  <2>3. (Telling => Telling') /\ (SequentialInv => SequentialInv')
    BY <2>1, <2>2 DEF Telling, SequentialInv
  <2> QED
    BY <2>1, <2>2, <2>3 DEF AloneInv
<1> QED
  BY <1>1, <1>2, <1>3, RequestAlone, ServiceStepAlone, RepositoryStepAlone DEF ServiceNext

\* The invariant holds in every state of a sequential run of the service.
LEMMA ServiceAlone == ASSUME Sequential PROVE ServiceSpec => [](ServiceInv /\ AloneInv)
<1>1. ServiceInit => ServiceInv /\ AloneInv
  BY ServiceStart, AloneStart
<1>2. ServiceInv /\ AloneInv /\ [ServiceNext]_serviceVars => (ServiceInv /\ AloneInv)'
  BY ServiceStepping, AloneStays
<1> QED
  BY <1>1, <1>2, PTL DEF ServiceSpec

\* When no request is being served, every change has been announced.
THEOREM ChangesAreAnnounced ==
    ASSUME Sequential, ~ PublishFaults PROVE ServiceSpec => []EveryChangeIsAnnounced
<1>1. ServiceInv /\ AloneInv => EveryChangeIsAnnounced
  <2> SUFFICES ASSUME ServiceInv, AloneInv, InService = {}, NEW u \in committed
               PROVE  /\ u.updated \in Requests => ToldOf(events, u.updated)
                      /\ ~ HasId(users, u.id) => ToldGone(events, u.id)
    BY DEF EveryChangeIsAnnounced, ToldOf, ToldGone
  <2>1. \A r \in Requests : ~ Announcing(svc[r], call[r]) /\ ~ Burying(svc[r], call[r])
    BY DEF InService, Waits, Announcing, Burying
  <2> QED
    BY <2>1 DEF AloneInv, Telling
<1> QED
  BY <1>1, ServiceAlone, PTL

\* The table is the repository's to change.
LEMMA OthersDoNotWrite ==
    ASSUME ServiceNext, users' # users
    PROVE  \E r \in Requests : RepositoryStep(r)
<1>1. ASSUME NEW r \in Requests, Request(r) PROVE users' = users
  BY <1>1 DEF Request, StartCreate, StartGet, StartUpdate, StartDelete, Arrive, HashFails
<1>2. ASSUME NEW r \in Requests, ServiceStep(r) PROVE users' = users
  BY <1>2 DEF ServiceStep, AfterEmailCheck, AfterNicknameCheck, AfterCreate, AfterGet, AfterLoad,
              AfterUpdateEmailCheck, AfterUpdate, AfterDeleteLoad, AfterDelete, Fail, Reply,
              ThenPublish, CallNext, Publish
<1>3. CacheExpiry \/ ServiceCrash => users' = users
  BY DEF CacheExpiry, Expire, ServiceCrash
<1> QED
  BY <1>1, <1>2, <1>3 DEF ServiceNext

\* An update leaves the fields that its request does not give.
THEOREM UpdatesTouchGivenFieldsOnly ==
    ASSUME Sequential PROVE ServiceSpec => OnlyProvidedFieldsChange
<1> DEFINE Leaves ==
       \A u \in users, v \in users' : u.id = v.id /\ u # v =>
           LET patch == svc[v.updated].patch IN
           /\ patch.email = NotGiven => v.email = u.email
           /\ patch.nickname = NotGiven => v.nickname = u.nickname
           /\ patch.profile = NotGiven => v.profile = u.profile
<1>1. ServiceInv /\ AloneInv /\ [ServiceNext]_serviceVars => [Leaves]_serviceVars
  <2> SUFFICES ASSUME ServiceInv, AloneInv, ServiceNext,
                      NEW u \in users, NEW v \in users', u.id = v.id, u # v
               PROVE  Respects(svc[v.updated].patch, v, u)
    BY DEF serviceVars, Respects
  <2>1. DataInv /\ TypeInv /\ WellFormed /\ users \subseteq User /\ users \subseteq committed
    BY DEF ServiceInv, RepositoryInv, TypeInv, TypeOK, DataInv
  <2>2. ~ v \in users
    <3>1. u \in RowsUnder(users, IdKey(u.id)) /\ (v \in users => v \in RowsUnder(users, IdKey(u.id)))
      BY <2>1, RowsById
    <3> QED
      BY <2>1, <3>1, OneRowUnderKey
  <2>3. PICK r \in Requests : RepositoryStep(r)
    <3>1. users' # users
      BY <2>2
    <3> QED
      BY <3>1, OthersDoNotWrite
  <2>4. /\ svc[r] \in ServiceActivation /\ Serves(svc[r], call[r], r) /\ Tells(call[r], r)
        /\ call[r] \in Activation
    BY Together
  <2>5. PICK a : Outcome(r, a)
    BY <2>1, <2>3, <2>4, Outcomes DEF RepositoryStep
  <2>6. CASE Inserted(r, a)
    <3>1. v = call[r].user /\ At(r, "insert")
      BY <2>2, <2>6 DEF Inserted
    <3>2. ~ HasId(committed, v.id)
      BY <2>4, <3>1 DEF Tells, At
    <3> QED
      BY <2>1, <3>2 DEF HasId
  <2>7. CASE Updated(r, a)
    <3>1. v = [call[r].user EXCEPT !.updated = r] /\ At(r, "update")
      BY <2>2, <2>7 DEF Updated
    <3>2. call[r].fn = "Update" /\ call[r].user \in User
      BY <2>1, <3>1 DEF WellFormed, At
    <3>3. svc[r].pc = "update" /\ call[r].user = svc[r].user /\ svc[r].user.id = svc[r].id
      BY <2>4, <3>2, CallTellsPoint DEF Serves
    <3>4. /\ v.id = svc[r].id /\ v.updated = r /\ v.email = svc[r].user.email
          /\ v.nickname = svc[r].user.nickname /\ v.profile = svc[r].user.profile
      BY <3>1, <3>2, <3>3 DEF User
    <3>5. Respects(svc[r].patch, svc[r].user, u)
      BY <3>1, <3>3, <3>4 DEF AloneInv, Fits, Patching, At
    <3> QED
      BY <3>4, <3>5 DEF Respects
  <2>8. users' \subseteq users => FALSE
    BY <2>2
  <2> QED
    BY <2>5, <2>6, <2>7, <2>8 DEF Outcome, Looks, FindsNone, IsRefused, Erased, Commanded
<1> QED
  BY <1>1, ServiceAlone, PTL DEF ServiceSpec, OnlyProvidedFieldsChange

\* The service moves one request at a time.
LEMMA OthersStand ==
    ASSUME svc \in [Requests -> ServiceActivation], NEW q \in Requests, NEW r \in Requests,
           q # r, Request(q) \/ ServiceStep(q) \/ RepositoryStep(q)
    PROVE  svc'[r] = svc[r]
<1>1. ASSUME NEW op, NEW id, NEW patch, NEW wait, NEW u, NEW fn, NEW k,
             Arrive(q, op, id, patch, wait, u, fn, k)
      PROVE  svc'[r] = svc[r]
  BY <1>1 DEF Arrive
<1>2. ASSUME NEW wait, NEW u, NEW fn, NEW k, NEW arg, CallNext(q, wait, u, fn, k, arg)
      PROVE  svc'[r] = svc[r]
  BY <1>2 DEF CallNext
<1>3. ASSUME NEW u, NEW e, Reply(q, u, e) PROVE svc'[r] = svc[r]
  BY <1>3 DEF Reply
<1>4. ASSUME NEW u, ThenPublish(q, u) PROVE svc'[r] = svc[r]
  BY <1>4 DEF ThenPublish
<1>5. HashFails(q) \/ Publish(q) \/ RepositoryStep(q) => svc'[r] = svc[r]
  BY DEF HashFails, Publish, RepositoryStep
<1>6. Request(q) => svc'[r] = svc[r]
  BY <1>1, <1>5 DEF Request, StartCreate, StartGet, StartUpdate, StartDelete
<1>7. ServiceStep(q) => svc'[r] = svc[r]
  BY <1>2, <1>3, <1>4, <1>5
     DEF ServiceStep, Fail, AfterEmailCheck, AfterNicknameCheck, AfterCreate, AfterGet, AfterLoad,
         AfterUpdateEmailCheck, AfterUpdate, AfterDeleteLoad, AfterDelete
<1> QED
  BY <1>5, <1>6, <1>7

\* A lookup answers with the row of the moment, from wherever it has it.
THEOREM RepliesAreCurrent == ASSUME Sequential PROVE ServiceSpec => ReplyIsCurrent
<1> DEFINE Replying(r) ==
       svc'[r].op = "get" /\ svc'[r].reply = "ok" /\ svc[r].pc = "get" /\ svc'[r].pc = "replied"
<1>1. ServiceInv /\ AloneInv /\ [ServiceNext]_serviceVars =>
         [\A r \in Requests : Replying(r) =>
             \E u \in users : Sanitize(u) = Sanitize(svc'[r].user)]_serviceVars
  <2> SUFFICES ASSUME ServiceInv, AloneInv, ServiceNext, NEW r \in Requests, Replying(r)
               PROVE  \E u \in users : Sanitize(u) = Sanitize(svc'[r].user)
    OBVIOUS
  <2>1. /\ svc \in [Requests -> ServiceActivation] /\ Serves(svc[r], call[r], r)
        /\ svc[r] \in ServiceActivation
    BY Together DEF ServiceInv, ServiceTypes
  <2>2. svc'[r] # svc[r]
    OBVIOUS
  <2>3. ~ CacheExpiry /\ ~ RepositoryStep(r) /\ ~ ServiceCrash
    BY <2>2 DEF CacheExpiry, RepositoryStep, ServiceCrash, Sequential
  <2>4. ~ Request(r)
    BY DEF Request, StartCreate, StartGet, StartUpdate, StartDelete, Arrive, HashFails
  <2>5. ServiceStep(r)
    BY <2>1, <2>2, <2>3, <2>4, OthersStand DEF ServiceNext
  <2>6. AfterGet(r)
    BY <2>5 DEF ServiceStep, AfterEmailCheck, AfterNicknameCheck, AfterCreate, AfterLoad,
                AfterUpdateEmailCheck, AfterUpdate, AfterDeleteLoad, AfterDelete, Publish, Returned
  <2>7. ASSUME NEW u, NEW e, Reply(r, u, e) PROVE svc'[r].user = u /\ svc'[r].reply = e
    BY <2>1, <2>7 DEF Reply, ServiceActivation
  <2>8. At(r, "done") /\ Succeeded(r) /\ Reply(r, Answered(r), "ok")
    <3>1. Fail(r) => svc'[r].reply # "ok"
      BY <2>7 DEF Fail, Succeeded, AsReply
    <3> QED
      BY <2>6, <3>1 DEF AfterGet, Returned
  <2>9. svc'[r].user = Answered(r)
    BY <2>7, <2>8
  <2>10. call[r].fn = "GetByID" /\ Current(call[r], users)
    BY <2>1 DEF Serves, Calls, Awaits, AloneInv
  <2>11. \E u \in users : Sanitize(Answered(r)) = Sanitize(u)
    BY <2>8, <2>10 DEF Current, Shows, RowsUnder, Reads, At, Succeeded, Answered
  <2> QED
    BY <2>9, <2>11
<1> QED
  BY <1>1, ServiceAlone, PTL DEF ServiceSpec, ReplyIsCurrent
=============================================================================
