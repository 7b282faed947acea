----------------------------- MODULE Repository -----------------------------
(***************************************************************************)
(* What the interface user.Repository promises to the service: a table     *)
(* on which each call takes effect at one instant between its invocation   *)
(* and its return.  Nothing here knows of a cache, and a returned user     *)
(* carries no password hash: a caller may not rely on getting one.         *)
(***************************************************************************)
EXTENDS UserTable

CONSTANTS InitialTables

VARIABLES
    table,      \* the stored users, without their password hashes
    op          \* op[r]: the call request r makes, and its outcome

vars == <<table, op>>

Reads == {"GetByID", "GetByEmail", "GetByNickname"}

\* What kind of key a call names its row by.
KeyKind == [GetByID |-> "id", GetByEmail |-> "email", GetByNickname |-> "nick",
            Delete |-> "id"]

IdleOp == [status |-> "idle", fn |-> "none", key |-> NoKey, user |-> NoUser, err |-> "ok"]

Init ==
    /\ \E T \in InitialTables : table = {Sanitize(u) : u \in T}
    /\ op = [r \in Requests |-> IdleOp]

Invoke(r) ==
    /\ op[r].status = "idle"
    /\ \E fn \in Reads \cup {"Delete"}, k \in Keys :
          /\ k[1] = KeyKind[fn]
          /\ op' = [op EXCEPT ![r] = [status |-> "pending", fn |-> fn, key |-> k,
                                      user |-> NoUser, err |-> "ok"]]
    /\ UNCHANGED table

InvokeWrite(r) ==
    /\ op[r].status = "idle"
    /\ \E fn \in {"Create", "Update"}, u \in {Sanitize(v) : v \in User} :
          op' = [op EXCEPT ![r] = [status |-> "pending", fn |-> fn, key |-> IdKey(u.id),
                                   user |-> u, err |-> "ok"]]
    /\ UNCHANGED table

Return(r, u, e) ==
    op' = [op EXCEPT ![r].status = "returned", ![r].user = u, ![r].err = e]

Pending(r, fns) == op[r].status = "pending" /\ op[r].fn \in fns

\* A read returns the row stored under the key at that instant.
Read(r) ==
    /\ Pending(r, Reads)
    /\ \E u \in RowsUnder(table, op[r].key) : Return(r, u, "ok")
    /\ UNCHANGED table

Create(r) ==
    /\ Pending(r, {"Create"})
    /\ Conflicts(table, op[r].user) = {}
    /\ table' = table \cup {op[r].user}
    /\ Return(r, op[r].user, "ok")

\* An update replaces the whole row.
Update(r) ==
    /\ Pending(r, {"Update"})
    /\ \E u \in RowsUnder(table, op[r].key) :
          /\ Conflicts(table \ {u}, op[r].user) = {}
          /\ table' = (table \ {u}) \cup {[op[r].user EXCEPT !.updated = r]}
    /\ Return(r, op[r].user, "ok")

Delete(r) ==
    /\ Pending(r, {"Delete"})
    /\ \E u \in RowsUnder(table, op[r].key) : table' = table \ {u}
    /\ Return(r, NoUser, "ok")

NotFound(r) ==
    /\ Pending(r, Reads \cup {"Update", "Delete"})
    /\ RowsUnder(table, op[r].key) = {}
    /\ Return(r, op[r].user, "not_found")
    /\ UNCHANGED table

Refuse(r) ==
    /\ \/ Pending(r, {"Create"}) /\ \E e \in Conflicts(table, op[r].user) : Return(r, op[r].user, e)
       \/ /\ Pending(r, {"Update"})
          /\ \E u \in RowsUnder(table, op[r].key) :
                \E e \in Conflicts(table \ {u}, op[r].user) : Return(r, op[r].user, e)
    /\ UNCHANGED table

TakeEffect(r) ==
    Read(r) \/ Create(r) \/ Update(r) \/ Delete(r) \/ NotFound(r) \/ Refuse(r)

Next == \E r \in Requests : Invoke(r) \/ InvokeWrite(r) \/ TakeEffect(r)

Spec == Init /\ [][Next]_vars
=============================================================================
