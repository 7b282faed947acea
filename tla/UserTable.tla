----------------------------- MODULE UserTable -----------------------------
(***************************************************************************)
(* The data every other module shares: rows of the PostgreSQL table        *)
(* "users", the keys under which a row can be looked up, the JSON          *)
(* projection of a row that is stored in Redis, and what one SQL statement *)
(* of the repository computes on a table.                                  *)
(*                                                                         *)
(* A table is a set of rows.  A row keeps the columns the properties tell  *)
(* apart: first name, last name and country are one value "profile",       *)
(* created_at is left out, and updated_at is the request that wrote the    *)
(* row (Seed for a row older than the run), which distinguishes any two    *)
(* writes as their timestamps do.                                          *)
(***************************************************************************)
EXTENDS Naturals, FiniteSets

CONSTANTS
    Ids,            \* UUIDs
    Emails,
    Nicknames,
    Profiles,       \* first name, last name and country together
    Requests,       \* API requests, each served by a goroutine of its own
    Seed,           \* the author of the rows found at start
    NoUser          \* "no row": a missing cache entry, a nil *user.User

User == [id       : Ids,
         email    : Emails,
         nickname : Nicknames,
         profile  : Profiles,
         password : {"hash", ""},
         updated  : Requests \cup {Seed}]

ASSUME SeedAssumption == Seed \notin Requests
ASSUME NoUserAssumption == NoUser \notin User

(***************************************************************************)
(* Cache keys, which are the lookup keys of the three SELECTs as well.     *)
(***************************************************************************)
IdKey(i)    == <<"id", i>>
EmailKey(e) == <<"email", e>>
NickKey(n)  == <<"nick", n>>

Keys  == ({"id"} \X Ids) \cup ({"email"} \X Emails) \cup ({"nick"} \X Nicknames)
NoKey == <<>>

\* The three keys of a row, in the order in which the pipelines name them.
KeysOf(u) == <<IdKey(u.id), EmailKey(u.email), NickKey(u.nickname)>>
KeySet(u) == {KeysOf(u)[n] : n \in 1..3}

\* json.Marshal drops the field Password, which is tagged `json:"-"`.
Sanitize(u) == [u EXCEPT !.password = ""]

(***************************************************************************)
(* SELECT * FROM users WHERE id = $1 (or email, or nickname).              *)
(***************************************************************************)
\* (Mutation: the WHERE clause is forgotten.)
AllRows(table, k)   == {u \in table : k \in Keys}
RowsUnder(table, k) == {u \in table : k \in KeySet(u)}
HasId(table, i)     == \E u \in table : u.id = i

(***************************************************************************)
(* The errors an INSERT or UPDATE that leaves row u in the table may get   *)
(* from the unique constraints, given the other rows.  PostgreSQL reports  *)
(* one violated constraint; which one when several are is not specified.   *)
(* A primary key violation names neither email nor nickname and stays an   *)
(* unclassified database error.                                            *)
(***************************************************************************)
\* (Mutation: the column nickname has no UNIQUE constraint.)
ConflictsButNickname(others, u) ==
    {e \in {"db_error", "email_taken"} :
        \E v \in others :
            \/ e = "db_error"    /\ v.id = u.id
            \/ e = "email_taken" /\ v.email = u.email}

Conflicts(others, u) ==
    {e \in {"db_error", "email_taken", "nickname_taken"} :
        \E v \in others :
            \/ e = "db_error"       /\ v.id = u.id
            \/ e = "email_taken"    /\ v.email = u.email
            \/ e = "nickname_taken" /\ v.nickname = u.nickname}

\* No two rows share an id, an email or a nickname.
IdentifiesRows(table) ==
    \A u, v \in table : KeySet(u) \cap KeySet(v) # {} => u = v
=============================================================================
