---------------------------- MODULE UserListing ----------------------------
(***************************************************************************)
(* ListUsers, from the query of a REST or gRPC client through the service  *)
(* to the two statements of the repository (the cache is bypassed): a      *)
(* COUNT and a SELECT that share no transaction.  A client asks for one    *)
(* page after the other as long as the reply says has_more, while other    *)
(* requests insert, change and delete users.                               *)
(*                                                                         *)
(* A user has a creation time, which no other user shares, and a country,  *)
(* which users may share.  They stand for the unique and the ambiguous     *)
(* columns one can sort and filter by.  CreateUser reads the clock before  *)
(* it looks for conflicts and INSERTs the user, so users need not appear   *)
(* in the order of their times.                                            *)
(***************************************************************************)
EXTENDS Integers, Sequences, FiniteSets

CONSTANTS
    MaxRows,        \* bound: the creation times, hence how many users there are
    MaxWrites,      \* bound: how many writes other requests make
    Countries,      \* numbers, in their alphabetical order
    Queries,        \* what clients ask for first
    DefaultLimit,   \* 10
    MaxInt32,       \* the largest int32 of the gRPC messages
    DbFaults        \* may a statement fail?

Row == [created_at : 1..MaxRows, country : Countries]

\* Go's int is twice as wide: 2^63 = 2 * 2^31 * 2^31.
MaxInt  == 2 * (MaxInt32 + 1) * (MaxInt32 + 1) - 1
Wrap(n) == ((n + MaxInt + 1) % (2 * MaxInt + 2)) - MaxInt - 1

\* A filter's value is the set of column values it is ILIKE to, and whether it is
\* text to PostgreSQL: no zero byte, and valid UTF-8.
Filter == [field : {"country", "page"}, value : SUBSET Countries, text : BOOLEAN]

\* What a client sends; 0 and "" are parameters it leaves out.
Query == [api     : {"rest", "grpc"},
          page    : Nat,
          limit   : Nat,
          orderBy : {"", "created_at", "country", "page"},
          desc    : {"", "true", "false"},
          filters : SUBSET Filter]

ASSUME QueriesAssumption ==
    /\ Queries \subseteq Query
    /\ \A q \in Queries : q.api = "grpc" => q.page <= MaxInt32 /\ q.limit <= MaxInt32
ASSUME ListingBoundsAssumption ==
    /\ {MaxRows, MaxWrites, MaxInt32} \subseteq Nat
    /\ DefaultLimit \in 1..MaxInt32 /\ 2 * MaxRows <= MaxInt
    /\ Countries \subseteq Nat /\ DbFaults \in BOOLEAN

VARIABLES
    table,      \* the users stored now
    writes,     \* how many writes there were
    list,       \* the activation of ListUsers for the client's query
    walk        \* history: what the client has seen since it began, and
                \* what happened to the table meanwhile

vars == <<table, writes, list, walk>>

-----------------------------------------------------------------------------
(* Parameters, from the handlers to the repository *)

\* A parameter that is missing, not positive or not an int takes its default.
Given(n, default) == IF n \in 1..MaxInt THEN n ELSE default

\* (Mutation: the offset is computed in int32, without the conversions.)
OffsetInt32(q) ==
    LET n == (Given(q.page, 1) - 1) * Given(q.limit, DefaultLimit) IN
    ((n + MaxInt32 + 1) % (2 * MaxInt32 + 2)) - MaxInt32 - 1

Offset(q) == Wrap((Given(q.page, 1) - 1) * Given(q.limit, DefaultLimit))

\* Every parameter of the URL is taken for a filter as well.
RestParams(q) ==
    [limit |-> Given(q.limit, DefaultLimit), offset |-> Offset(q),
     orderBy |-> IF q.orderBy = "" THEN "created_at" ELSE q.orderBy,
     desc |-> q.desc # "false",
     filters |-> q.filters \cup {f \in {[field |-> "page", value |-> {}, text |-> TRUE]} :
                                   q.page > 0}]

\* A missing string is "" and a missing bool is false; neither has a default.
GrpcParams(q) ==
    [limit |-> Given(q.limit, DefaultLimit), offset |-> Offset(q),
     orderBy |-> q.orderBy, desc |-> q.desc = "true", filters |-> q.filters]

Params(q) == IF q.api = "rest" THEN RestParams(q) ELSE GrpcParams(q)

AllowedFilters == {"country"}
Columns        == AllowedFilters \cup {"created_at"}

\* (Mutation: fields are not checked against the white list.)
AdmittedAsGiven(p) == p

\* The service drops filters it does not know, and orders by created_at when
\* it does not know the column; an empty order_by passes as it is.
Admitted(p) ==
    [p EXCEPT !.filters = {f \in @ : f.field \in AllowedFilters},
              !.orderBy = IF @ # "" /\ @ \notin Columns THEN "created_at" ELSE @]

\* (Mutation: an off-by-one.)
HasMoreAtEnd(p, total) == total >= Wrap(p.offset + p.limit)
HasMore(p, total)      == p.limit > 0 /\ total > Wrap(p.offset + p.limit)

-----------------------------------------------------------------------------
(* The statements *)

\* PostgreSQL rejects an unknown column, a filter whose value it does not take for
\* text, an empty ORDER BY and a negative OFFSET.
CountIsValid(p)  == \A f \in p.filters : f.field \in Columns /\ f.text
SelectIsValid(p) == CountIsValid(p) /\ p.orderBy \in Columns /\ p.offset >= 0

\* How a statement may fail: for what it says, or for the state of the database.
ErrorsOf(valid) ==
    {e \in {"rejected", "unavailable"} : IF e = "rejected" THEN ~ valid ELSE DbFaults}

Matching(t, p) == {u \in t : \A f \in p.filters : u[f.field] \in f.value}

Before(u, v, p) ==
    IF p.desc THEN u[p.orderBy] >= v[p.orderBy] ELSE u[p.orderBy] <= v[p.orderBy]

\* The orders in which the rows may come: ties are broken at will.
Orderings(rows, p) ==
    {s \in [1..Cardinality(rows) -> rows] :
        \A i, j \in DOMAIN s : i < j => s[i] # s[j] /\ Before(s[i], s[j], p)}

Least(m, n) == IF m <= n THEN m ELSE n

\* (Mutations: LIMIT is applied from the start of the result, or not at all.)
SliceToEnd(s, p)     == SubSeq(s, p.offset + 1, Len(s))
SliceFromStart(s, p) == SubSeq(s, p.offset + 1, Least(p.limit, Len(s)))
Slice(s, p)          == SubSeq(s, p.offset + 1, Least(p.offset + p.limit, Len(s)))

-----------------------------------------------------------------------------

NoQuery == [api |-> "rest", page |-> 0, limit |-> 0, orderBy |-> "", desc |-> "",
            filters |-> {}]

Asked(q) == [pc |-> "count", query |-> q, total |-> 0, users |-> <<>>,
             hasMore |-> FALSE, err |-> "ok"]

Init ==
    /\ \E times \in SUBSET (1..MaxRows) : \E country \in [times -> Countries] :
          table = {[created_at |-> n, country |-> country[n]] : n \in times}
    /\ writes = 0
    /\ list = [Asked(NoQuery) EXCEPT !.pc = "idle"]
    /\ walk = [since |-> {}, kinds |-> {}, seen |-> <<>>, whole |-> FALSE]

\* What the repository gets.
sent == Admitted(Params(list.query))

\* A client asks for any page; from the first one on it walks the whole list.
Ask(q) ==
    /\ list.pc = "idle"
    /\ list' = Asked(q)
    /\ walk' = [since |-> table, kinds |-> {}, seen |-> <<>>, whole |-> q.page <= 1]
    /\ UNCHANGED <<table, writes>>

\* Both handlers answer any error of a statement with "internal".
Fail(e) ==
    /\ list' = [list EXCEPT !.pc = "replied", !.err = e]
    /\ UNCHANGED <<table, writes, walk>>

Count ==
    /\ list.pc = "count"
    /\ \/ /\ CountIsValid(sent)
          /\ list' = [list EXCEPT !.pc = "select", !.total = Cardinality(Matching(table, sent))]
          /\ UNCHANGED <<table, writes, walk>>
       \/ \E e \in ErrorsOf(CountIsValid(sent)) : Fail(e)

Select ==
    /\ list.pc = "select"
    /\ \/ /\ SelectIsValid(sent)
          /\ \E rows \in Orderings(Matching(table, sent), sent) :
                /\ list' = [list EXCEPT !.pc = "replied", !.users = Slice(rows, sent),
                                        !.hasMore = HasMore(sent, list.total)]
                /\ walk' = [walk EXCEPT !.seen = @ \o Slice(rows, sent)]
          /\ UNCHANGED <<table, writes>>
       \/ \E e \in ErrorsOf(SelectIsValid(sent)) : Fail(e)

MayGoOn == list.pc = "replied" /\ list.hasMore

\* The client asks for the next page of the same query.
NextPage ==
    LET q == [list.query EXCEPT !.page = Given(@, 1) + 1] IN
    /\ MayGoOn
    /\ q.api = "grpc" => q.page <= MaxInt32
    /\ list' = Asked(q)
    /\ UNCHANGED <<table, writes, walk>>

-----------------------------------------------------------------------------
(* Writes of other requests *)

Write(kind, t) ==
    /\ writes < MaxWrites
    /\ writes' = writes + 1
    /\ table' = t
    /\ walk' = [walk EXCEPT !.kinds = @ \cup {kind}]
    /\ UNCHANGED list

\* A creation that read the clock at some time commits: it is late when it lands
\* before a user who was there when the walk began.
Arrival(n) == IF \E u \in walk.since : n < u.created_at THEN "late" ELSE "insert"

Insert(n, c) ==
    /\ \A u \in table : u.created_at # n
    /\ Write(Arrival(n), table \cup {[created_at |-> n, country |-> c]})

Update(u, c) ==
    /\ c # u.country
    /\ Write("update", (table \ {u}) \cup {[u EXCEPT !.country = c]})

Delete(u) == Write("delete", table \ {u})

Next ==
    \/ \E q \in Queries : Ask(q)
    \/ Count \/ Select \/ NextPage
    \/ \E n \in 1..MaxRows, c \in Countries : Insert(n, c)
    \/ \E u \in table, c \in Countries : Update(u, c)
    \/ \E u \in table : Delete(u)

Spec == Init /\ [][Next]_vars

-----------------------------------------------------------------------------
(* Properties *)

\* Every variable keeps its shape, and a page its limit.
TypeOK ==
    /\ table \subseteq Row /\ writes \in 0..MaxWrites
    /\ list.pc \in {"idle", "count", "select", "replied"} /\ list.query \in Query
    /\ list.total \in 0..MaxRows /\ list.err \in {"ok", "rejected", "unavailable"}
    /\ list.hasMore \in BOOLEAN /\ Len(list.users) <= sent.limit
    /\ walk.since \subseteq Row /\ walk.kinds \subseteq {"insert", "late", "update", "delete"}
    /\ \A n \in DOMAIN list.users : list.users[n] \in Row

\* The client was told that it has seen everything, page by page from the first.
WalkIsOver == list.pc = "replied" /\ list.err = "ok" /\ ~ list.hasMore /\ walk.whole

\* If nobody writes, the pages of a walk ordered by a column without ties add up
\* to the users that match the filters, in order, each of them exactly once.
QuietWalkIsExact ==
    WalkIsOver /\ walk.kinds = {} /\ sent.orderBy = "created_at" =>
        walk.seen \in Orderings(Matching(walk.since, sent), sent)

\* COUNT and the SELECTs of the pages see different tables.  Nevertheless a walk
\* from the oldest user to the newest misses no user and repeats none that was
\* there when it began, as long as the others only create users, and none that is
\* late.  (With a late creation, and in the default order, newest first, with any
\* creation, a walk may do both.)
AscendingWalkMissesNobody ==
    WalkIsOver /\ walk.kinds \subseteq {"insert"} /\ sent.orderBy = "created_at" /\ ~ sent.desc =>
        \A u \in Matching(walk.since, sent) :
            Cardinality({n \in DOMAIN walk.seen : walk.seen[n] = u}) = 1

\* No parameter makes PostgreSQL reject a statement, except the value of a known
\* filter that is no text, a gRPC request that leaves order_by out, and a page
\* whose offset overflows an int.
ParametersAreSafe ==
    list.err = "rejected" =>
        \/ \E f \in sent.filters : f.field \in AllowedFilters /\ ~ f.text
        \/ list.query.api = "grpc" /\ list.query.orderBy = ""
        \/ (Given(list.query.page, 1) - 1) * Given(list.query.limit, DefaultLimit) > MaxInt

\* An offset beyond the last user shows no user: since its parameters are
\* int32, no page of a gRPC request wraps around to an earlier one.
DeepPagesAreEmpty ==
    LET q == list.query IN
    q.api = "grpc" /\ (Given(q.page, 1) - 1) * Given(q.limit, DefaultLimit) >= MaxRows =>
        list.users = <<>>

\* has_more is no empty promise: unless somebody deletes or changes users, the
\* page it sends the client to exists and shows a user (so walks end).
NextPageShowsUsers ==
    list.pc = "replied" /\ list.err # "unavailable" /\ walk.whole /\ Given(list.query.page, 1) > 1
    /\ walk.kinds \subseteq {"insert", "late"} => list.users # <<>>
=============================================================================
