-------------------------- MODULE UserListingProofs --------------------------
(***************************************************************************)
(* Theorems about ListUsers for every query, every number of users and     *)
(* whatever other requests write between the pages of a walk.              *)
(***************************************************************************)
EXTENDS UserListing, FiniteSetTheorems, SequenceTheorems, TLAPS

-----------------------------------------------------------------------------
(* The inductive invariant *)

\* What the client asks for: the number of its page, how many users a page holds,
\* and how many come before.
Page(q)    == Given(q.page, 1)
Limit(q)   == Given(q.limit, DefaultLimit)
Skipped(q) == (Page(q) - 1) * Limit(q)

\* The users that match the query now.
There == Cardinality(Matching(table, sent))

\* The rows are told apart by their creation times.
Rows ==
    /\ table \subseteq Row /\ writes \in 0..MaxWrites
    /\ \A u, v \in table : u.created_at = v.created_at => u = v

Listing == [pc      : {"idle", "count", "select", "replied"},
            query   : Query,
            total   : 0..MaxRows,
            users   : Seq(Row),
            hasMore : BOOLEAN,
            err     : {"ok", "rejected", "unavailable"}]

Walk == [since : SUBSET Row, kinds : SUBSET {"insert", "late", "update", "delete"},
         seen : Seq(Row), whole : BOOLEAN]

\* What every variable looks like; nothing is shown before the reply.
Shapes ==
    /\ Rows /\ list \in Listing /\ walk \in Walk
    /\ Len(list.users) <= sent.limit
    /\ list.pc # "replied" => list.users = <<>> /\ ~ list.hasMore /\ list.err = "ok"
    /\ list.query.api = "grpc" => list.query.page <= MaxInt32 /\ list.query.limit <= MaxInt32

\* PostgreSQL accepts what the query says, whatever its page is.
Accepted == CountIsValid(sent) /\ sent.orderBy \in Columns

\* On a walk of the whole list that is not disturbed but by creations, more users
\* are there than the pages before this one have shown.
OnTheWay ==
    walk.whole /\ walk.kinds \subseteq {"insert", "late"} =>
        /\ list.pc # "idle" /\ Page(list.query) > 1 =>
              Accepted /\ Skipped(list.query) < There
        /\ list.pc = "select" => list.total <= There
        /\ list.pc = "replied" /\ list.hasMore =>
              /\ Accepted
              /\ Skipped(list.query) + Limit(list.query) < list.total /\ list.total <= There

\* What holds of the listing at every moment.
ListingInv ==
    /\ Shapes /\ ParametersAreSafe /\ DeepPagesAreEmpty
    /\ OnTheWay /\ NextPageShowsUsers

-----------------------------------------------------------------------------
(* Arithmetic *)

\* The largest int is a number, larger than the largest int32.
LEMMA IntIsWide == MaxInt \in Nat /\ MaxInt32 \in Nat /\ MaxInt32 <= MaxInt
                   /\ MaxInt32 * MaxInt32 <= MaxInt
<1>1. MaxInt32 \in Nat
  BY ListingBoundsAssumption
<1> DEFINE m == MaxInt32 * MaxInt32
<1>2. m \in Nat /\ MaxInt = 2 * m + 4 * MaxInt32 + 1
  BY <1>1 DEF MaxInt
<1> HIDE DEF m
<1>3. MaxInt \in Nat /\ MaxInt32 <= MaxInt /\ m <= MaxInt
  BY <1>1, <1>2
<1> QED
  BY <1>1, <1>3 DEF m

\* Products grow with their factors.
LEMMA ProductGrows ==
    ASSUME NEW a \in Nat, NEW b \in Nat, NEW c \in Nat, NEW d \in Nat, a <= c, b <= d
    PROVE  a * b <= c * d /\ a * b \in Nat /\ c * d \in Nat
<1>1. a * b <= c * b
  BY SMTT(30)
<1>2. c * b <= c * d
  BY SMTT(30)
<1>3. a * b \in Nat /\ c * b \in Nat /\ c * d \in Nat
  OBVIOUS
<1> QED
  BY <1>1, <1>2, <1>3

\* An int that fits does not wrap around.
LEMMA FittingInt ==
    ASSUME NEW n \in 0..MaxInt
    PROVE  Wrap(n) = n
<1> DEFINE w == 2 * MaxInt + 2
           x == n + MaxInt + 1
<1>1. w \in Nat /\ w > 0 /\ x \in Nat /\ x < w
  BY IntIsWide
<1>2. Wrap(n) = (x % w) - MaxInt - 1
  BY DEF Wrap
<1>3. x % w = x
  <2> HIDE DEF x, w
  <2> QED
    BY <1>1
<1> QED
  BY <1>2, <1>3, IntIsWide

\* Whatever overflows, the result is an int.
LEMMA WrappedInt ==
    ASSUME NEW n \in Int
    PROVE  Wrap(n) \in Int
<1> DEFINE w == 2 * MaxInt + 2
           x == n + MaxInt + 1
<1>1. w \in Nat /\ w > 0 /\ x \in Int
  BY IntIsWide
<1>2. x % w \in Int
  <2> HIDE DEF x, w
  <2> QED
    BY <1>1
<1> QED
  BY <1>2, IntIsWide DEF Wrap

-----------------------------------------------------------------------------
(* Parameters *)

\* A page is a positive number, and so is a limit.
LEMMA PageAndLimit ==
    ASSUME NEW q \in Query
    PROVE  /\ Page(q) \in 1..MaxInt \/ Page(q) = 1
           /\ Page(q) \in Nat /\ Page(q) >= 1
           /\ Limit(q) \in 1..MaxInt
           /\ Skipped(q) \in Nat
           /\ Page(q) > 1 => Limit(q) <= Skipped(q)
<1>1. q.page \in Nat /\ q.limit \in Nat
  BY DEF Query
<1>2. Limit(q) \in 1..MaxInt
  BY <1>1, IntIsWide, ListingBoundsAssumption DEF Limit, Given
<1>3. Page(q) \in Nat /\ Page(q) >= 1 /\ (Page(q) \in 1..MaxInt \/ Page(q) = 1)
  BY <1>1, IntIsWide DEF Page, Given
<1> DEFINE n == Page(q) - 1
           l == Limit(q)
<1>4. n \in Nat /\ l \in Nat /\ (Page(q) > 1 => 1 <= n)
  BY <1>2, <1>3
<1> HIDE DEF n, l
<1>5. n * l \in Nat /\ (1 <= n => 1 * l <= n * l)
  BY <1>4, ProductGrows
<1>6. Skipped(q) = n * l
  BY DEF Skipped, n, l
<1>7. 1 * l = l
  BY <1>4
<1> QED
  BY <1>2, <1>3, <1>4, <1>5, <1>6, <1>7 DEF l

\* What the repository gets of a query: the same in both APIs but for the defaults
\* of the order.
LEMMA SentFields ==
    ASSUME NEW q \in Query
    PROVE  LET p == Admitted(Params(q)) IN
           /\ p.limit = Limit(q) /\ p.offset = Wrap(Skipped(q))
           /\ p.filters = {f \in q.filters : f.field \in AllowedFilters}
           /\ p.orderBy \in Columns \/ (p.orderBy = "" /\ q.api = "grpc" /\ q.orderBy = "")
           /\ CountIsValid(p) <=> \A f \in p.filters : f.text
           /\ \A f \in p.filters : f.field \in AllowedFilters
<1> DEFINE p == Admitted(Params(q))
           given == Params(q)
<1>1. q.api \in {"rest", "grpc"}
  BY DEF Query
<1>2. given.limit = Limit(q) /\ given.offset = Wrap(Skipped(q))
  BY <1>1 DEF Params, RestParams, GrpcParams, Limit, Offset, Skipped, Page
<1>3. {f \in given.filters : f.field \in AllowedFilters}
        = {f \in q.filters : f.field \in AllowedFilters}
  <2>1. CASE q.api = "grpc"
    BY <2>1 DEF Params, GrpcParams
  <2>2. CASE q.api = "rest"
    <3>1. given.filters = q.filters \cup {f \in {[field |-> "page", value |-> {}, text |-> TRUE]} : q.page > 0}
      BY <2>2 DEF Params, RestParams
    <3>2. [field |-> "page", value |-> {}, text |-> TRUE].field \notin AllowedFilters
      BY DEF AllowedFilters
    <3> QED
      BY <3>1, <3>2
  <2> QED
    BY <1>1, <2>1, <2>2
<1>4. given.orderBy = "" => q.api = "grpc" /\ q.orderBy = ""
  BY <1>1 DEF Params, RestParams, GrpcParams
<1>5. /\ DOMAIN given = {"limit", "offset", "orderBy", "desc", "filters"}
      /\ \E a, b, c, d, e : given = [limit |-> a, offset |-> b, orderBy |-> c, desc |-> d, filters |-> e]
  BY <1>1 DEF Params, RestParams, GrpcParams
<1> HIDE DEF given
<1>6. /\ p.limit = given.limit /\ p.offset = given.offset
      /\ p.filters = {f \in given.filters : f.field \in AllowedFilters}
      /\ p.orderBy = IF given.orderBy # "" /\ given.orderBy \notin Columns
                     THEN "created_at" ELSE given.orderBy
  <2>1. p = [given EXCEPT !.filters = {f \in @ : f.field \in AllowedFilters},
                          !.orderBy = IF @ # "" /\ @ \notin Columns THEN "created_at" ELSE @]
    BY DEF Admitted, given
  <2> QED
    BY <1>5, <2>1
<1> HIDE DEF p
<1>7. /\ CountIsValid(p) <=> \A f \in p.filters : f.text
      /\ \A f \in p.filters : f.field \in AllowedFilters
  BY <1>6 DEF CountIsValid, Columns
<1>8. "created_at" \in Columns
  BY DEF Columns
<1>9. p = Admitted(Params(q))
  BY DEF p
<1> QED
  BY <1>2, <1>3, <1>4, <1>6, <1>7, <1>8, <1>9

-----------------------------------------------------------------------------
(* Pages *)

\* A set of rows that are told apart by their creation times is finite.
LEMMA DatedRowsAreFinite ==
    ASSUME NEW t \in SUBSET Row, \A u, v \in t : u.created_at = v.created_at => u = v, NEW p
    PROVE  /\ IsFiniteSet(Matching(t, p)) /\ Matching(t, p) \subseteq Row
           /\ Cardinality(Matching(t, p)) \in 0..MaxRows
<1> DEFINE f == [u \in t |-> u.created_at]
<1>1. f \in Injection(t, 1..MaxRows)
  BY DEF Injection, IsInjective, Row
<1>2. MaxRows \in Nat
  BY ListingBoundsAssumption
<1>3. IsFiniteSet(1..MaxRows) /\ Cardinality(1..MaxRows) = MaxRows
  BY <1>2, FS_Interval
<1> HIDE DEF f
<1>4. IsFiniteSet(t) /\ Cardinality(t) <= MaxRows
  BY <1>1, <1>3, FS_Injection
<1>5. Cardinality(t) \in Nat
  BY <1>4, FS_CardinalityType
<1>6. Matching(t, p) \in SUBSET t
  BY DEF Matching
<1>7. IsFiniteSet(Matching(t, p)) /\ Cardinality(Matching(t, p)) <= Cardinality(t)
  BY <1>4, <1>6, FS_Subset
<1>8. Cardinality(Matching(t, p)) \in Nat
  BY <1>7, FS_CardinalityType
<1> QED
  BY <1>2, <1>4, <1>5, <1>6, <1>7, <1>8

\* So the users that match a query are finitely many.
LEMMA RowsAreFinite ==
    ASSUME Rows
    PROVE  \A p : /\ IsFiniteSet(Matching(table, p)) /\ Matching(table, p) \subseteq Row
                 /\ Cardinality(Matching(table, p)) \in 0..MaxRows
  BY DatedRowsAreFinite DEF Rows

\* A page of n rows that come in some order: it holds no more than the limit,
\* nothing if there are no more rows than are skipped, and something otherwise.
LEMMA SliceOfRows ==
    ASSUME NEW R, NEW n \in Nat, NEW rows \in [1..n -> R], NEW p,
           p.offset \in Nat, p.limit \in Nat \ {0}
    PROVE  /\ Slice(rows, p) \in Seq(R)
           /\ Len(Slice(rows, p)) <= p.limit
           /\ p.offset >= n => Slice(rows, p) = <<>>
           /\ p.offset < n => Slice(rows, p) # <<>>
<1>1. rows \in Seq(R) /\ Len(rows) = n
  OBVIOUS
<1> DEFINE from == p.offset + 1
           to   == Least(p.offset + p.limit, n)
<1>2. /\ from \in Int /\ to \in Int /\ to <= n /\ to <= p.offset + p.limit /\ from >= 1
      /\ to = n \/ to = p.offset + p.limit
  BY DEF Least
<1>3. Slice(rows, p) = SubSeq(rows, from, to)
  BY <1>1 DEF Slice
<1>4. \A i \in from..to : rows[i] \in R
  BY <1>2
<1> HIDE DEF from, to
<1>5. /\ SubSeq(rows, from, to) \in Seq(R)
      /\ Len(SubSeq(rows, from, to)) = IF from <= to THEN to - from + 1 ELSE 0
  BY <1>2, <1>4, SubSeqProperties
<1>6. Len(Slice(rows, p)) = IF from <= to THEN to - from + 1 ELSE 0
  BY <1>3, <1>5
<1>7. Len(Slice(rows, p)) <= p.limit
  <2>1. p.offset \in Nat /\ p.limit \in Nat /\ from = p.offset + 1
    BY DEF from
  <2>2. to - from + 1 <= p.limit /\ 0 <= p.limit
    BY <1>2, <2>1
  <2> QED
    BY <1>6, <2>2
<1>8. ASSUME p.offset >= n PROVE Slice(rows, p) = <<>>
  <2>1. to < from
    BY <1>2, <1>8 DEF from
  <2> QED
    BY <1>2, <1>3, <2>1, SubSeqEmpty
<1>9. ASSUME p.offset < n PROVE Slice(rows, p) # <<>>
  <2>1. from <= to
    BY <1>2, <1>9 DEF from
  <2>2. Len(Slice(rows, p)) >= 1
    BY <1>2, <1>6, <2>1
  <2>3. Len(<<>>) = 0
    OBVIOUS
  <2> QED
    BY <2>2, <2>3
<1> QED
  BY <1>3, <1>5, <1>7, <1>8, <1>9

-----------------------------------------------------------------------------
(* What the parameters of a page have to do with the rows *)

\* All pages of a query match the same users and come in the same order.
LEMMA PagesOfAQuery ==
    ASSUME NEW q \in Query, NEW k \in Nat
    PROVE  LET r == [q EXCEPT !.page = k] IN
           /\ r \in Query /\ r.page = k /\ r.api = q.api /\ r.limit = q.limit
           /\ Admitted(Params(r)).orderBy = Admitted(Params(q)).orderBy
           /\ Admitted(Params(r)).desc = Admitted(Params(q)).desc
           /\ CountIsValid(Admitted(Params(r))) <=> CountIsValid(Admitted(Params(q)))
           /\ \A t : Matching(t, Admitted(Params(r))) = Matching(t, Admitted(Params(q)))
<1> DEFINE r == [q EXCEPT !.page = k]
<1>1. /\ r \in Query /\ r.page = k /\ r.api = q.api /\ r.limit = q.limit
      /\ r.orderBy = q.orderBy /\ r.desc = q.desc /\ r.filters = q.filters
      /\ q.api \in {"rest", "grpc"}
  BY DEF Query
<1> HIDE DEF r
<1>2. Admitted(Params(r)).filters = Admitted(Params(q)).filters
  BY <1>1, SentFields
<1>3. Params(r).orderBy = Params(q).orderBy /\ Params(r).desc = Params(q).desc
  BY <1>1 DEF Params, RestParams, GrpcParams
<1>4. ASSUME NEW x \in Query
      PROVE  /\ Admitted(Params(x)).desc = Params(x).desc
             /\ Admitted(Params(x)).orderBy
                  = IF Params(x).orderBy # "" /\ Params(x).orderBy \notin Columns
                    THEN "created_at" ELSE Params(x).orderBy
  BY DEF Query, Params, RestParams, GrpcParams, Admitted
<1>5. /\ Admitted(Params(r)).orderBy = Admitted(Params(q)).orderBy
      /\ Admitted(Params(r)).desc = Admitted(Params(q)).desc
  BY <1>1, <1>3, <1>4
<1>6. \A t : Matching(t, Admitted(Params(r))) = Matching(t, Admitted(Params(q)))
  BY <1>2 DEF Matching
<1>7. CountIsValid(Admitted(Params(r))) <=> CountIsValid(Admitted(Params(q)))
  BY <1>2 DEF CountIsValid
<1> QED
  BY <1>1, <1>5, <1>6, <1>7 DEF r

\* No user comes before the first page.
LEMMA FirstPageSkipsNobody ==
    ASSUME NEW q \in Query, ~ (Page(q) > 1)
    PROVE  Skipped(q) = 0
<1>1. Page(q) \in Nat /\ Page(q) >= 1 /\ Limit(q) \in 1..MaxInt
  BY PageAndLimit
<1>2. Page(q) - 1 = 0
  BY <1>1
<1>3. Skipped(q) = 0 * Limit(q)
  BY <1>2 DEF Skipped
<1> QED
  BY <1>1, <1>3

\* has_more says whether users come after the page, if the page is the first one or
\* was not beyond the last user.
LEMMA MoreIsTrue ==
    ASSUME NEW q \in Query, NEW total \in 0..MaxRows, Page(q) > 1 => Skipped(q) < MaxRows
    PROVE  HasMore(Admitted(Params(q)), total) <=> Skipped(q) + Limit(q) < total
<1>1. /\ Page(q) \in Nat /\ Page(q) >= 1 /\ Skipped(q) \in Nat /\ Limit(q) \in 1..MaxInt
      /\ Page(q) > 1 => Limit(q) <= Skipped(q)
  BY PageAndLimit
<1>2. MaxInt \in Nat /\ MaxRows \in Nat /\ 2 * MaxRows <= MaxInt
  BY IntIsWide, ListingBoundsAssumption
<1>3. Skipped(q) + Limit(q) \in 0..MaxInt /\ Skipped(q) \in 0..MaxInt
  <2>1. CASE Page(q) > 1
    BY <1>1, <1>2, <2>1
  <2>2. CASE ~ (Page(q) > 1)
    BY <1>1, <1>2, <2>2, FirstPageSkipsNobody
  <2> QED
    BY <2>1, <2>2
<1> DEFINE p == Admitted(Params(q))
<1>4. p.limit = Limit(q) /\ p.offset = Wrap(Skipped(q))
  BY SentFields
<1>5. p.offset = Skipped(q)
  BY <1>3, <1>4, FittingInt
<1>6. Wrap(Skipped(q) + Limit(q)) = Skipped(q) + Limit(q)
  BY <1>3, FittingInt
<1>7. Wrap(p.offset + p.limit) = Skipped(q) + Limit(q) /\ p.limit \in Nat \ {0}
  <2>1. p.offset + p.limit = Skipped(q) + Limit(q)
    BY <1>4, <1>5
  <2>2. Limit(q) \in Nat \ {0}
    BY <1>1, <1>2
  <2> QED
    BY <1>4, <1>6, <2>1, <2>2
<1>8. HasMore(p, total) <=> p.limit > 0 /\ total > Wrap(p.offset + p.limit)
  BY DEF HasMore
<1> HIDE DEF p
<1>9. HasMore(p, total) <=> Skipped(q) + Limit(q) < total
  BY <1>1, <1>2, <1>7, <1>8
<1> QED
  BY <1>9 DEF p

\* The offset of a gRPC page is never cut off: int has room for the product of
\* two int32.
LEMMA GrpcOffsetsFit ==
    ASSUME NEW q \in Query, q.page <= MaxInt32, q.limit <= MaxInt32
    PROVE  Skipped(q) \in 0..MaxInt /\ Admitted(Params(q)).offset = Skipped(q)
<1>1. q.page \in Nat /\ q.limit \in Nat
  BY DEF Query
<1> DEFINE n == Page(q) - 1
           l == Limit(q)
<1>2. n \in Nat /\ n <= MaxInt32 /\ l \in Nat /\ l <= MaxInt32
  BY <1>1, IntIsWide, ListingBoundsAssumption DEF Page, Limit, Given
<1> HIDE DEF n, l
<1>3. n * l <= MaxInt32 * MaxInt32 /\ n * l \in Nat
  BY <1>2, IntIsWide, ProductGrows
<1> DEFINE m == MaxInt32 * MaxInt32
<1>4. m \in Nat /\ m <= MaxInt /\ n * l <= m
  BY <1>3, IntIsWide
<1> HIDE DEF m
<1> DEFINE s == n * l
<1>5. s \in Nat /\ s <= m
  BY <1>3, <1>4
<1> HIDE DEF s
<1>6. s \in 0..MaxInt
  BY <1>4, <1>5, IntIsWide
<1>7. Skipped(q) = s
  BY DEF Skipped, s, n, l
<1> QED
  BY <1>6, <1>7, FittingInt, SentFields

\* An activation that has answered nothing yet has no users to show.
LEMMA NothingShown ==
    ASSUME NEW q \in Query
    PROVE  /\ Asked(q) \in Listing /\ Asked(q).query = q /\ Asked(q).users = <<>>
           /\ Asked(q).pc = "count" /\ Asked(q).err = "ok" /\ ~ Asked(q).hasMore
           /\ Asked(q).total = 0
           /\ Len(<<>>) <= Admitted(Params(q)).limit
<1>1. 0 \in 0..MaxRows /\ <<>> \in Seq(Row)
  BY ListingBoundsAssumption
<1>2. Len(<<>>) = 0
  OBVIOUS
<1>3. Limit(q) \in Nat
  BY PageAndLimit, IntIsWide
<1>4. Len(<<>>) <= Admitted(Params(q)).limit
  <2>1. Admitted(Params(q)).limit = Limit(q)
    BY SentFields
  <2> QED
    BY <1>2, <1>3, <2>1
<1>5. Asked(q) \in Listing
  <2>1. {0} \subseteq 0..MaxRows
    BY <1>1
  <2> HIDE DEF Listing
  <2> DEFINE a == Asked(q)
  <2>2. a = [pc |-> "count", query |-> q, total |-> 0, users |-> <<>>,
             hasMore |-> FALSE, err |-> "ok"]
    BY DEF Asked
  <2> HIDE DEF a
  <2>3. a \in Listing
    BY <1>1, <2>2, Zenon DEF Listing
  <2> QED
    BY <2>3 DEF a
<1>6. /\ Asked(q).query = q /\ Asked(q).users = <<>> /\ Asked(q).pc = "count"
      /\ Asked(q).err = "ok" /\ ~ Asked(q).hasMore /\ Asked(q).total = 0
  BY DEF Asked
<1> QED
  BY <1>4, <1>5, <1>6

-----------------------------------------------------------------------------
(* The initial states, and the steps of the listing *)

\* sent is made from the query alone.
LEMMA SentIs == sent = Admitted(Params(list.query))
  BY DEF sent

\* In the beginning nobody has asked for anything.
LEMMA NothingAskedYet == Init => ListingInv
<1> SUFFICES ASSUME Init PROVE ListingInv
  OBVIOUS
<1>1. /\ writes = 0 /\ list = [Asked(NoQuery) EXCEPT !.pc = "idle"]
      /\ walk = [since |-> {}, kinds |-> {}, seen |-> <<>>, whole |-> FALSE]
  BY DEF Init
<1>2. NoQuery \in Query
  BY DEF NoQuery, Query
<1>3. /\ list \in Listing /\ list.query = NoQuery /\ list.pc = "idle" /\ list.users = <<>>
      /\ ~ list.hasMore /\ list.err = "ok"
  <2> DEFINE a == Asked(NoQuery)
  <2>1. a \in Listing /\ a.query = NoQuery /\ a.users = <<>> /\ ~ a.hasMore /\ a.err = "ok"
    BY <1>2, NothingShown
  <2> HIDE DEF a
  <2>2. list = [a EXCEPT !.pc = "idle"]
    BY <1>1 DEF a
  <2> QED
    BY <2>1, <2>2 DEF Listing
<1>4. Rows
  <2>1. PICK times \in SUBSET (1..MaxRows) : \E country \in [times -> Countries] :
           table = {[created_at |-> n, country |-> country[n]] : n \in times}
    BY DEF Init
  <2>2. PICK country \in [times -> Countries] :
           table = {[created_at |-> n, country |-> country[n]] : n \in times}
    BY <2>1
  <2>3. \A n \in times : n \in 1..MaxRows /\ country[n] \in Countries
    BY <2>1, <2>2
  <2>4. table \subseteq Row
    BY <2>2, <2>3 DEF Row
  <2>5. \A u \in table : \E n \in times : u = [created_at |-> n, country |-> country[n]]
    BY <2>2
  <2>6. \A u, v \in table : u.created_at = v.created_at => u = v
    BY <2>5
  <2>7. writes \in 0..MaxWrites
    BY <1>1, ListingBoundsAssumption
  <2> QED
    BY <2>4, <2>6, <2>7 DEF Rows
<1>5. walk \in Walk /\ ~ walk.whole
  BY <1>1 DEF Walk
<1>6. Len(list.users) <= sent.limit
  BY <1>2, <1>3, NothingShown, SentIs
<1>7. NoQuery.api = "rest"
  BY DEF NoQuery
<1>8. Shapes
  BY <1>3, <1>4, <1>5, <1>6, <1>7 DEF Shapes
<1> QED
  BY <1>3, <1>5, <1>7, <1>8 DEF ListingInv, ParametersAreSafe, DeepPagesAreEmpty, OnTheWay,
                                NextPageShowsUsers

\* A query is answered anew.
LEMMA AskKeeps == ASSUME ListingInv, NEW q \in Queries, Ask(q) PROVE ListingInv'
<1>1. /\ q \in Query /\ q.page \in Nat
      /\ q.api = "grpc" => q.page <= MaxInt32 /\ q.limit <= MaxInt32
  BY QueriesAssumption DEF Query
<1>2. /\ list' = Asked(q) /\ table' = table /\ writes' = writes
      /\ walk' = [since |-> table, kinds |-> {}, seen |-> <<>>, whole |-> q.page <= 1]
  BY DEF Ask
<1>3. /\ list' \in Listing /\ list.query' = q /\ list.users' = <<>> /\ list.pc' = "count"
      /\ list.err' = "ok" /\ ~ list.hasMore'
  BY <1>1, <1>2, NothingShown
<1>4. Len(list.users') <= sent.limit'
  BY <1>1, <1>3, NothingShown DEF sent
<1>5. Rows' /\ walk' \in Walk
  BY <1>2 DEF ListingInv, Shapes, Rows, Walk
<1>6. Shapes'
  BY <1>1, <1>3, <1>4, <1>5 DEF Shapes
<1>7. ParametersAreSafe' /\ DeepPagesAreEmpty' /\ NextPageShowsUsers'
  BY <1>3 DEF ParametersAreSafe, DeepPagesAreEmpty, NextPageShowsUsers
<1>8. ASSUME q.page <= 1 PROVE Page(q) = 1
  BY <1>1, <1>8, IntIsWide DEF Page, Given
<1>9. walk.whole' => ~ (Page(q) > 1)
  <2>1. walk.whole' = (q.page <= 1)
    BY <1>2
  <2>2. Page(q) = 1 => ~ (Page(q) > 1)
    OBVIOUS
  <2> QED
    BY <1>8, <2>1, <2>2
<1>10. OnTheWay'
  BY <1>3, <1>9 DEF OnTheWay, Page
<1> QED
  BY <1>6, <1>7, <1>10 DEF ListingInv

\* A failed statement leaves the listing without users.
LEMMA FailKeeps ==
    ASSUME ListingInv, list.pc \in {"count", "select"}, NEW e \in {"rejected", "unavailable"},
           Fail(e),
           e = "rejected" => ~ SelectIsValid(sent)
    PROVE  ListingInv'
<1>1. /\ list' = [list EXCEPT !.pc = "replied", !.err = e]
      /\ table' = table /\ writes' = writes /\ walk' = walk
  BY DEF Fail
<1>2. /\ list' \in Listing /\ list.query' = list.query /\ list.users' = <<>> /\ list.err' = e
      /\ list.pc' = "replied" /\ ~ list.hasMore' /\ list.query \in Query
  <2>1. /\ list \in Listing /\ list.users = <<>> /\ ~ list.hasMore
    BY DEF ListingInv, Shapes
  <2> DEFINE b == [list EXCEPT !.pc = "replied"]
  <2>2. /\ b \in Listing /\ b.query = list.query /\ b.users = <<>> /\ b.pc = "replied"
        /\ ~ b.hasMore
    BY <2>1 DEF Listing
  <2>3. list' = [b EXCEPT !.err = e]
    BY <1>1, <2>1 DEF Listing
  <2> HIDE DEF b
  <2> QED
    BY <2>1, <2>2, <2>3 DEF Listing
<1>3. sent' = sent /\ There' = There
  BY <1>1, <1>2 DEF sent, There
<1>4. Shapes'
  <2>1. Len(list.users') <= sent.limit'
    BY <1>2, <1>3 DEF ListingInv, Shapes
  <2>2. Rows' /\ walk' \in Walk
    BY <1>1 DEF ListingInv, Shapes, Rows
  <2>3. list.query'.api = "grpc" => list.query'.page <= MaxInt32 /\ list.query'.limit <= MaxInt32
    BY <1>2 DEF ListingInv, Shapes
  <2> QED
    BY <1>2, <2>1, <2>2, <2>3 DEF Shapes
<1>5. DeepPagesAreEmpty'
  BY <1>2 DEF DeepPagesAreEmpty
<1>6. ASSUME e = "rejected", NEW k \in Nat, Skipped(list.query) = k
      PROVE  \/ \E f \in sent.filters : f.field \in AllowedFilters /\ ~ f.text
             \/ list.query.api = "grpc" /\ list.query.orderBy = ""
             \/ k > MaxInt
  <2>1. ~ (CountIsValid(sent) /\ sent.orderBy \in Columns /\ sent.offset >= 0)
    BY <1>6 DEF SelectIsValid
  <2>4. CASE ~ CountIsValid(sent)
    BY <1>2, <2>4, SentFields, SentIs
  <2>2. CASE sent.orderBy \notin Columns
    BY <1>2, <2>2, SentFields, SentIs
  <2>3. CASE ~ (sent.offset >= 0)
    <3>1. sent.offset = Wrap(k)
      BY <1>2, <1>6, SentFields, SentIs
    <3>2. k \in 0..MaxInt => Wrap(k) = k
      BY FittingInt
    <3>3. k \notin 0..MaxInt
      BY <1>6, <2>3, <3>1, <3>2
    <3>4. MaxInt \in Nat
      BY IntIsWide
    <3>5. k > MaxInt
      <4> DEFINE most == MaxInt
      <4>1. most \in Nat /\ k \notin 0..most
        BY <3>3, <3>4
      <4> HIDE DEF most
      <4>2. k > most
        BY <4>1
      <4> QED
        BY <4>2 DEF most
    <3> QED
      BY <3>5
  <2> QED
    BY <2>1, <2>2, <2>3, <2>4
<1>7. Skipped(list.query) \in Nat
  BY <1>2, PageAndLimit
<1>8. ParametersAreSafe'
  BY <1>2, <1>3, <1>6, <1>7 DEF ParametersAreSafe, Skipped, Page, Limit
<1>9. OnTheWay'
  BY <1>1, <1>2, <1>3 DEF ListingInv, OnTheWay, Accepted
<1>10. NextPageShowsUsers'
  <2> SUFFICES ASSUME e = "rejected", walk.whole, Page(list.query) > 1,
                      walk.kinds \subseteq {"insert", "late"}
               PROVE  FALSE
    BY <1>1, <1>2 DEF NextPageShowsUsers, Page
  <2>1. CountIsValid(sent) /\ sent.orderBy \in Columns /\ Skipped(list.query) < There
    BY DEF ListingInv, OnTheWay, Accepted
  <2>2. There \in 0..MaxRows /\ MaxRows \in Nat
    BY RowsAreFinite, ListingBoundsAssumption DEF ListingInv, Shapes, There
  <2>3. Skipped(list.query) \in 0..MaxInt
    BY <1>7, <2>1, <2>2, IntIsWide, ListingBoundsAssumption
  <2>4. sent.offset >= 0
    <3>1. sent.offset = Wrap(Skipped(list.query))
      BY <1>2, SentFields, SentIs
    <3>2. Wrap(Skipped(list.query)) = Skipped(list.query)
      BY <2>3, FittingInt
    <3> QED
      BY <1>7, <3>1, <3>2
  <2> QED
    BY <2>1, <2>4 DEF SelectIsValid
<1> QED
  BY <1>4, <1>5, <1>8, <1>9, <1>10 DEF ListingInv

\* Counting the users changes none of them.
LEMMA CountKeeps == ASSUME ListingInv, Count PROVE ListingInv'
<1>1. list \in Listing /\ list.query \in Query /\ list.pc = "count"
  BY DEF ListingInv, Shapes, Listing, Count
<1>3. ASSUME NEW e \in ErrorsOf(CountIsValid(sent)), Fail(e) PROVE ListingInv'
  <2>1. e \in {"rejected", "unavailable"} /\ (e = "rejected" => ~ SelectIsValid(sent))
    BY DEF ErrorsOf, SelectIsValid
  <2> QED
    BY <1>1, <1>3, <2>1, FailKeeps
<1>4. ASSUME list' = [list EXCEPT !.pc = "select", !.total = Cardinality(Matching(table, sent))],
             UNCHANGED <<table, writes, walk>>
      PROVE  ListingInv'
  <2>1. There \in 0..MaxRows
    BY RowsAreFinite DEF ListingInv, Shapes, There
  <2>2. list.users = <<>> /\ ~ list.hasMore /\ list.err = "ok"
    BY <1>1 DEF ListingInv, Shapes
  <2>3. /\ list' \in Listing /\ list.query' = list.query /\ list.users' = <<>>
        /\ list.pc' = "select" /\ ~ list.hasMore' /\ list.err' = "ok" /\ list.total' = There
    <3> DEFINE b == [list EXCEPT !.pc = "select"]
    <3>1. /\ b \in Listing /\ b.query = list.query /\ b.users = <<>> /\ b.pc = "select"
          /\ ~ b.hasMore /\ b.err = "ok"
      BY <1>1, <2>2 DEF Listing
    <3>2. list' = [b EXCEPT !.total = There]
      BY <1>1, <1>4 DEF Listing, There
    <3> HIDE DEF b
    <3> QED
      BY <2>1, <3>1, <3>2 DEF Listing
  <2>4. sent' = sent /\ There' = There /\ table' = table /\ walk' = walk
    BY <1>4, <2>3 DEF sent, There
  <2>5. There <= There'
    BY <2>1, <2>4
  <2>6. Shapes'
    <3>1. Rows' /\ walk' \in Walk
      BY <1>4 DEF ListingInv, Shapes, Rows
    <3>2. Len(list.users') <= sent.limit'
      BY <2>2, <2>3, <2>4 DEF ListingInv, Shapes
    <3>3. list.query'.api = "grpc" => list.query'.page <= MaxInt32 /\ list.query'.limit <= MaxInt32
      BY <2>3 DEF ListingInv, Shapes
    <3> QED
      BY <2>3, <3>1, <3>2, <3>3 DEF Shapes
  <2>7. ParametersAreSafe' /\ DeepPagesAreEmpty' /\ NextPageShowsUsers'
    BY <2>3 DEF ParametersAreSafe, DeepPagesAreEmpty, NextPageShowsUsers
  <2>8. OnTheWay'
    BY <1>1, <2>3, <2>4, <2>5 DEF ListingInv, OnTheWay, Accepted
  <2> QED
    BY <2>6, <2>7, <2>8 DEF ListingInv
<1> QED
  BY <1>3, <1>4 DEF Count

\* The page is taken from the rows there are now, whatever their number was when
\* they were counted.
LEMMA SelectKeeps == ASSUME ListingInv, Select PROVE ListingInv'
<1>1. /\ list \in Listing /\ list.query \in Query /\ list.pc = "select"
      /\ list.users = <<>> /\ ~ list.hasMore /\ list.err = "ok" /\ list.total \in 0..MaxRows
  BY DEF ListingInv, Shapes, Listing, Select
<1>2. ASSUME NEW e \in ErrorsOf(SelectIsValid(sent)), Fail(e) PROVE ListingInv'
  <2>1. e \in {"rejected", "unavailable"} /\ (e = "rejected" => ~ SelectIsValid(sent))
    BY DEF ErrorsOf
  <2> QED
    BY <1>1, <1>2, <2>1, FailKeeps
<1> DEFINE R == Matching(table, sent)
           q == list.query
<1>3. ASSUME NEW rows \in Orderings(R, sent), SelectIsValid(sent),
             list' = [list EXCEPT !.pc = "replied", !.users = Slice(rows, sent),
                                  !.hasMore = HasMore(sent, list.total)],
             walk' = [walk EXCEPT !.seen = @ \o Slice(rows, sent)],
             UNCHANGED <<table, writes>>
      PROVE  ListingInv'
  <2>1. There = Cardinality(R) /\ There \in 0..MaxRows /\ R \subseteq Row
    BY RowsAreFinite DEF ListingInv, Shapes, There
  <2>2. rows \in [1..There -> Row]
    BY <2>1 DEF Orderings
  <2>3. /\ sent.limit = Limit(q) /\ sent.offset = Wrap(Skipped(q)) /\ Limit(q) \in Nat \ {0}
        /\ Skipped(q) \in Nat
    <3>1. sent.limit = Limit(q) /\ sent.offset = Wrap(Skipped(q))
      BY <1>1, SentFields, SentIs
    <3>2. Limit(q) \in 1..MaxInt /\ Skipped(q) \in Nat
      BY <1>1, PageAndLimit
    <3>3. MaxInt \in Nat
      BY IntIsWide
    <3>4. Limit(q) \in Nat \ {0}
      BY <3>2, <3>3
    <3> QED
      BY <3>1, <3>2, <3>4
  <2>4. sent.offset \in Nat /\ sent.orderBy \in Columns
    <3>1. sent.offset \in Int
      BY <2>3, WrappedInt
    <3> QED
      BY <1>3, <3>1 DEF SelectIsValid
  <2> DEFINE page == Slice(rows, sent)
             more == HasMore(sent, list.total)
  <2>5. /\ page \in Seq(Row) /\ Len(page) <= sent.limit
        /\ sent.offset >= There => page = <<>>
        /\ sent.offset < There => page # <<>>
    <3>1. There \in Nat /\ sent.limit \in Nat \ {0}
      BY <2>1, <2>3
    <3> QED
      BY <2>2, <2>4, <3>1, SliceOfRows
  <2>6. more \in BOOLEAN
    BY DEF HasMore
  <2> HIDE DEF page, more
  <2>7. /\ list' \in Listing /\ list.query' = q /\ list.users' = page /\ list.pc' = "replied"
        /\ list.hasMore' = more /\ list.err' = "ok" /\ list.total' = list.total
    <3> DEFINE b == [list EXCEPT !.pc = "replied"]
               c == [b EXCEPT !.users = page]
    <3>1. /\ b \in Listing /\ b.query = q /\ b.pc = "replied" /\ b.err = "ok"
          /\ b.total = list.total
      BY <1>1 DEF Listing
    <3>2. list' = [c EXCEPT !.hasMore = more]
      BY <1>1, <1>3 DEF Listing, page, more
    <3> HIDE DEF b
    <3>3. /\ c \in Listing /\ c.query = q /\ c.pc = "replied" /\ c.err = "ok"
          /\ c.total = list.total /\ c.users = page
      BY <2>5, <3>1 DEF Listing
    <3> HIDE DEF c
    <3> QED
      BY <2>6, <3>2, <3>3 DEF Listing
  <2>8. /\ walk' \in Walk /\ walk.whole' = walk.whole /\ walk.kinds' = walk.kinds
    <3>1. walk \in Walk
      BY DEF ListingInv, Shapes
    <3>2. walk.seen \o page \in Seq(Row) /\ walk' = [walk EXCEPT !.seen = walk.seen \o page]
      BY <1>3, <2>5, <3>1 DEF Walk, page
    <3> QED
      BY <3>1, <3>2 DEF Walk
  <2>9. sent' = sent /\ There' = There /\ table' = table
    BY <1>3, <2>7 DEF sent, There
  <2>10. Shapes'
    <3>1. Rows'
      BY <1>3 DEF ListingInv, Shapes, Rows
    <3>2. Len(list.users') <= sent.limit'
      BY <2>5, <2>7, <2>9
    <3>3. list.query'.api = "grpc" => list.query'.page <= MaxInt32 /\ list.query'.limit <= MaxInt32
      BY <2>7 DEF ListingInv, Shapes
    <3> QED
      BY <2>7, <2>8, <3>1, <3>2, <3>3 DEF Shapes
  <2>11. ParametersAreSafe'
    BY <2>7 DEF ParametersAreSafe
  <2>12. MaxRows \in Nat /\ MaxInt \in Nat /\ 2 * MaxRows <= MaxInt
    BY IntIsWide, ListingBoundsAssumption
  <2>13. DeepPagesAreEmpty'
    <3> SUFFICES ASSUME q.api = "grpc", Skipped(q) >= MaxRows PROVE page = <<>>
      BY <2>7 DEF DeepPagesAreEmpty, Skipped, Page, Limit
    <3>1. sent.offset = Skipped(q)
      BY <1>1, SentIs, GrpcOffsetsFit DEF ListingInv, Shapes
    <3>2. sent.offset >= There
      BY <2>1, <2>3, <2>12, <3>1
    <3> QED
      BY <2>5, <3>2
  <2>14. ASSUME walk.whole, walk.kinds \subseteq {"insert", "late"}
         PROVE  /\ Page(q) > 1 => Skipped(q) < There /\ sent.offset = Skipped(q)
                /\ list.total <= There
    <3>1. (Page(q) > 1 => Skipped(q) < There) /\ list.total <= There
      BY <1>1, <2>14 DEF ListingInv, OnTheWay
    <3>2. Skipped(q) < There => Skipped(q) \in 0..MaxInt
      BY <2>1, <2>3, <2>12
    <3>3. Skipped(q) < There => sent.offset = Skipped(q)
      BY <2>3, <3>2, FittingInt
    <3> QED
      BY <3>1, <3>3
  <2>15. OnTheWay'
    <3> SUFFICES ASSUME walk.whole, walk.kinds \subseteq {"insert", "late"}
                 PROVE  /\ Page(q) > 1 => Skipped(q) < There
                        /\ more => /\ Skipped(q) + Limit(q) < list.total
                                   /\ list.total <= There
      <4>1. Accepted'
        BY <1>3, <2>4, <2>9 DEF Accepted, SelectIsValid
      <4> QED
        BY <2>7, <2>8, <2>9, <4>1 DEF OnTheWay
    <3>1. Page(q) > 1 => Skipped(q) < MaxRows
      BY <2>1, <2>3, <2>12, <2>14
    <3>2. more => Skipped(q) + Limit(q) < list.total
      BY <1>1, <3>1, MoreIsTrue, SentIs DEF more
    <3> QED
      BY <2>14, <3>2
  <2>16. NextPageShowsUsers'
    <3> SUFFICES ASSUME walk.whole, walk.kinds \subseteq {"insert", "late"}, Page(q) > 1
                 PROVE  page # <<>>
      BY <2>7, <2>8 DEF NextPageShowsUsers, Page
    <3>1. sent.offset < There
      BY <2>14
    <3> QED
      BY <2>5, <3>1
  <2> QED
    BY <2>10, <2>11, <2>13, <2>15, <2>16 DEF ListingInv
<1> QED
  BY <1>2, <1>3 DEF Select

\* The next page begins where this one ends: its number is still an int when there
\* are users to show.
LEMMA NextPageFollows ==
    ASSUME NEW q \in Query, Skipped(q) + Limit(q) < MaxRows,
           NEW r \in Query, r.page = Page(q) + 1, r.limit = q.limit
    PROVE  Skipped(r) = Skipped(q) + Limit(q)
<1> DEFINE n == Page(q) - 1
           l == Limit(q)
           k == Page(q) + 1
<1>1. /\ Page(q) \in Nat /\ Page(q) >= 1 /\ Limit(q) \in 1..MaxInt /\ Skipped(q) \in Nat
  BY PageAndLimit
<1>2. MaxRows \in Nat /\ MaxInt \in Nat /\ 2 * MaxRows <= MaxInt
  BY IntIsWide, ListingBoundsAssumption
<1>3. n \in Nat /\ l \in Nat /\ l >= 1 /\ k = n + 2
  BY <1>1, <1>2
<1>4. Skipped(q) = n * l
  BY DEF Skipped
<1> HIDE DEF n, l, k
<1>5. n * 1 <= n * l /\ n * l \in Nat
  BY <1>3, ProductGrows
<1>6. Skipped(q) >= n
  BY <1>3, <1>4, <1>5
<1>7. l + n <= MaxRows
  BY <1>1, <1>2, <1>3, <1>6 DEF l
<1>8. k \in 1..MaxInt
  BY <1>2, <1>3, <1>7
<1>9. Page(r) = k /\ Limit(r) = l
  BY <1>8 DEF Page, Limit, Given, l, k
<1>10. Skipped(r) = (k - 1) * l
  BY <1>9 DEF Skipped
<1>11. k - 1 = n + 1
  BY <1>3
<1>12. (n + 1) * l = n * l + l
  BY <1>3
<1> QED
  BY <1>4, <1>10, <1>11, <1>12 DEF l

\* The next page begins where this one ended, and has_more said that a user is there.
LEMMA NextPageKeeps == ASSUME ListingInv, NextPage PROVE ListingInv'
<1> DEFINE q == list.query
           k == Page(q) + 1
           r == [q EXCEPT !.page = k]
<1>1. /\ list \in Listing /\ q \in Query /\ list.pc = "replied" /\ list.hasMore
      /\ list' = Asked(r) /\ (r.api = "grpc" => r.page <= MaxInt32)
      /\ UNCHANGED <<table, writes, walk>>
  BY DEF ListingInv, Shapes, Listing, NextPage, MayGoOn, Page, Query
<1>2. /\ Page(q) \in Nat /\ Page(q) >= 1 /\ Limit(q) \in 1..MaxInt /\ Skipped(q) \in Nat
  BY <1>1, PageAndLimit
<1>3. k \in Nat /\ k >= 1
  BY <1>2
<1> HIDE DEF k
<1>4. /\ r \in Query /\ r.page = k /\ r.api = q.api /\ r.limit = q.limit
      /\ Admitted(Params(r)).orderBy = sent.orderBy
      /\ CountIsValid(Admitted(Params(r))) <=> CountIsValid(sent)
      /\ Matching(table, Admitted(Params(r))) = Matching(table, sent)
  BY <1>1, <1>3, PagesOfAQuery, SentIs
<1> HIDE DEF r
<1>5. /\ list' \in Listing /\ list.query' = r /\ list.users' = <<>> /\ list.pc' = "count"
      /\ list.err' = "ok" /\ ~ list.hasMore'
  BY <1>1, <1>4, NothingShown
<1>6. sent' = Admitted(Params(r))
  BY <1>5 DEF sent
<1>7. There' = There /\ (Accepted' <=> Accepted)
  BY <1>1, <1>4, <1>6 DEF There, Accepted
<1>8. Shapes'
  <2>1. Rows' /\ walk' \in Walk
    BY <1>1 DEF ListingInv, Shapes, Rows
  <2>2. Len(list.users') <= sent.limit'
    BY <1>4, <1>5, <1>6, NothingShown
  <2>3. r.api = "grpc" => r.page <= MaxInt32 /\ r.limit <= MaxInt32
    BY <1>1, <1>4 DEF ListingInv, Shapes
  <2> QED
    BY <1>5, <2>1, <2>2, <2>3 DEF Shapes
<1>9. ParametersAreSafe' /\ DeepPagesAreEmpty' /\ NextPageShowsUsers'
  BY <1>5 DEF ParametersAreSafe, DeepPagesAreEmpty, NextPageShowsUsers
<1>10. OnTheWay'
  <2> SUFFICES ASSUME walk.whole, walk.kinds \subseteq {"insert", "late"}
               PROVE  Accepted /\ Skipped(r) < There
    BY <1>1, <1>5, <1>7 DEF OnTheWay
  <2>1. /\ Accepted /\ Skipped(q) + Limit(q) < list.total
        /\ list.total <= There
    BY <1>1 DEF ListingInv, OnTheWay
  <2>2. There \in 0..MaxRows /\ list.total \in 0..MaxRows
    BY <1>1, RowsAreFinite DEF ListingInv, Shapes, There, Listing
  <2>3. MaxRows \in Nat /\ MaxInt \in Nat /\ 2 * MaxRows <= MaxInt
    BY IntIsWide, ListingBoundsAssumption
  <2>4. Skipped(q) + Limit(q) < MaxRows
    <3> DEFINE end == Skipped(q) + Limit(q)
    <3>1. end \in Nat
      BY <1>2, <2>3
    <3> HIDE DEF end
    <3>2. end < MaxRows
      BY <2>1, <2>2, <2>3, <3>1 DEF end
    <3> QED
      BY <3>2 DEF end
  <2>5. Skipped(r) = Skipped(q) + Limit(q)
    BY <1>1, <1>4, <2>4, NextPageFollows DEF k
  <2> QED
    BY <1>2, <2>1, <2>2, <2>3, <2>5
<1> QED
  BY <1>8, <1>9, <1>10 DEF ListingInv

-----------------------------------------------------------------------------
(* The writes of other requests *)

\* A write that leaves the rows well formed disturbs no listing, unless it lets
\* users disappear from it, which the walk remembers.
LEMMA WriteKeeps ==
    ASSUME ListingInv, NEW kind \in {"insert", "late", "update", "delete"}, NEW t,
           Write(kind, t), Rows', kind \in {"insert", "late"} => table \subseteq t
    PROVE  ListingInv'
<1>1. table' = t /\ list' = list /\ walk' = [walk EXCEPT !.kinds = @ \cup {kind}]
  BY DEF Write
<1>2. sent' = sent
  BY <1>1 DEF sent
<1>3. /\ walk' \in Walk /\ walk.whole' = walk.whole /\ walk.kinds' = walk.kinds \cup {kind}
  <2>1. walk \in Walk
    BY DEF ListingInv, Shapes
  <2> QED
    BY <1>1, <2>1 DEF Walk
<1>4. Shapes' /\ ParametersAreSafe' /\ DeepPagesAreEmpty'
  BY <1>1, <1>2, <1>3 DEF ListingInv, Shapes, ParametersAreSafe, DeepPagesAreEmpty
<1>5. NextPageShowsUsers'
  BY <1>1, <1>3 DEF ListingInv, NextPageShowsUsers
<1>6. OnTheWay'
  <2> SUFFICES ASSUME walk.whole, walk.kinds \cup {kind} \subseteq {"insert", "late"}
               PROVE  /\ list.pc # "idle" /\ Page(list.query) > 1 =>
                            Accepted /\ Skipped(list.query) < There'
                      /\ list.pc = "select" => list.total <= There'
                      /\ list.pc = "replied" /\ list.hasMore =>
                            /\ Accepted
                            /\ Skipped(list.query) + Limit(list.query) < list.total
                            /\ list.total <= There'
    BY <1>1, <1>2, <1>3 DEF OnTheWay, Accepted
  <2>1. Matching(table, sent) \in SUBSET Matching(t, sent)
    BY DEF Matching
  <2>2. There' = Cardinality(Matching(t, sent))
    BY <1>1, <1>2 DEF There
  <2>3. IsFiniteSet(Matching(t, sent)) /\ There' \in Nat
    <3>1. \A p : /\ IsFiniteSet(Matching(table', p))
                 /\ Cardinality(Matching(table', p)) \in 0..MaxRows
      BY DatedRowsAreFinite DEF Rows
    <3> QED
      BY <1>1, <2>2, <3>1, ListingBoundsAssumption
  <2>4. There <= There'
    BY <2>1, <2>2, <2>3, FS_Subset DEF There
  <2>5. There \in Nat
    BY RowsAreFinite, ListingBoundsAssumption DEF ListingInv, Shapes, There
  <2>6. /\ Skipped(list.query) \in Nat /\ list.total \in Nat
    BY PageAndLimit, ListingBoundsAssumption DEF ListingInv, Shapes, Listing
  <2>7. /\ list.pc # "idle" /\ Page(list.query) > 1 =>
              Accepted /\ Skipped(list.query) < There
        /\ list.pc = "select" => list.total <= There
        /\ list.pc = "replied" /\ list.hasMore =>
              /\ Accepted
              /\ Skipped(list.query) + Limit(list.query) < list.total /\ list.total <= There
    BY DEF ListingInv, OnTheWay
  <2>8. /\ Skipped(list.query) < There => Skipped(list.query) < There'
        /\ list.total <= There => list.total <= There'
    BY <2>3, <2>4, <2>5, <2>6
  <2> QED
    BY <2>7, <2>8
<1> QED
  BY <1>4, <1>5, <1>6 DEF ListingInv

\* A new user, late or not, has a time of its own.
LEMMA InsertKeeps ==
    ASSUME ListingInv, NEW n \in 1..MaxRows, NEW c \in Countries, Insert(n, c)
    PROVE  ListingInv'
<1> DEFINE u == [created_at |-> n, country |-> c]
<1>1. /\ Write(Arrival(n), table \cup {u}) /\ \A v \in table : v.created_at # n
      /\ table' = table \cup {u} /\ writes < MaxWrites /\ writes' = writes + 1
  BY DEF Insert, Write
<1>2. Rows /\ MaxWrites \in Nat
  BY ListingBoundsAssumption DEF ListingInv, Shapes
<1>3. u \in Row /\ u.created_at = n
  BY DEF Row
<1> HIDE DEF u
<1>4. writes' \in 0..MaxWrites
  BY <1>1, <1>2 DEF Rows
<1>5. Rows'
  BY <1>1, <1>2, <1>3, <1>4 DEF Rows
<1>6. Arrival(n) \in {"insert", "late"}
  BY DEF Arrival
<1> QED
  BY <1>1, <1>5, <1>6, WriteKeeps

\* A changed user keeps its creation time.
LEMMA UpdateKeeps ==
    ASSUME ListingInv, NEW u \in table, NEW c \in Countries, Update(u, c) PROVE ListingInv'
<1> DEFINE v == [u EXCEPT !.country = c]
<1>1. /\ Write("update", (table \ {u}) \cup {v})
      /\ table' = (table \ {u}) \cup {v} /\ writes < MaxWrites /\ writes' = writes + 1
  BY DEF Update, Write
<1>2. Rows /\ MaxWrites \in Nat
  BY ListingBoundsAssumption DEF ListingInv, Shapes
<1>3. v \in Row /\ v.created_at = u.created_at
  BY <1>2 DEF Rows, Row
<1> HIDE DEF v
<1>4. writes' \in 0..MaxWrites
  BY <1>1, <1>2 DEF Rows
<1>5. Rows'
  BY <1>1, <1>2, <1>3, <1>4 DEF Rows
<1> QED
  BY <1>1, <1>5, WriteKeeps

\* A user that is deleted leaves the others alone.
LEMMA DeleteKeeps == ASSUME ListingInv, NEW u \in table, Delete(u) PROVE ListingInv'
<1>1. /\ Write("delete", table \ {u}) /\ table' = table \ {u}
      /\ writes < MaxWrites /\ writes' = writes + 1
  BY DEF Delete, Write
<1>2. Rows /\ MaxWrites \in Nat
  BY ListingBoundsAssumption DEF ListingInv, Shapes
<1>3. writes' \in 0..MaxWrites
  BY <1>1, <1>2 DEF Rows
<1>4. Rows'
  BY <1>1, <1>2, <1>3 DEF Rows
<1> QED
  BY <1>1, <1>4, WriteKeeps

\* Every step keeps the invariant.
LEMMA ListingStep == ListingInv /\ [Next]_vars => ListingInv'
<1> SUFFICES ASSUME ListingInv, [Next]_vars PROVE ListingInv'
  OBVIOUS
<1>1. ASSUME NEW q \in Queries, Ask(q) PROVE ListingInv'
  BY <1>1, AskKeeps
<1>2. CASE Count
  BY <1>2, CountKeeps
<1>3. CASE Select
  BY <1>3, SelectKeeps
<1>4. CASE NextPage
  BY <1>4, NextPageKeeps
<1>5. ASSUME NEW n \in 1..MaxRows, NEW c \in Countries, Insert(n, c) PROVE ListingInv'
  BY <1>5, InsertKeeps
<1>6. ASSUME NEW c \in Countries, NEW u \in table, Update(u, c) PROVE ListingInv'
  BY <1>6, UpdateKeeps
<1>7. ASSUME NEW u \in table, Delete(u) PROVE ListingInv'
  BY <1>7, DeleteKeeps
<1>8. CASE UNCHANGED vars
  BY <1>8 DEF vars, ListingInv, Shapes, Rows, There, sent, Accepted, OnTheWay, ParametersAreSafe,
              DeepPagesAreEmpty, NextPageShowsUsers
<1> QED
  BY <1>1, <1>2, <1>3, <1>4, <1>5, <1>6, <1>7, <1>8 DEF Next

\* The listing stays in the states that the invariant describes.
LEMMA ListingInvariance == Spec => []ListingInv
  BY NothingAskedYet, ListingStep, PTL DEF Spec

-----------------------------------------------------------------------------
(* The theorems *)

\* Every variable of the listing keeps its shape, and a page never holds more
\* users than its limit, for every query and whatever is written meanwhile.
THEOREM ListingIsTypeCorrect == Spec => []TypeOK
<1>1. ListingInv => TypeOK
  <2> SUFFICES ASSUME ListingInv PROVE TypeOK
    OBVIOUS
  <2>1. list \in Listing /\ walk \in Walk /\ Rows /\ Len(list.users) <= sent.limit
    BY DEF ListingInv, Shapes
  <2>2. \A n \in DOMAIN list.users : list.users[n] \in Row
    BY <2>1 DEF Listing
  <2> QED
    BY <2>1, <2>2 DEF TypeOK, Listing, Walk, Rows
<1> QED
  BY <1>1, ListingInvariance, PTL

\* PostgreSQL rejects a statement of ListUsers only for the three kinds of query
\* that ParametersAreSafe names, whatever a client sends.
THEOREM OnlyKnownQueriesAreRejected == Spec => []ParametersAreSafe
<1>1. ListingInv => ParametersAreSafe
  BY DEF ListingInv
<1> QED
  BY <1>1, ListingInvariance, PTL

\* The conversions to int before the multiplication are enough: no page of a gRPC
\* request wraps around, since an int holds the product of two int32.
THEOREM NoGrpcPageWrapsAround == Spec => []DeepPagesAreEmpty
<1>1. ListingInv => DeepPagesAreEmpty
  BY DEF ListingInv
<1> QED
  BY <1>1, ListingInvariance, PTL

\* has_more is computed from a COUNT that is older than the next page, and yet it
\* keeps its promise while nobody deletes or changes users.
THEOREM HasMoreKeepsItsPromise == Spec => []NextPageShowsUsers
<1>1. ListingInv => NextPageShowsUsers
  BY DEF ListingInv
<1> QED
  BY <1>1, ListingInvariance, PTL
=============================================================================
