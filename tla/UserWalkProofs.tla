--------------------------- MODULE UserWalkProofs ---------------------------
(***************************************************************************)
(* Theorems about a walk through the whole list in the order of creation:  *)
(* what the pages add up to, although COUNT and the SELECTs of the pages   *)
(* all see different tables.                                               *)
(***************************************************************************)
EXTENDS UserListingProofs

-----------------------------------------------------------------------------
(* The inductive invariant *)

\* How many rows of R come no later than u.
UpTo(R, u, p) == {v \in R : Before(v, u, p)}
Rank(R, u, p) == Cardinality(UpTo(R, u, p))

\* The sequence begins like every ordering of R does, its n-th row having rank n,
\* and after all of R it shows other rows.
InPlace(n, u, R, p)  == IF n <= Cardinality(R) THEN u \in R /\ Rank(R, u, p) = n ELSE u \notin R
Ranked(s, R, p) == \A n \in DOMAIN s : InPlace(n, s[n], R, p)

\* A walk through the list that is disturbed by nothing or by creations alone, none
\* of them late.
Undisturbed == walk.whole /\ walk.kinds \subseteq {"insert"}

\* It is ordered by time, and new users come after those of the beginning.
InTime ==
    /\ Undisturbed /\ sent.orderBy = "created_at"
    /\ walk.kinds = {} \/ ~ sent.desc

\* The users that were there at the beginning and match.
Awaited == Cardinality(Matching(walk.since, sent))

\* No user of the beginning is gone, and the others have later times.
LaterUsers ==
    Undisturbed =>
        /\ walk.since \subseteq table
        /\ walk.kinds = {} => walk.since = table
        /\ \A u \in walk.since : \A v \in table \ walk.since : u.created_at < v.created_at
        /\ list.pc = "select" => list.total >= Awaited

\* The client has seen the users of the beginning up to some rank, or all of them
\* and others after them: as many as the pages hold.
Progress ==
    InTime =>
        /\ Ranked(walk.seen, Matching(walk.since, sent), sent)
        /\ walk.kinds = {} => Len(walk.seen) <= Awaited
        /\ list.pc \in {"count", "select"} => Len(walk.seen) = Skipped(list.query)
        /\ list.pc = "replied" /\ list.hasMore =>
              Len(walk.seen) = Skipped(list.query) + Limit(list.query)
        /\ list.pc = "replied" /\ list.err = "ok" /\ ~ list.hasMore => Len(walk.seen) >= Awaited

\* Only a client that has asked is on a walk.
Begun == walk.whole => list.pc # "idle"

\* How far a walk has come, at every moment.
WalkInv == Begun /\ LaterUsers /\ Progress

-----------------------------------------------------------------------------
(* Ranks *)

\* Finitely many rows that are told apart by the column they are ordered by.
TimeOrdered(R, p) ==
    /\ p.orderBy = "created_at" /\ R \in SUBSET Row /\ IsFiniteSet(R)
    /\ \A u, v \in R : u.created_at = v.created_at => u = v

\* Rows are totally ordered by time, upwards or downwards.
LEMMA TimeIsTotal ==
    ASSUME NEW R, NEW p, TimeOrdered(R, p), NEW u \in R, NEW v \in R, NEW w \in R
    PROVE  /\ Before(u, u, p) /\ (Before(u, v, p) \/ Before(v, u, p))
           /\ Before(u, v, p) /\ Before(v, w, p) => Before(u, w, p)
           /\ Before(u, v, p) /\ Before(v, u, p) => u = v
<1> DEFINE a == u.created_at
           b == v.created_at
           c == w.created_at
<1>1. MaxRows \in Nat
  BY ListingBoundsAssumption
<1>2. a \in Nat /\ b \in Nat /\ c \in Nat /\ (a = b => u = v)
  BY <1>1 DEF TimeOrdered, Row
<1>3. CASE p.desc
  <2>1. /\ Before(u, u, p) <=> a >= a
        /\ Before(u, v, p) <=> a >= b
        /\ Before(v, u, p) <=> b >= a
        /\ Before(v, w, p) <=> b >= c
        /\ Before(u, w, p) <=> a >= c
    BY <1>3 DEF TimeOrdered, Before
  <2> HIDE DEF a, b, c
  <2> QED
    BY <1>2, <2>1
<1>4. CASE ~ p.desc
  <2>1. /\ Before(u, u, p) <=> a <= a
        /\ Before(u, v, p) <=> a <= b
        /\ Before(v, u, p) <=> b <= a
        /\ Before(v, w, p) <=> b <= c
        /\ Before(u, w, p) <=> a <= c
    BY <1>4 DEF TimeOrdered, Before
  <2> HIDE DEF a, b, c
  <2> QED
    BY <1>2, <2>1
<1> QED
  BY <1>3, <1>4

\* A rank is a place among the rows, and no two rows have the same.
LEMMA RanksArePlaces ==
    ASSUME NEW R, NEW p, TimeOrdered(R, p), NEW u \in R, NEW v \in R
    PROVE  /\ Rank(R, u, p) \in 1..Cardinality(R) /\ IsFiniteSet(UpTo(R, u, p))
           /\ Rank(R, u, p) = Rank(R, v, p) => u = v
           /\ Rank(R, u, p) < Rank(R, v, p) => Before(u, v, p)
<1>1. IsFiniteSet(R) /\ Cardinality(R) \in Nat
  BY FS_CardinalityType DEF TimeOrdered
<1>2. ASSUME NEW x \in R
      PROVE  /\ IsFiniteSet(UpTo(R, x, p)) /\ Rank(R, x, p) \in 1..Cardinality(R)
             /\ x \in UpTo(R, x, p)
  <2>1. UpTo(R, x, p) \in SUBSET R /\ x \in UpTo(R, x, p)
    BY TimeIsTotal DEF UpTo
  <2>2. IsFiniteSet(UpTo(R, x, p)) /\ Rank(R, x, p) <= Cardinality(R)
    BY <1>1, <2>1, FS_Subset DEF Rank
  <2>3. Rank(R, x, p) \in Nat /\ Rank(R, x, p) # 0
    BY <2>1, <2>2, FS_CardinalityType, FS_EmptySet DEF Rank
  <2> QED
    BY <1>1, <2>1, <2>2, <2>3
<1>3. ASSUME NEW x \in R, NEW y \in R, Before(x, y, p)
      PROVE  /\ Rank(R, x, p) <= Rank(R, y, p)
             /\ Rank(R, x, p) = Rank(R, y, p) => x = y
  <2>1. UpTo(R, x, p) \in SUBSET UpTo(R, y, p)
    <3> SUFFICES ASSUME NEW z \in R, Before(z, x, p) PROVE Before(z, y, p)
      BY DEF UpTo
    <3> QED
      BY <1>3, TimeIsTotal
  <2>2. Rank(R, x, p) <= Rank(R, y, p)
    BY <1>2, <2>1, FS_Subset DEF Rank
  <2>3. ASSUME Rank(R, x, p) = Rank(R, y, p) PROVE x = y
    <3>1. UpTo(R, y, p) = UpTo(R, x, p)
      BY <1>2, <2>1, <2>3, FS_Subset DEF Rank
    <3>2. y \in UpTo(R, x, p)
      BY <1>2, <3>1
    <3> QED
      BY <1>3, <3>2, TimeIsTotal DEF UpTo
  <2> QED
    BY <2>2, <2>3
<1>4. Before(u, v, p) \/ Before(v, u, p)
  BY TimeIsTotal
<1>5. Rank(R, u, p) \in Nat /\ Rank(R, v, p) \in Nat
  BY <1>1, <1>2
<1>6. Rank(R, u, p) = Rank(R, v, p) => u = v
  BY <1>3, <1>4
<1>7. ASSUME Rank(R, u, p) < Rank(R, v, p) PROVE Before(u, v, p)
  <2>1. ~ (Rank(R, v, p) <= Rank(R, u, p))
    BY <1>5, <1>7
  <2> QED
    BY <1>3, <1>4, <2>1
<1> QED
  BY <1>2, <1>6, <1>7

\* In every ordering of the rows, the n-th row has rank n.
LEMMA OrderingsAreRanked ==
    ASSUME NEW R, NEW p, TimeOrdered(R, p), NEW rows \in Orderings(R, p),
           NEW i \in 1..Cardinality(R)
    PROVE  rows[i] \in R /\ Rank(R, rows[i], p) = i
<1> DEFINE N == Cardinality(R)
<1>1. IsFiniteSet(R) /\ N \in Nat /\ IsFiniteSet(1..N) /\ Cardinality(1..N) = N
  BY FS_CardinalityType, FS_Interval DEF TimeOrdered
<1>2. /\ rows \in [1..N -> R]
      /\ \A j, k \in 1..N : j < k => rows[j] # rows[k] /\ Before(rows[j], rows[k], p)
  BY DEF Orderings
<1> HIDE DEF N
<1>3. rows \in Injection(1..N, R)
  BY <1>1, <1>2 DEF Injection, IsInjective
<1>4. rows \in Surjection(1..N, R)
  BY <1>1, <1>3, FS_Injection DEF N
<1>5. i \in 1..N /\ i \in Nat
  BY <1>1 DEF N
<1> DEFINE shown == [j \in 1..i |-> rows[j]]
           U     == UpTo(R, rows[i], p)
<1>6. \A j \in 1..i : j \in 1..N /\ rows[j] \in U
  <2> SUFFICES ASSUME NEW j \in 1..i PROVE j \in 1..N /\ rows[j] \in U
    OBVIOUS
  <2>1. j \in 1..N /\ rows[j] \in R /\ rows[i] \in R
    BY <1>1, <1>2, <1>5
  <2>2. CASE j = i
    BY <2>1, <2>2, TimeIsTotal DEF UpTo
  <2>3. CASE j < i
    BY <1>2, <1>5, <2>1, <2>3 DEF UpTo
  <2> QED
    BY <1>5, <2>1, <2>2, <2>3
<1>7. \A u \in U : \E j \in 1..i : rows[j] = u
  <2> SUFFICES ASSUME NEW u \in U PROVE \E j \in 1..i : rows[j] = u
    OBVIOUS
  <2>1. u \in R /\ Before(u, rows[i], p) /\ rows[i] \in R
    BY <1>2, <1>5 DEF UpTo
  <2>2. PICK j \in 1..N : rows[j] = u
    BY <1>4, <2>1 DEF Surjection
  <2>3. ~ (i < j)
    BY <1>2, <1>5, <2>1, <2>2, TimeIsTotal
  <2>4. j \in 1..i
    BY <1>1, <1>5, <2>2, <2>3
  <2> QED
    BY <2>2, <2>4
<1>8. shown \in Bijection(1..i, U)
  <2>1. shown \in [1..i -> U]
    BY <1>6
  <2>2. \A j, k \in 1..i : shown[j] = shown[k] => j = k
    BY <1>3, <1>6 DEF Injection, IsInjective
  <2>3. \A u \in U : \E j \in 1..i : shown[j] = u
    BY <1>7
  <2> HIDE DEF shown, U
  <2> QED
    BY <2>1, <2>2, <2>3 DEF Bijection, Injection, Surjection, IsInjective
<1>9. IsFiniteSet(1..i) /\ Cardinality(1..i) = i
  BY <1>5, FS_Interval
<1>10. Cardinality(U) = i
  BY <1>8, <1>9, FS_Bijection DEF ExistsBijection
<1> QED
  BY <1>2, <1>5, <1>10 DEF Rank

\* A sequence of all ranks and nothing else is an ordering.
LEMMA RankedIsOrdering ==
    ASSUME NEW R, NEW p, TimeOrdered(R, p), NEW s \in Seq(Row), Ranked(s, R, p),
           Len(s) = Cardinality(R)
    PROVE  s \in Orderings(R, p)
<1>1. Cardinality(R) \in Nat /\ DOMAIN s = 1..Cardinality(R)
  BY FS_CardinalityType DEF TimeOrdered
<1>2. \A n \in 1..Cardinality(R) : s[n] \in R /\ Rank(R, s[n], p) = n
  BY <1>1 DEF Ranked, InPlace
<1>3. s \in [1..Cardinality(R) -> R]
  BY <1>1, <1>2
<1>4. ASSUME NEW i \in DOMAIN s, NEW j \in DOMAIN s, i < j
      PROVE  s[i] # s[j] /\ Before(s[i], s[j], p)
  <2>1. i \in Nat /\ j \in Nat /\ i # j
    BY <1>1, <1>4
  <2>2. /\ s[i] \in R /\ s[j] \in R /\ Rank(R, s[i], p) = i /\ Rank(R, s[j], p) = j
    BY <1>1, <1>2
  <2> QED
    BY <1>4, <2>1, <2>2, RanksArePlaces
<1> QED
  BY <1>3, <1>4 DEF Orderings

\* A row occurs once in a sequence that is long enough for its rank.
LEMMA RankedOccursOnce ==
    ASSUME NEW R, NEW p, TimeOrdered(R, p), NEW s \in Seq(Row), Ranked(s, R, p),
           NEW u \in R, Cardinality(R) <= Len(s)
    PROVE  Cardinality({n \in DOMAIN s : s[n] = u}) = 1
<1> DEFINE k == Rank(R, u, p)
<1>1. Len(s) \in Nat /\ DOMAIN s = 1..Len(s) /\ Cardinality(R) \in Nat
  BY FS_CardinalityType DEF TimeOrdered
<1>2. k \in 1..Cardinality(R)
  BY RanksArePlaces
<1>3. k \in DOMAIN s /\ k <= Cardinality(R)
  BY <1>1, <1>2
<1>4. s[k] \in R /\ Rank(R, s[k], p) = k
  BY <1>3 DEF Ranked, InPlace
<1>5. s[k] = u
  BY <1>4, RanksArePlaces
<1>6. ASSUME NEW n \in DOMAIN s, s[n] = u PROVE n = k
  BY <1>6 DEF Ranked, InPlace
<1>7. {n \in DOMAIN s : s[n] = u} = {k}
  BY <1>3, <1>5, <1>6
<1> QED
  BY <1>7, FS_Singleton

-----------------------------------------------------------------------------
(* Pages *)

\* The rows that match a query are told apart by their times.
LEMMA MatchingIsTimeOrdered ==
    ASSUME NEW t \in SUBSET Row, \A u, v \in t : u.created_at = v.created_at => u = v,
           NEW p, p.orderBy = "created_at"
    PROVE  TimeOrdered(Matching(t, p), p)
<1>1. IsFiniteSet(Matching(t, p)) /\ Matching(t, p) \subseteq Row
  BY DatedRowsAreFinite
<1>2. Matching(t, p) \subseteq t
  BY DEF Matching
<1> QED
  BY <1>1, <1>2 DEF TimeOrdered

\* A row that comes later than all of R changes none of its ranks, upwards.
LEMMA LaterRowsKeepRanks ==
    ASSUME NEW R, NEW Q, NEW p, TimeOrdered(R, p), TimeOrdered(Q, p), ~ p.desc, R \subseteq Q,
           \A u \in R : \A v \in Q \ R : u.created_at < v.created_at,
           NEW u \in R
    PROVE  UpTo(Q, u, p) = UpTo(R, u, p)
<1>1. MaxRows \in Nat
  BY ListingBoundsAssumption
<1>2. ASSUME NEW v \in Q \ R PROVE ~ Before(v, u, p)
  <2>1. u.created_at \in Nat /\ v.created_at \in Nat /\ u.created_at < v.created_at
    BY <1>1 DEF TimeOrdered, Row
  <2>2. Before(v, u, p) <=> v.created_at <= u.created_at
    BY DEF Before, TimeOrdered
  <2> QED
    BY <2>1, <2>2
<1> QED
  BY <1>2 DEF UpTo

\* Upwards, R comes before the later rows: its rows are the first ones of every
\* ordering, each at the place of its rank.
LEMMA EarlierRowsComeFirst ==
    ASSUME NEW R, NEW Q, NEW p, TimeOrdered(R, p), TimeOrdered(Q, p), R \subseteq Q,
           R = Q \/ (~ p.desc /\ \A u \in R : \A v \in Q \ R : u.created_at < v.created_at),
           NEW rows \in Orderings(Q, p), NEW i \in 1..Cardinality(Q)
    PROVE  InPlace(i, rows[i], R, p)
<1>1. rows[i] \in Q /\ Rank(Q, rows[i], p) = i
  BY OrderingsAreRanked
<1>2. Cardinality(R) \in Nat /\ Cardinality(Q) \in Nat /\ i \in Nat /\ IsFiniteSet(R)
  BY FS_CardinalityType DEF TimeOrdered
<1>3. CASE R = Q
  BY <1>1, <1>2, <1>3 DEF InPlace
<1>4. CASE R # Q
  <2>1. ~ p.desc /\ \A u \in R : \A v \in Q \ R : u.created_at < v.created_at
    BY <1>4
  <2>2. ASSUME rows[i] \in R PROVE InPlace(i, rows[i], R, p)
    <3>1. UpTo(Q, rows[i], p) = UpTo(R, rows[i], p)
      BY <2>1, <2>2, LaterRowsKeepRanks
    <3>2. Rank(R, rows[i], p) = i
      BY <1>1, <3>1 DEF Rank
    <3>3. i \in 1..Cardinality(R)
      BY <2>2, <3>2, RanksArePlaces
    <3> QED
      BY <1>2, <2>2, <3>2, <3>3 DEF InPlace
  <2>3. ASSUME rows[i] \notin R PROVE InPlace(i, rows[i], R, p)
    <3>1. \A u \in R : Before(u, rows[i], p)
      <4> SUFFICES ASSUME NEW u \in R PROVE Before(u, rows[i], p)
        OBVIOUS
      <4>1. u.created_at < rows[i].created_at
        BY <1>1, <2>1, <2>3
      <4>2. u.created_at \in Nat /\ rows[i].created_at \in Nat
        BY <1>1, ListingBoundsAssumption DEF TimeOrdered, Row
      <4>3. Before(u, rows[i], p) <=> u.created_at <= rows[i].created_at
        BY <2>1 DEF Before, TimeOrdered
      <4> QED
        BY <4>1, <4>2, <4>3
    <3>2. R \cup {rows[i]} \in SUBSET UpTo(Q, rows[i], p) /\ IsFiniteSet(UpTo(Q, rows[i], p))
      BY <1>1, <3>1, TimeIsTotal, RanksArePlaces DEF UpTo
    <3>3. Cardinality(R \cup {rows[i]}) = Cardinality(R) + 1
      BY <1>2, <2>3, FS_AddElement
    <3>4. Cardinality(R) + 1 <= i
      BY <1>1, <3>2, <3>3, FS_Subset DEF Rank
    <3> QED
      BY <1>2, <2>3, <3>4 DEF InPlace
  <2> QED
    BY <2>2, <2>3
<1> QED
  BY <1>3, <1>4

\* A page of Q continues a sequence of the ranks of R, up to the end of the page or
\* of the rows.
LEMMA PageContinues ==
    ASSUME NEW R, NEW Q, NEW p, TimeOrdered(R, p), TimeOrdered(Q, p), R \subseteq Q,
           R = Q \/ (~ p.desc /\ \A u \in R : \A v \in Q \ R : u.created_at < v.created_at),
           NEW s \in Seq(Row), Ranked(s, R, p),
           NEW rows \in Orderings(Q, p), p.offset = Len(s), p.limit \in Nat \ {0},
           Len(s) <= Cardinality(Q)
    PROVE  LET all == s \o Slice(rows, p) IN
           /\ all \in Seq(Row) /\ Ranked(all, R, p)
           /\ Len(all) = Least(p.offset + p.limit, Cardinality(Q))
<1> DEFINE N    == Cardinality(Q)
           from == p.offset + 1
           to   == Least(p.offset + p.limit, N)
           page == Slice(rows, p)
<1>1. /\ N \in Nat /\ p.offset \in Nat /\ Len(s) \in Nat /\ p.offset = Len(s) /\ p.offset <= N
      /\ Q \subseteq Row
  BY FS_CardinalityType DEF TimeOrdered
<1>2. rows \in [1..N -> Row] /\ Len(rows) = N
  BY <1>1 DEF Orderings
<1>3. /\ from \in Int /\ to \in Int /\ to <= N /\ from >= 1 /\ to >= p.offset /\ from = p.offset + 1
  BY <1>1 DEF Least
<1>4. page = SubSeq(rows, from, to)
  BY <1>2 DEF Slice
<1>5. \A i \in from..to : i \in 1..N /\ rows[i] \in Row
  <2> HIDE DEF from, to, N
  <2> QED
    BY <1>1, <1>2, <1>3
<1> HIDE DEF from, to, page, N
<1>6. /\ page \in Seq(Row)
      /\ Len(page) = IF from <= to THEN to - from + 1 ELSE 0
      /\ \A i \in 1..(to - from + 1) : page[i] = rows[from + i - 1]
  BY <1>3, <1>4, <1>5, SubSeqProperties
<1>7. Len(page) = to - p.offset
  BY <1>1, <1>3, <1>6
<1>8. /\ s \o page \in Seq(Row) /\ Len(s \o page) = Len(s) + Len(page)
      /\ \A i \in 1..(Len(s) + Len(page)) :
            (s \o page)[i] = IF i <= Len(s) THEN s[i] ELSE page[i - Len(s)]
  BY <1>6, ConcatProperties
<1>9. Len(s \o page) = to /\ DOMAIN (s \o page) = 1..to
  BY <1>1, <1>3, <1>7, <1>8
<1>10. Ranked(s \o page, R, p)
  <2> SUFFICES ASSUME NEW n \in 1..to
               PROVE  InPlace(n, (s \o page)[n], R, p)
    BY <1>9 DEF Ranked
  <2>1. (s \o page)[n] = IF n <= Len(s) THEN s[n] ELSE page[n - Len(s)]
    BY <1>8, <1>9
  <2>2. CASE n <= Len(s)
    <3>1. n \in DOMAIN s
      BY <1>1, <1>3, <2>2
    <3> QED
      BY <2>1, <2>2, <3>1 DEF Ranked
  <2>3. CASE ~ (n <= Len(s))
    <3>1. n - Len(s) \in 1..(to - from + 1) /\ from + (n - Len(s)) - 1 = n /\ n \in 1..N
      BY <1>1, <1>3, <2>3
    <3>2. (s \o page)[n] = rows[n]
      BY <1>6, <2>1, <2>3, <3>1
    <3> QED
      BY <3>1, <3>2, EarlierRowsComeFirst DEF N
  <2> QED
    BY <2>2, <2>3
<1> QED
  BY <1>8, <1>9, <1>10 DEF page, to, N

-----------------------------------------------------------------------------
(* The steps *)

\* The users there are now, and those of the beginning among them.
LEMMA AwaitedAreThere ==
    ASSUME ListingInv, WalkInv, Undisturbed
    PROVE  /\ Awaited \in Nat /\ There \in 0..MaxRows /\ Awaited <= There
           /\ sent.orderBy = "created_at" =>
                  /\ TimeOrdered(Matching(table, sent), sent)
                  /\ TimeOrdered(Matching(walk.since, sent), sent)
           /\ Matching(walk.since, sent) \subseteq Matching(table, sent)
           /\ \A u \in Matching(walk.since, sent) :
                 \A v \in Matching(table, sent) \ Matching(walk.since, sent) :
                    u.created_at < v.created_at
<1>1. Rows /\ walk.since \subseteq table
  BY DEF ListingInv, Shapes, WalkInv, LaterUsers
<1>2. There \in 0..MaxRows /\ IsFiniteSet(Matching(table, sent))
  BY <1>1, RowsAreFinite DEF There
<1>3. Matching(walk.since, sent) \in SUBSET Matching(table, sent)
  BY <1>1 DEF Matching
<1>4. IsFiniteSet(Matching(walk.since, sent)) /\ Awaited <= There
  BY <1>2, <1>3, FS_Subset DEF Awaited, There
<1>5. Awaited \in Nat
  BY <1>4, FS_CardinalityType DEF Awaited
<1>6. ASSUME sent.orderBy = "created_at" PROVE TimeOrdered(Matching(table, sent), sent)
  BY <1>1, <1>6, MatchingIsTimeOrdered DEF Rows
<1>7. ASSUME sent.orderBy = "created_at" PROVE TimeOrdered(Matching(walk.since, sent), sent)
  BY <1>3, <1>4, <1>6, <1>7 DEF TimeOrdered
<1>8. \A u \in Matching(walk.since, sent) :
         \A v \in Matching(table, sent) \ Matching(walk.since, sent) :
            u.created_at < v.created_at
  BY DEF WalkInv, LaterUsers, Matching
<1> QED
  BY <1>2, <1>3, <1>4, <1>5, <1>6, <1>7, <1>8

\* A walk begins with the first page.
LEMMA AskWalks == ASSUME ListingInv, WalkInv, NEW q \in Queries, Ask(q) PROVE WalkInv'
<1>1. q \in Query /\ q.page \in Nat
  BY QueriesAssumption DEF Query
<1>2. /\ list' = Asked(q) /\ table' = table
      /\ walk' = [since |-> table, kinds |-> {}, seen |-> <<>>, whole |-> q.page <= 1]
  BY DEF Ask
<1>3. /\ list.query' = q /\ list.pc' = "count" /\ walk.since' = table /\ walk.seen' = <<>>
      /\ walk.whole' = (q.page <= 1)
  BY <1>1, <1>2, NothingShown
<1>4. ASSUME q.page <= 1 PROVE Skipped(q) = 0
  <2>1. Page(q) = 1
    BY <1>1, <1>4, IntIsWide DEF Page, Given
  <2>2. ~ (Page(q) > 1)
    BY <2>1
  <2> QED
    BY <1>1, <2>2, FirstPageSkipsNobody
<1>5. Begun'
  BY <1>3 DEF Begun
<1>6. LaterUsers'
  BY <1>2, <1>3 DEF LaterUsers
<1>7. Progress'
  <2>1. Len(<<>>) = 0 /\ DOMAIN <<>> = {}
    OBVIOUS
  <2>2. \A R, p : Ranked(<<>>, R, p)
    BY <2>1 DEF Ranked
  <2>3. walk.whole' => Len(walk.seen') = Skipped(list.query')
    BY <1>3, <1>4, <2>1
  <2>4. Ranked(walk.seen', Matching(walk.since', sent'), sent')
    BY <1>3, <2>2
  <2>5. Len(walk.seen') <= Awaited'
    <3>1. table \in SUBSET Row /\ \A u, v \in table : u.created_at = v.created_at => u = v
      BY DEF ListingInv, Shapes, Rows
    <3>2. Awaited' \in 0..MaxRows
      BY <1>3, <3>1, DatedRowsAreFinite DEF Awaited
    <3> QED
      BY <1>3, <2>1, <3>2, ListingBoundsAssumption
  <2> QED
    BY <1>3, <2>3, <2>4, <2>5 DEF Progress, InTime, Undisturbed
<1> QED
  BY <1>5, <1>6, <1>7 DEF WalkInv

\* A statement that fails shows nothing more.
LEMMA FailWalks ==
    ASSUME ListingInv, WalkInv, NEW e \in {"rejected", "unavailable"}, Fail(e),
           list.pc \in {"count", "select"}
    PROVE  WalkInv'
<1>1. /\ list \in Listing /\ ~ list.hasMore
  BY DEF ListingInv, Shapes
<1>2. /\ list' = [list EXCEPT !.pc = "replied", !.err = e]
      /\ table' = table /\ walk' = walk
  BY DEF Fail
<1>3. /\ list.query' = list.query /\ list.pc' = "replied" /\ list.err' = e /\ e # "ok"
      /\ ~ list.hasMore'
  BY <1>1, <1>2 DEF Listing
<1>4. sent' = sent
  BY <1>3 DEF sent
<1> QED
  BY <1>2, <1>3, <1>4 DEF WalkInv, Begun, LaterUsers, Progress, InTime, Undisturbed, Awaited

\* Whoever was there at the beginning and matches is counted.
LEMMA CountWalks == ASSUME ListingInv, WalkInv, Count PROVE WalkInv'
<1>1. list \in Listing /\ list.query \in Query /\ list.pc = "count"
  BY DEF ListingInv, Shapes, Listing, Count
<1>2. ASSUME NEW e \in ErrorsOf(CountIsValid(sent)), Fail(e) PROVE WalkInv'
  <2>1. e \in {"rejected", "unavailable"}
    BY DEF ErrorsOf
  <2> QED
    BY <1>1, <1>2, <2>1, FailWalks
<1>3. ASSUME list' = [list EXCEPT !.pc = "select", !.total = Cardinality(Matching(table, sent))],
             UNCHANGED <<table, writes, walk>>
      PROVE  WalkInv'
  <2>1. /\ list.query' = list.query /\ list.pc' = "select" /\ list.total' = There
        /\ table' = table /\ walk' = walk
    BY <1>1, <1>3 DEF Listing, There
  <2>2. sent' = sent
    BY <2>1 DEF sent
  <2>3. Undisturbed => Awaited <= There /\ Awaited \in Nat /\ There \in 0..MaxRows
    BY AwaitedAreThere
  <2>4. Undisturbed => There >= Awaited
    BY <2>3
  <2>5. LaterUsers'
    BY <2>1, <2>2, <2>4 DEF WalkInv, LaterUsers, Undisturbed, Awaited
  <2>6. Progress'
    BY <1>1, <2>1, <2>2 DEF WalkInv, Progress, InTime, Undisturbed, Awaited
  <2>7. Begun'
    BY <2>1 DEF Begun
  <2> QED
    BY <2>5, <2>6, <2>7 DEF WalkInv
<1> QED
  BY <1>2, <1>3 DEF Count

\* A page adds the next ranks, and when none is left everybody has been shown.
LEMMA SelectWalks == ASSUME ListingInv, WalkInv, Select PROVE WalkInv'
<1>1. /\ list \in Listing /\ list.query \in Query /\ list.pc = "select"
      /\ list.total \in 0..MaxRows /\ walk \in Walk
  BY DEF ListingInv, Shapes, Listing, Select
<1>2. ASSUME NEW e \in ErrorsOf(SelectIsValid(sent)), Fail(e) PROVE WalkInv'
  <2>1. e \in {"rejected", "unavailable"}
    BY DEF ErrorsOf
  <2> QED
    BY <1>1, <1>2, <2>1, FailWalks
<1> DEFINE R == Matching(walk.since, sent)
           Q == Matching(table, sent)
           q == list.query
<1>3. ASSUME NEW rows \in Orderings(Q, sent), SelectIsValid(sent),
             list' = [list EXCEPT !.pc = "replied", !.users = Slice(rows, sent),
                                  !.hasMore = HasMore(sent, list.total)],
             walk' = [walk EXCEPT !.seen = @ \o Slice(rows, sent)],
             UNCHANGED <<table, writes>>
      PROVE  WalkInv'
  <2>1. /\ list.query' = q /\ list.pc' = "replied" /\ list.hasMore' = HasMore(sent, list.total)
        /\ list.total' = list.total /\ table' = table
    BY <1>1, <1>3 DEF Listing
  <2>2. /\ walk.since' = walk.since /\ walk.kinds' = walk.kinds /\ walk.whole' = walk.whole
        /\ walk.seen' = walk.seen \o Slice(rows, sent)
    BY <1>1, <1>3 DEF Walk
  <2>3. sent' = sent /\ Awaited' = Awaited
    BY <2>1, <2>2 DEF sent, Awaited
  <2>4. Begun' /\ LaterUsers'
    BY <2>1, <2>2 DEF WalkInv, Begun, LaterUsers, Undisturbed
  <2>5. Progress'
    <3> SUFFICES ASSUME InTime
                 PROVE  /\ Ranked(walk.seen', R, sent)
                        /\ walk.kinds = {} => Len(walk.seen') <= Awaited
                        /\ HasMore(sent, list.total) =>
                              Len(walk.seen') = Skipped(q) + Limit(q)
                        /\ ~ HasMore(sent, list.total) => Len(walk.seen') >= Awaited
      BY <2>1, <2>2, <2>3 DEF Progress, InTime, Undisturbed
    <3>1. /\ Undisturbed /\ Awaited \in Nat /\ There \in 0..MaxRows /\ Awaited <= There
          /\ TimeOrdered(R, sent) /\ TimeOrdered(Q, sent) /\ list.total >= Awaited
          /\ R \subseteq Q /\ \A u \in R : \A v \in Q \ R : u.created_at < v.created_at
          /\ Ranked(walk.seen, R, sent) /\ Len(walk.seen) = Skipped(q)
      BY <1>1, AwaitedAreThere DEF InTime, WalkInv, LaterUsers, Progress
    <3>2. (Page(q) > 1 => Skipped(q) < There) /\ list.total <= There
      BY <1>1, <3>1 DEF ListingInv, OnTheWay, Undisturbed
    <3>3. MaxRows \in Nat /\ MaxInt \in Nat /\ 2 * MaxRows <= MaxInt
      BY IntIsWide, ListingBoundsAssumption
    <3>4. Skipped(q) \in Nat /\ Limit(q) \in 1..MaxInt
      BY <1>1, PageAndLimit
    <3>5. Skipped(q) <= There
      <4>1. CASE Page(q) > 1
        BY <3>1, <3>2, <3>4, <4>1
      <4>2. CASE ~ (Page(q) > 1)
        BY <1>1, <3>1, <4>2, FirstPageSkipsNobody
      <4> QED
        BY <4>1, <4>2
    <3>6. sent.offset = Skipped(q) /\ sent.limit = Limit(q)
      <4>1. sent.offset = Wrap(Skipped(q)) /\ sent.limit = Limit(q)
        BY <1>1, SentFields, SentIs
      <4>2. Skipped(q) \in 0..MaxInt
        BY <3>1, <3>3, <3>4, <3>5
      <4> QED
        BY <4>1, <4>2, FittingInt
    <3>7. HasMore(sent, list.total) <=> Skipped(q) + Limit(q) < list.total
      <4>1. Page(q) > 1 => Skipped(q) < MaxRows
        BY <3>1, <3>2, <3>3, <3>4
      <4> QED
        BY <1>1, <4>1, MoreIsTrue, SentIs
    <3>8. walk.seen \in Seq(Row) /\ Cardinality(Q) = There /\ Cardinality(R) = Awaited
      BY <1>1 DEF Walk, There, Awaited
    <3>9. sent.limit \in Nat \ {0}
      BY <3>3, <3>4, <3>6
    <3>10. /\ Ranked(walk.seen', R, sent)
           /\ Len(walk.seen') = Least(Skipped(q) + Limit(q), There)
      <4>1. R = Q \/ ~ sent.desc
        BY <3>1 DEF InTime, WalkInv, LaterUsers
      <4>2. sent.offset = Len(walk.seen) /\ Len(walk.seen) <= Cardinality(Q)
        BY <3>1, <3>5, <3>6, <3>8
      <4>3. R = Q \/ (~ sent.desc /\ \A u \in R : \A v \in Q \ R : u.created_at < v.created_at)
        BY <3>1, <4>1
      <4>4. /\ TimeOrdered(R, sent) /\ TimeOrdered(Q, sent) /\ R \subseteq Q
            /\ Ranked(walk.seen, R, sent) /\ walk.seen \in Seq(Row)
        BY <3>1, <3>8
      <4>5. rows \in Orderings(Q, sent)
        BY <1>3
      <4> HIDE DEF R, Q
      <4>6. /\ Ranked(walk.seen \o Slice(rows, sent), R, sent)
            /\ Len(walk.seen \o Slice(rows, sent)) = Least(sent.offset + sent.limit, Cardinality(Q))
        BY <3>9, <4>2, <4>3, <4>4, <4>5, PageContinues
      <4> QED
        BY <2>2, <3>6, <3>8, <4>6
    <3>11. Least(Skipped(q) + Limit(q), There) =
             IF Skipped(q) + Limit(q) <= There THEN Skipped(q) + Limit(q) ELSE There
      BY DEF Least
    <3> DEFINE end == Skipped(q) + Limit(q)
    <3>12. end \in Nat
      BY <3>3, <3>4
    <3> HIDE DEF end
    <3>13. ASSUME end < list.total PROVE Len(walk.seen') = end
      BY <1>1, <3>1, <3>2, <3>3, <3>10, <3>11, <3>12, <3>13 DEF end
    <3>14. ASSUME ~ (end < list.total) PROVE Len(walk.seen') >= Awaited
      BY <1>1, <3>1, <3>2, <3>3, <3>10, <3>11, <3>12, <3>14 DEF end
    <3>15. ASSUME walk.kinds = {} PROVE Len(walk.seen') <= Awaited
      <4>1. R = Q
        BY <3>1, <3>15 DEF WalkInv, LaterUsers
      <4>2. Awaited = There
        BY <3>8, <4>1
      <4> QED
        BY <3>1, <3>3, <3>10, <3>11, <3>12, <4>2 DEF end
    <3> QED
      BY <3>7, <3>10, <3>13, <3>14, <3>15 DEF end
  <2> QED
    BY <2>4, <2>5 DEF WalkInv
<1> QED
  BY <1>2, <1>3 DEF Select

\* The next page follows on what the client has seen.
LEMMA NextPageWalks == ASSUME ListingInv, WalkInv, NextPage PROVE WalkInv'
<1> DEFINE q == list.query
           k == Page(q) + 1
           r == [q EXCEPT !.page = k]
<1>1. /\ list \in Listing /\ q \in Query /\ list.pc = "replied" /\ list.hasMore
      /\ list' = Asked(r) /\ UNCHANGED <<table, writes, walk>>
  BY DEF ListingInv, Shapes, Listing, NextPage, MayGoOn, Page, Query
<1>2. k \in Nat
  BY <1>1, PageAndLimit
<1> HIDE DEF k
<1>3. /\ r \in Query /\ r.page = k /\ r.limit = q.limit
      /\ Admitted(Params(r)).orderBy = sent.orderBy /\ Admitted(Params(r)).desc = sent.desc
      /\ \A t : Matching(t, Admitted(Params(r))) = Matching(t, sent)
  BY <1>1, <1>2, PagesOfAQuery, SentIs
<1> HIDE DEF r
<1>4. list.query' = r /\ list.pc' = "count" /\ ~ list.hasMore'
  BY <1>1, <1>3, NothingShown
<1>5. /\ sent' = Admitted(Params(r)) /\ sent.orderBy' = sent.orderBy /\ sent.desc' = sent.desc
      /\ Matching(walk.since', sent') = Matching(walk.since, sent) /\ Awaited' = Awaited
  BY <1>1, <1>3, <1>4 DEF sent, Awaited
<1>6. Begun' /\ LaterUsers'
  BY <1>1, <1>4 DEF WalkInv, Begun, LaterUsers, Undisturbed
<1>7. Progress'
  <2> SUFFICES ASSUME InTime
               PROVE  /\ Ranked(walk.seen, Matching(walk.since, sent), sent')
                      /\ walk.kinds = {} => Len(walk.seen) <= Awaited
                      /\ Len(walk.seen) = Skipped(r)
    BY <1>1, <1>4, <1>5 DEF Progress, InTime, Undisturbed
  <2>1. /\ Ranked(walk.seen, Matching(walk.since, sent), sent)
        /\ walk.kinds = {} => Len(walk.seen) <= Awaited
        /\ Len(walk.seen) = Skipped(q) + Limit(q)
    BY <1>1 DEF WalkInv, Progress
  <2>2. \A u, v : Before(u, v, sent') <=> Before(u, v, sent)
    BY <1>5 DEF Before
  <2>3. \A R, u : UpTo(R, u, sent') = UpTo(R, u, sent)
    BY <2>2 DEF UpTo
  <2>4. Ranked(walk.seen, Matching(walk.since, sent), sent')
    BY <2>1, <2>3 DEF Ranked, InPlace, Rank
  <2>5. Skipped(q) + Limit(q) < MaxRows
    <3>1. Skipped(q) + Limit(q) < list.total /\ list.total <= There
      BY <1>1 DEF InTime, Undisturbed, ListingInv, OnTheWay
    <3>2. There \in 0..MaxRows /\ list.total \in 0..MaxRows
      BY <1>1, RowsAreFinite DEF ListingInv, Shapes, There, Listing
    <3>3. Skipped(q) + Limit(q) \in Nat /\ MaxRows \in Nat
      BY <1>1, PageAndLimit, IntIsWide, ListingBoundsAssumption
    <3> DEFINE end == Skipped(q) + Limit(q)
    <3> HIDE DEF end
    <3>4. end < MaxRows
      BY <3>1, <3>2, <3>3 DEF end
    <3> QED
      BY <3>4 DEF end
  <2>6. Skipped(r) = Skipped(q) + Limit(q)
    BY <1>1, <1>3, <2>5, NextPageFollows DEF k
  <2> QED
    BY <2>1, <2>4, <2>6
<1> QED
  BY <1>6, <1>7 DEF WalkInv

\* A new user who is not late has a later time than those of the beginning.
LEMMA InsertWalks ==
    ASSUME ListingInv, WalkInv, NEW n \in 1..MaxRows, NEW c \in Countries, Insert(n, c)
    PROVE  WalkInv'
<1> DEFINE new == [created_at |-> n, country |-> c]
<1>1. /\ table' = table \cup {new} /\ list' = list /\ \A u \in table : u.created_at # n
      /\ walk' = [walk EXCEPT !.kinds = @ \cup {Arrival(n)}]
  BY DEF Insert, Write
<1>2. Rows /\ walk \in Walk /\ new.created_at = n
  BY DEF ListingInv, Shapes
<1> HIDE DEF new
<1>3. /\ walk.since' = walk.since /\ walk.kinds' = walk.kinds \cup {Arrival(n)}
      /\ walk.whole' = walk.whole /\ walk.seen' = walk.seen
  BY <1>1, <1>2 DEF Walk
<1>4. sent' = sent /\ Awaited' = Awaited
  BY <1>1, <1>3 DEF sent, Awaited
<1>5. Begun'
  BY <1>1, <1>3 DEF WalkInv, Begun
<1>6. LaterUsers'
  <2> SUFFICES ASSUME Undisturbed, Arrival(n) = "insert"
               PROVE  /\ walk.since \subseteq table'
                      /\ \A u \in walk.since : \A v \in table' \ walk.since :
                            u.created_at < v.created_at
                      /\ list.pc = "select" => list.total >= Awaited
    BY <1>1, <1>3, <1>4 DEF LaterUsers, Undisturbed
  <2>1. \A u \in walk.since : u \in table /\ u \in Row
    BY <1>2 DEF WalkInv, LaterUsers, Rows
  <2>2. \A u \in walk.since : u.created_at < n
    <3> SUFFICES ASSUME NEW u \in walk.since PROVE u.created_at < n
      OBVIOUS
    <3>1. ~ (n < u.created_at) /\ u.created_at # n
      BY <1>1, <2>1 DEF Arrival
    <3>2. u.created_at \in Nat /\ n \in Nat
      BY <2>1, ListingBoundsAssumption DEF Row
    <3> QED
      BY <3>1, <3>2
  <2> QED
    BY <1>1, <1>2, <2>2 DEF WalkInv, LaterUsers
<1>7. Progress'
  <2> SUFFICES ASSUME InTime, walk.kinds' # {}
               PROVE  Progress'
    BY <1>1, <1>3, <1>4 DEF Progress, InTime, Undisturbed
  <2> QED
    BY <1>1, <1>3, <1>4 DEF WalkInv, Progress
<1> QED
  BY <1>5, <1>6, <1>7 DEF WalkInv

\* The walk remembers that users were changed or deleted.
LEMMA DisturbanceIsRemembered ==
    ASSUME ListingInv, WalkInv, NEW kind \in {"update", "delete"}, NEW t, Write(kind, t)
    PROVE  WalkInv'
<1>1. walk \in Walk
  BY DEF ListingInv, Shapes
<1>2. /\ list' = list /\ walk.kinds' = walk.kinds \cup {kind} /\ walk.whole' = walk.whole
  BY <1>1 DEF Write, Walk
<1>3. ~ Undisturbed'
  BY <1>2 DEF Undisturbed
<1> QED
  BY <1>2, <1>3 DEF WalkInv, Begun, LaterUsers, Progress, InTime

\* Every step keeps the walk on its way.
LEMMA WalkStep == ListingInv /\ WalkInv /\ [Next]_vars => WalkInv'
<1> SUFFICES ASSUME ListingInv, WalkInv, [Next]_vars PROVE WalkInv'
  OBVIOUS
<1>1. ASSUME NEW q \in Queries, Ask(q) PROVE WalkInv'
  BY <1>1, AskWalks
<1>2. CASE Count
  BY <1>2, CountWalks
<1>3. CASE Select
  BY <1>3, SelectWalks
<1>4. CASE NextPage
  BY <1>4, NextPageWalks
<1>5. ASSUME NEW n \in 1..MaxRows, NEW c \in Countries, Insert(n, c) PROVE WalkInv'
  BY <1>5, InsertWalks
<1>6. ASSUME NEW c \in Countries, NEW u \in table, Update(u, c) PROVE WalkInv'
  BY <1>6, DisturbanceIsRemembered DEF Update
<1>7. ASSUME NEW u \in table, Delete(u) PROVE WalkInv'
  BY <1>7, DisturbanceIsRemembered DEF Delete
<1>8. CASE UNCHANGED vars
  BY <1>8 DEF vars, WalkInv, Begun, LaterUsers, Progress, InTime, Undisturbed, Awaited, sent
<1> QED
  BY <1>1, <1>2, <1>3, <1>4, <1>5, <1>6, <1>7, <1>8 DEF Next

\* Every walk goes as WalkInv says.
LEMMA WalkInvariance == Spec => [](ListingInv /\ WalkInv)
<1>1. Init => WalkInv
  <2>1. Init => ~ walk.whole
    BY DEF Init
  <2> QED
    BY <2>1 DEF WalkInv, Begun, LaterUsers, Progress, InTime, Undisturbed
<1> QED
  BY <1>1, ListingInvariance, WalkStep, PTL DEF Spec

-----------------------------------------------------------------------------
(* The theorems *)

\* While nobody writes, the pages of a walk in the order of creation, upwards or
\* downwards, add up to exactly the users that match, each of them once, however
\* many there are and whatever the limit of the pages is.
THEOREM QuietWalksAreExact == Spec => []QuietWalkIsExact
<1>1. ListingInv /\ WalkInv => QuietWalkIsExact
  <2> SUFFICES ASSUME ListingInv, WalkInv, WalkIsOver, walk.kinds = {},
                      sent.orderBy = "created_at"
               PROVE  walk.seen \in Orderings(Matching(walk.since, sent), sent)
    BY DEF QuietWalkIsExact
  <2>1. Undisturbed /\ InTime
    BY DEF WalkIsOver, Undisturbed, InTime
  <2>2. /\ Ranked(walk.seen, Matching(walk.since, sent), sent)
        /\ Len(walk.seen) >= Awaited /\ Len(walk.seen) <= Awaited
    BY <2>1 DEF WalkInv, Progress, WalkIsOver
  <2>3. walk.seen \in Seq(Row)
    BY DEF ListingInv, Shapes, Walk
  <2>4. TimeOrdered(Matching(walk.since, sent), sent) /\ Awaited \in Nat
    BY <2>1, AwaitedAreThere
  <2>5. Len(walk.seen) = Awaited
    BY <2>2, <2>3, <2>4
  <2> QED
    BY <2>2, <2>3, <2>4, <2>5, RankedIsOrdering DEF Awaited
<1> QED
  BY <1>1, WalkInvariance, PTL

\* A walk from the oldest user to the newest, while others create users and none of
\* them is late, shows everybody who was there when it began, and nobody of them
\* twice, although every page is counted and selected in tables of its own.
THEOREM AscendingWalksMissNobody == Spec => []AscendingWalkMissesNobody
<1>1. ListingInv /\ WalkInv => AscendingWalkMissesNobody
  <2> SUFFICES ASSUME ListingInv, WalkInv, WalkIsOver, walk.kinds \subseteq {"insert"},
                      sent.orderBy = "created_at", ~ sent.desc,
                      NEW u \in Matching(walk.since, sent)
               PROVE  Cardinality({n \in DOMAIN walk.seen : walk.seen[n] = u}) = 1
    BY DEF AscendingWalkMissesNobody
  <2>1. Undisturbed /\ InTime
    BY DEF WalkIsOver, Undisturbed, InTime
  <2>2. /\ Ranked(walk.seen, Matching(walk.since, sent), sent) /\ Awaited <= Len(walk.seen)
    BY <2>1 DEF WalkInv, Progress, WalkIsOver
  <2>3. TimeOrdered(Matching(walk.since, sent), sent)
    BY <2>1, AwaitedAreThere
  <2>4. walk.seen \in Seq(Row)
    BY DEF ListingInv, Shapes, Walk
  <2> QED
    BY <2>2, <2>3, <2>4, RankedOccursOnce DEF Awaited
<1> QED
  BY <1>1, WalkInvariance, PTL
=============================================================================
