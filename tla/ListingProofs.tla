--------------------------- MODULE ListingProofs ---------------------------
(* Proofs about Listing, for every value of its constants. *)
EXTENDS Listing, FiniteSetTheorems, TLAPS

-----------------------------------------------------------------------------
(* Numbers *)

LEMMA CommonOfAll ==
    ASSUME NEW m \in Nat, NEW o \in Nat, NEW k \in Nat
    PROVE  /\ Common(0, m, o, o + k) \in 0 .. k
           /\ m >= o + k => Common(0, m, o, o + k) = k
           /\ o <= m /\ m <= o + k => Common(0, m, o, o + k) = m - o
           /\ m < o => Common(0, m, o, o + k) = 0
  BY DEF Common, Least, Greatest

\* The pages that are counted hold every row.
LEMMA PagesHoldAll ==
    ASSUME NEW t \in Nat, NEW k \in Int, k >= TotalPages(t)
    PROVE  k * PageSize >= t
<1> DEFINE q == TotalPages(t)
<1>1. PageSize \in Nat /\ PageSize > 0
  BY LimitsAssumption
<1>2. q \in Int /\ q * PageSize >= t
  BY <1>1, SMTT(60) DEF TotalPages
<1> HIDE DEF q
<1>3. k >= q
  BY DEF q
<1>4. k - q \in Nat /\ (k - q) * PageSize >= 0
  BY <1>1, <1>2, <1>3
<1>5. k * PageSize = q * PageSize + (k - q) * PageSize
  BY <1>1, <1>2
<1> QED
  BY <1>1, <1>2, <1>4, <1>5

LEMMA LimitType == \A l \in Int : Limit(l) \in Nat /\ Limit(l) > 0
  BY LimitsAssumption DEF Limit, Least

LEMMA OffsetType == \A n \in Int : Offset(n) \in Nat
<1> TAKE n \in Int
<1>1. PageSize \in Nat
  BY LimitsAssumption
<1>2. CASE view \in OfDashboard
  <2> DEFINE g == Greatest(n, 1) - 1
  <2>1. g \in Nat
    BY DEF Greatest
  <2> HIDE DEF g
  <2>2. g * PageSize \in Nat
    BY <2>1, <1>1
  <2> QED
    BY <1>2, <2>2 DEF Offset, g
<1>3. CASE view \notin OfDashboard
  BY <1>3 DEF Offset, Greatest
<1> QED
  BY <1>2, <1>3

\* On the dashboard a page follows the one before.
LEMMA NextOffset ==
    ASSUME NEW n \in Int, view \in OfDashboard
    PROVE  Offset(Greatest(n, 1) + 1) = Offset(n) + PageSize
<1>1. PageSize \in Nat /\ Greatest(n, 1) \in Int /\ Greatest(n, 1) >= 1
  BY LimitsAssumption DEF Greatest
<1> DEFINE g == Greatest(n, 1)
<1>2. Greatest(g + 1, 1) = g + 1
  BY <1>1 DEF Greatest
<1>3. g * PageSize = (g - 1) * PageSize + PageSize
  BY <1>1
<1> QED
  BY <1>1, <1>2, <1>3 DEF Offset

-----------------------------------------------------------------------------
(* Places *)

LEMMA SubsetsFinite ==
    ASSUME NEW A \in SUBSET Row, NEW B \in SUBSET Row, A \subseteq B
    PROVE  /\ IsFiniteSet(A) /\ Cardinality(A) \in Nat
           /\ Cardinality(A) <= Cardinality(B)
<1>1. IsFiniteSet(A) /\ IsFiniteSet(B)
  BY RowAssumption, FS_Subset
<1> QED
  BY <1>1, FS_Subset, FS_CardinalityType

\* A row with a key of its own has a place in the list.
LEMMA HasPlace ==
    ASSUME NEW tb, NEW f, NEW x, Alone(tb, f, x)
    PROVE  /\ x \in Row
           /\ Cardinality(Ahead(tb, f, x)) \in Nat
           /\ Cardinality(Ahead(tb, f, x)) < Cardinality(Matching(tb, f))
<1> DEFINE M == Matching(tb, f)
           N == Ahead(tb, f, x)
<1>1. M \in SUBSET Row /\ x \in M /\ x \in Ties(tb, f, x)
  BY DEF Alone, Matching
<1>2. N \subseteq M \ {x}
  BY <1>1 DEF Ahead, Ties
<1>3. IsFiniteSet(M) /\ Cardinality(M) \in Nat
  BY <1>1, SubsetsFinite
<1>4. Cardinality(M \ {x}) = Cardinality(M) - 1
  BY <1>1, <1>3, FS_RemoveElement
<1>5. Cardinality(N) \in Nat /\ Cardinality(N) <= Cardinality(M \ {x})
  BY <1>1, <1>2, SubsetsFinite
<1> QED
  BY <1>1, <1>3, <1>4, <1>5

\* Whether such a row is on a page depends on its place alone.
LEMMA OnPage ==
    ASSUME NEW page, NEW o \in Nat, NEW k \in Nat, IsPage(page, o, k),
           NEW x, Alone(table, walk.filter, x)
    PROVE  x \in page <=> o <= Place(x) /\ Place(x) < o + k
<1>1. Place(x) \in Nat
  BY HasPlace DEF Place
<1>2. Cardinality(page \cap {x}) = Common(Place(x), Place(x) + 1, o, o + k)
  BY FS_Singleton DEF IsPage, Alone, Place
<1>3. x \in page <=> Cardinality(page \cap {x}) = 1
  <2>1. CASE x \in page
    <3>1. page \cap {x} = {x}
      BY <2>1
    <3> QED
      BY <2>1, <3>1, FS_Singleton
  <2>2. CASE x \notin page
    <3>1. page \cap {x} = {}
      BY <2>2
    <3> QED
      BY <2>2, <3>1, FS_EmptySet
  <2> QED
    BY <2>1, <2>2
<1>4. Common(Place(x), Place(x) + 1, o, o + k) = 1 <=> o <= Place(x) /\ Place(x) < o + k
  BY <1>1 DEF Common, Least, Greatest
<1> QED
  BY <1>2, <1>3, <1>4

LEMMA PageCount ==
    ASSUME NEW page, NEW o \in Nat, NEW k \in Nat, IsPage(page, o, k)
    PROVE  LET m == Cardinality(Matching(table, walk.filter)) IN
           /\ page \subseteq Row /\ m \in Nat
           /\ Cardinality(page) \in 0 .. k
           /\ m >= o + k => Cardinality(page) = k
           /\ o <= m /\ m <= o + k => Cardinality(page) = m - o
<1> DEFINE m == Cardinality(Matching(table, walk.filter))
<1>1. Matching(table, walk.filter) \in SUBSET Row
  BY DEF Matching
<1>2. m \in Nat
  BY <1>1, SubsetsFinite
<1>3. page \subseteq Row /\ Cardinality(page) = Common(0, m, o, o + k)
  BY <1>1 DEF IsPage
<1> HIDE DEF m
<1>4. /\ Cardinality(page) \in 0 .. k
      /\ m >= o + k => Cardinality(page) = k
      /\ o <= m /\ m <= o + k => Cardinality(page) = m - o
  BY <1>2, <1>3, CommonOfAll
<1> QED
  BY <1>2, <1>3, <1>4 DEF m

-----------------------------------------------------------------------------
(* One page of the walk *)

\* What a client has been sent when it is sent page, of the rows read.
Sent(read, page) ==
    /\ TypeOK
    /\ walk.pc \in {"page", "select"}
    /\ IsPage(read, Offset(walk.n), Fetched(walk.limit))
    /\ page \in Shown(read)

LEMMA SentTypes ==
    ASSUME NEW read, NEW page, Sent(read, page)
    PROVE  /\ Offset(walk.n) \in Nat /\ walk.n \in Int
           /\ Limit(walk.limit) \in Nat /\ Limit(walk.limit) > 0
           /\ view = "logPage" => Fetched(walk.limit) = Limit(walk.limit) + 1
           /\ view # "logPage" => Fetched(walk.limit) = Limit(walk.limit)
           /\ Fetched(walk.limit) \in Nat
           /\ view \in OfDashboard => Limit(walk.limit) = PageSize
           /\ view \in AllViews /\ walk.total \in Nat
           /\ view = "logPage" <=> walk.pc = "select"
<1>1. walk.n \in Int /\ walk.limit \in Int /\ walk.total \in Nat
  BY DEF Sent, TypeOK, Walks
<1>2. /\ view \in AllViews
      /\ view = "logPage" <=> walk.pc = "select"
  BY ViewsAssumption DEF Sent, TypeOK
<1>3. /\ Limit(walk.limit) \in Nat /\ Limit(walk.limit) > 0
      /\ Offset(walk.n) \in Nat
  BY <1>1, LimitType, OffsetType
<1>4. view \in OfDashboard => Limit(walk.limit) = PageSize
  BY DEF Limit
<1>5. /\ view = "logPage" => Fetched(walk.limit) = Limit(walk.limit) + 1
      /\ view # "logPage" => Fetched(walk.limit) = Limit(walk.limit)
  BY <1>4 DEF Fetched, OfDashboard
<1> QED
  BY <1>1, <1>2, <1>3, <1>4, <1>5

\* /logs reads one row more than it shows: if that row is not there, the page is
\* the last one.
LEMMA LookAhead ==
    ASSUME NEW read, NEW page, Sent(read, page), view = "logPage",
           ~(Cardinality(read) > PageSize)
    PROVE  /\ page = read
           /\ Cardinality(Matching(table, walk.filter)) <= Offset(walk.n) + PageSize
<1> DEFINE m == Cardinality(Matching(table, walk.filter))
           o == Offset(walk.n)
<1>1. /\ o \in Nat /\ Limit(walk.limit) = PageSize /\ PageSize \in Nat
      /\ Fetched(walk.limit) = PageSize + 1 /\ Fetched(walk.limit) \in Nat
  BY SentTypes DEF OfDashboard
<1>2. IsPage(read, o, Fetched(walk.limit)) /\ page \in Shown(read)
  BY DEF Sent
<1>3. /\ m \in Nat /\ Cardinality(read) \in Nat
      /\ m >= o + (PageSize + 1) => Cardinality(read) = PageSize + 1
  BY <1>1, <1>2, PageCount
<1>4. page = read
  BY <1>1, <1>2 DEF Shown
<1> HIDE DEF m, o
<1>5. m <= o + PageSize
  BY <1>1, <1>3
<1> QED
  BY <1>4, <1>5 DEF m, o

\* The page holds the rows of its places.
LEMMA SentRows ==
    ASSUME NEW read, NEW page, Sent(read, page), NEW x, Alone(table, walk.filter, x)
    PROVE  x \in page <=> /\ Offset(walk.n) <= Place(x)
                          /\ Place(x) < Offset(walk.n) + Limit(walk.limit)
<1>1. IsPage(read, Offset(walk.n), Fetched(walk.limit)) /\ page \in Shown(read)
  BY DEF Sent
<1>2. CASE Cardinality(read) > Limit(walk.limit)
  <2>1. IsPage(page, Offset(walk.n), Limit(walk.limit))
    BY <1>1, <1>2 DEF Shown
  <2> QED
    BY <2>1, SentTypes, OnPage
<1>3. CASE ~(Cardinality(read) > Limit(walk.limit))
  <2>1. page = read
    BY <1>1, <1>3 DEF Shown
  <2>2. x \in page <=> /\ Offset(walk.n) <= Place(x)
                       /\ Place(x) < Offset(walk.n) + Fetched(walk.limit)
    BY <1>1, <2>1, SentTypes, OnPage
  <2>3. CASE view = "logPage"
    <3>1. Cardinality(Matching(table, walk.filter)) <= Offset(walk.n) + Limit(walk.limit)
      BY <1>3, <2>3, SentTypes, LookAhead DEF OfDashboard
    <3>2. /\ Place(x) \in Nat
          /\ Place(x) < Cardinality(Matching(table, walk.filter))
          /\ Cardinality(Matching(table, walk.filter)) \in Nat
      BY <1>1, HasPlace, PageCount, SentTypes DEF Place
    <3> QED
      BY <2>2, <2>3, <3>1, <3>2, SentTypes
  <2>4. CASE view # "logPage"
    BY <2>2, <2>4, SentTypes
  <2> QED
    BY <2>3, <2>4
<1> QED
  BY <1>2, <1>3

\* Where the next page begins, and what it leaves behind.
LEMMA NextBegins ==
    ASSUME NEW read, NEW page, Sent(read, page)
    PROVE  /\ NextN(page) \in Int /\ Offset(NextN(page)) \in Nat
           /\ view \in OfDashboard =>
                  Offset(NextN(page)) = Offset(walk.n) + Limit(walk.limit)
           /\ view \notin OfDashboard =>
                  /\ Offset(NextN(page)) = Offset(walk.n) + Cardinality(page)
                  /\ NextN(page) = Offset(walk.n) + Cardinality(page)
                  /\ IsPage(page, Offset(walk.n), Limit(walk.limit))
           /\ page \subseteq Row
<1>1. /\ Offset(walk.n) \in Nat /\ walk.n \in Int /\ Fetched(walk.limit) \in Nat
      /\ IsPage(read, Offset(walk.n), Fetched(walk.limit)) /\ page \in Shown(read)
      /\ Limit(walk.limit) \in Nat
  BY SentTypes DEF Sent
<1>2. page \subseteq read
  BY <1>1 DEF Shown
<1>3. read \subseteq Row /\ page \subseteq Row
  BY <1>1, <1>2, PageCount
<1>4. CASE view \in OfDashboard
  <2>1. NextN(page) = Greatest(walk.n, 1) + 1 /\ Greatest(walk.n, 1) \in Int
    BY <1>1, <1>4 DEF NextN, Greatest
  <2>2. Offset(NextN(page)) = Offset(walk.n) + PageSize
    BY <1>1, <1>4, <2>1, NextOffset
  <2> QED
    BY <1>1, <1>3, <1>4, <2>1, <2>2, SentTypes, LimitsAssumption
<1>5. CASE view \notin OfDashboard
  <2>1. Fetched(walk.limit) = Limit(walk.limit)
    BY <1>5, SentTypes DEF OfDashboard
  <2>2. IsPage(page, Offset(walk.n), Limit(walk.limit))
    BY <1>1, <2>1 DEF Shown
  <2>3. Cardinality(page) \in Nat
    BY <1>1, <2>2, PageCount
  <2>4. NextN(page) = Offset(walk.n) + Cardinality(page)
    BY <1>5 DEF NextN
  <2>5. Offset(NextN(page)) = NextN(page)
    BY <1>1, <1>5, <2>3, <2>4 DEF Offset, Greatest
  <2> QED
    BY <1>1, <1>3, <1>5, <2>2, <2>3, <2>4, <2>5
<1> QED
  BY <1>4, <1>5

\* A row that is sent is behind the next page, and so are those behind this one.
LEMMA LeftBehind ==
    ASSUME NEW read, NEW page, Sent(read, page), NEW x, Alone(table, walk.filter, x),
           x \in page \/ Place(x) < Offset(walk.n)
    PROVE  Place(x) < Offset(NextN(page))
<1> DEFINE o == Offset(walk.n)
           k == Limit(walk.limit)
           m == Cardinality(Matching(table, walk.filter))
<1>1. /\ o \in Nat /\ k \in Nat /\ Place(x) \in Nat /\ Place(x) < m
  BY SentTypes, HasPlace DEF Place
<1>2. x \in page => o <= Place(x) /\ Place(x) < o + k
  BY SentRows
<1>3. CASE view \in OfDashboard
  BY <1>1, <1>2, <1>3, NextBegins
<1>4. CASE view \notin OfDashboard
  <2>1. Offset(NextN(page)) = o + Cardinality(page) /\ IsPage(page, o, k)
    BY <1>4, NextBegins
  <2>2. /\ m \in Nat /\ Cardinality(page) \in 0 .. k
        /\ m >= o + k => Cardinality(page) = k
        /\ o <= m /\ m <= o + k => Cardinality(page) = m - o
    BY <1>1, <2>1, PageCount
  <2> HIDE DEF o, k, m
  <2>3. Place(x) < o + Cardinality(page)
    BY <1>1, <1>2, <2>2 DEF o
  <2> QED
    BY <2>1, <2>3
<1> QED
  BY <1>3, <1>4

\* A row that is not sent is at or behind the next page, unless it was ahead of
\* this one.
LEMMA StillAhead ==
    ASSUME NEW read, NEW page, Sent(read, page), NEW x, Alone(table, walk.filter, x),
           x \notin page, Place(x) >= Offset(walk.n)
    PROVE  Place(x) >= Offset(NextN(page))
<1> DEFINE o == Offset(walk.n)
           k == Limit(walk.limit)
<1>1. /\ o \in Nat /\ k \in Nat /\ Place(x) \in Nat /\ Place(x) >= o + k
  BY SentTypes, HasPlace, SentRows DEF Place
<1>2. CASE view \in OfDashboard
  BY <1>1, <1>2, NextBegins
<1>3. CASE view \notin OfDashboard
  <2>1. Offset(NextN(page)) = o + Cardinality(page) /\ IsPage(page, o, k)
    BY <1>3, NextBegins
  <2>2. Cardinality(page) \in 0 .. k
    BY <1>1, <2>1, PageCount
  <2> HIDE DEF o, k
  <2> QED
    BY <1>1, <2>1, <2>2
<1> QED
  BY <1>2, <1>3

\* A client that stops has nothing left to ask for.
LEMMA LastPage ==
    ASSUME NEW read, NEW page, Sent(read, page), NEW x, Alone(table, walk.filter, x),
           Place(x) >= Offset(walk.n), ~GoesOn(page, read),
           walk.pc = "page" => Place(x) < walk.total
    PROVE  x \in page
<1> DEFINE o == Offset(walk.n)
           k == Limit(walk.limit)
           m == Cardinality(Matching(table, walk.filter))
<1>1. /\ o \in Nat /\ k \in Nat /\ Place(x) \in Nat /\ Place(x) < m /\ Place(x) >= o
      /\ walk.n \in Int /\ walk.total \in Nat /\ k > 0
  BY SentTypes, HasPlace DEF Place
<1>2. SUFFICES Place(x) < o + k
  BY <1>1, SentRows
<1>3. CASE view = "logPage"
  <2>1. m <= o + PageSize /\ k = PageSize
    BY <1>3, LookAhead, SentTypes DEF GoesOn, OfDashboard
  <2>2. m \in Nat
    BY <1>1, SentTypes, PageCount DEF Sent
  <2> HIDE DEF o, k, m
  <2> QED
    BY <1>1, <2>1, <2>2
<1>4. CASE view = "taskPage"
  <2>1. Place(x) < walk.total
    BY <1>4, SentTypes DEF Sent
  <2>2. Greatest(walk.n, 1) >= TotalPages(walk.total) /\ Greatest(walk.n, 1) \in Int
    <3>1. TotalPages(walk.total) \in Int /\ Greatest(walk.n, 1) \in Int
      BY <1>1, LimitsAssumption DEF TotalPages, Greatest
    <3>2. ~(Greatest(walk.n, 1) < TotalPages(walk.total))
      BY <1>4 DEF GoesOn
    <3> QED
      BY <3>1, <3>2
  <2>3. Greatest(walk.n, 1) * PageSize >= walk.total
    BY <1>1, <2>2, PagesHoldAll
  <2>4. o + k = Greatest(walk.n, 1) * PageSize
    <3>1. PageSize \in Nat /\ k = PageSize
      BY <1>4, LimitsAssumption, SentTypes DEF OfDashboard
    <3>2. o = (Greatest(walk.n, 1) - 1) * PageSize
      BY <1>4 DEF Offset, OfDashboard
    <3> DEFINE g == Greatest(walk.n, 1)
    <3>3. g \in Int
      BY <2>2
    <3> HIDE DEF g, o, k
    <3>4. (g - 1) * PageSize + PageSize = g * PageSize
      BY <3>1, <3>3
    <3> QED
      BY <3>1, <3>2, <3>4 DEF g
  <2>5. Greatest(walk.n, 1) * PageSize \in Int
    BY <2>2, LimitsAssumption
  <2> HIDE DEF o, k
  <2> QED
    BY <1>1, <2>1, <2>3, <2>4, <2>5
<1>5. CASE view \notin OfDashboard
  <2>1. IsPage(page, o, k) /\ NextN(page) = o + Cardinality(page)
    BY <1>5, NextBegins
  <2>2. /\ m \in Nat /\ Cardinality(page) \in 0 .. k
        /\ m >= o + k => Cardinality(page) = k
        /\ o <= m /\ m <= o + k => Cardinality(page) = m - o
    BY <1>1, <2>1, PageCount
  <2>3. Place(x) < walk.total
    BY <1>5, SentTypes DEF Sent, OfDashboard
  <2>4. ~(page # {} /\ NextN(page) < walk.total)
    BY <1>5 DEF GoesOn, OfDashboard
  <2>5. page = {} => Cardinality(page) = 0
    BY FS_EmptySet
  <2> HIDE DEF o, k, m
  <2> QED
    BY <1>1, <2>1, <2>2, <2>3, <2>4, <2>5
<1> QED
  BY <1>3, <1>4, <1>5, SentTypes DEF AllViews, OfDashboard

-----------------------------------------------------------------------------
(* Steps *)

\* The list does not change during a walk; what is alone and where, in the next
\* state, is read off its table and filter.
LEMMA NextPlaces ==
    ASSUME UNCHANGED view, NEW x
    PROVE  /\ Place(x)' = Cardinality(Ahead(table', walk'.filter, x))
           /\ Alone(table, walk.filter, x)' <=> Alone(table', walk'.filter, x)
           /\ \A n : Offset(n)' = Offset(n)
  BY DEF Place, Alone, Ahead, Ties, Matching, Before, Offset

LEMMA AheadInRow == \A tb, f, x : Ahead(tb, f, x) \in SUBSET Row
  BY DEF Ahead, Matching

\* No row has come in ahead of x, or none has left.
LEMMA PlacesCompared ==
    ASSUME NEW tb, NEW f, NEW x, Alone(tb, f, x), Alone(table, walk.filter, x)
    PROVE  /\ Cardinality(Ahead(tb, f, x)) \in Nat /\ Place(x) \in Nat
           /\ NoneCame(tb, f, x) => Cardinality(Ahead(tb, f, x)) <= Place(x)
           /\ NoneLeft(tb, f, x) => Place(x) <= Cardinality(Ahead(tb, f, x))
  BY HasPlace, AheadInRow, SubsetsFinite DEF Place, NoneCame, NoneLeft

\* A writer.
LEMMA WriteStep ==
    ASSUME IInv, NEW x \in Row, NEW row \in [prio : Prio, at : Stamp, col : Col],
           view \in OfTasks => row.at.zone = 0, Write(x, row)
    PROVE  IInv'
<1> DEFINE tb == [table EXCEPT ![x] = row]
<1>1. /\ table' = tb /\ UNCHANGED view
      /\ walk' = [walk EXCEPT !.steady = Steady(tb, walk.filter), !.still = Still(tb, walk.filter)]
      /\ TypeOK /\ walk \in Walks
  BY DEF Write, IInv, TypeOK
<1> HIDE DEF tb
<1>2. /\ walk'.pc = walk.pc /\ walk'.filter = walk.filter /\ walk'.n = walk.n
      /\ walk'.total = walk.total /\ walk'.seen = walk.seen /\ walk'.again = walk.again
      /\ walk'.asked = walk.asked
      /\ walk'.steady = Steady(tb, walk.filter) /\ walk'.still = Still(tb, walk.filter)
  BY <1>1 DEF Walks
<1>3. walk' \in Walks
  <2>1. Steady(tb, walk.filter) \in SUBSET Row /\ Still(tb, walk.filter) \in SUBSET Row
    BY <1>1 DEF Steady, Still, Walks
  <2> QED
    BY <1>1, <2>1 DEF Walks
<1>4. TypeOK'
  <2>1. /\ table' \in [Row -> [prio : Prio, at : Stamp, col : Col] \cup {None}]
        /\ view \in OfTasks => \A y \in Row : table'[y] # None => table'[y].at.zone = 0
    BY <1>1 DEF TypeOK, tb
  <2> QED
    BY <1>1, <1>2, <1>3, <2>1 DEF TypeOK, OfTasks
<1>5. SteadyAhead'
  <2> SUFFICES ASSUME NEW y \in Steady(tb, walk.filter)
               PROVE  /\ Alone(table', walk'.filter, y)
                      /\ walk.pc \in {"count", "page", "select"} =>
                             y \in walk.seen \/ Place(y)' >= Offset(walk.n)
                      /\ walk.pc = "page" => Place(y)' < walk.total
    BY <1>1, <1>2, NextPlaces DEF SteadyAhead
  <2>1. /\ y \in walk.steady /\ Alone(tb, walk.filter, y) /\ NoneLeft(tb, walk.filter, y)
        /\ walk.pc = "page" => NoneCame(tb, walk.filter, y)
    BY DEF Steady
  <2>2. /\ Alone(table, walk.filter, y)
        /\ walk.pc \in {"count", "page", "select"} => y \in walk.seen \/ Place(y) >= Offset(walk.n)
        /\ walk.pc = "page" => Place(y) < walk.total
    BY <2>1 DEF IInv, SteadyAhead
  <2>3. /\ Place(y)' \in Nat /\ Place(y) \in Nat /\ Place(y) <= Place(y)'
        /\ walk.pc = "page" => Place(y)' <= Place(y)
    BY <1>1, <1>2, <2>1, <2>2, NextPlaces, PlacesCompared
  <2>4. Offset(walk.n) \in Nat /\ walk.total \in Nat
    BY <1>1, OffsetType DEF Walks
  <2> QED
    BY <1>1, <1>2, <2>1, <2>2, <2>3, <2>4
<1>6. StillBehind'
  <2> SUFFICES ASSUME NEW y \in Still(tb, walk.filter)
               PROVE  Alone(table', walk'.filter, y) /\ Place(y)' < Offset(walk.n)
    BY <1>1, <1>2, NextPlaces DEF StillBehind
  <2>1. y \in walk.still /\ Alone(tb, walk.filter, y) /\ NoneCame(tb, walk.filter, y)
    BY DEF Still
  <2>2. Alone(table, walk.filter, y) /\ Place(y) < Offset(walk.n)
    BY <2>1 DEF IInv, StillBehind
  <2>3. Place(y)' \in Nat /\ Place(y) \in Nat /\ Place(y)' <= Place(y)
    BY <1>1, <1>2, <2>1, <2>2, NextPlaces, PlacesCompared
  <2>4. Offset(walk.n) \in Nat
    BY <1>1, OffsetType DEF Walks
  <2> QED
    BY <1>1, <1>2, <2>1, <2>2, <2>3, <2>4
<1>7. /\ WalkFinds' /\ ServedOnce' /\ (walk'.pc = "idle" => walk'.still = {})
      /\ view # "taskPage" => walk'.filter = walk'.asked
  BY <1>2 DEF IInv, WalkFinds, ServedOnce, Steady, Still
<1> QED
  BY <1>1, <1>4, <1>5, <1>6, <1>7 DEF IInv

LEMMA BeginStep ==
    ASSUME IInv, NEW f \in FiltersOf[view], NEW l \in Asked, NEW n \in 0..1, Begin(f, l, n)
    PROVE  IInv'
<1> DEFINE new == {x \in Wanted(f) : Alone(table, f, x)}
<1>1. /\ UNCHANGED <<view, table>> /\ walk \in Walks /\ walk.pc = "idle" /\ walk.still = {}
      /\ walk' = [walk EXCEPT !.pc = FirstStatement, !.asked = f, !.filter = f,
                              !.limit = l, !.n = n, !.steady = new]
      /\ f \in Filters /\ l \in Int /\ n \in Int /\ new \in SUBSET Row
      /\ FirstStatement \in {"select", "count"}
      /\ FirstStatement = "select" <=> view = "logPage"
  BY FiltersAssumption, LimitsAssumption DEF Begin, IInv, TypeOK, Wanted, FirstStatement
<1> HIDE DEF new
<1>2. /\ walk' \in Walks /\ walk'.pc = FirstStatement /\ walk'.filter = f /\ walk'.n = n
      /\ walk'.steady = new /\ walk'.still = {} /\ walk'.again = walk.again
      /\ walk'.asked = f
  BY <1>1 DEF Walks
<1>3. TypeOK'
  BY <1>1, <1>2 DEF IInv, TypeOK, OfTasks
<1>4. Offset(n) = 0
  <2>1. n <= IF view \in OfDashboard THEN 1 ELSE 0
    BY DEF Begin
  <2>2. CASE view \in OfDashboard
    <3>1. Greatest(n, 1) - 1 = 0
      BY <2>1, <2>2 DEF Greatest
    <3>2. 0 * PageSize = 0
      BY LimitsAssumption
    <3> QED
      BY <2>2, <3>1, <3>2 DEF Offset
  <2>3. CASE view \notin OfDashboard
    BY <2>1, <2>3 DEF Offset, Greatest
  <2> QED
    BY <2>2, <2>3
<1>5. SteadyAhead'
  <2> SUFFICES ASSUME NEW y \in new
               PROVE  Alone(table, f, y) /\ Cardinality(Ahead(table, f, y)) >= 0
    BY <1>1, <1>2, <1>4, NextPlaces DEF SteadyAhead
  <2> QED
    BY HasPlace DEF new
<1> QED
  BY <1>1, <1>2, <1>3, <1>5 DEF IInv, StillBehind, WalkFinds, ServedOnce

LEMMA CountStep ==
    ASSUME IInv, Count
    PROVE  IInv'
<1> DEFINE m == Cardinality(Matching(table, walk.filter))
<1>1. /\ UNCHANGED <<view, table>> /\ walk \in Walks /\ walk.pc = "count"
      /\ walk' = [walk EXCEPT !.pc = "page", !.total = m] /\ m \in Nat
  <2>1. Matching(table, walk.filter) \in SUBSET Row
    BY DEF Matching
  <2> QED
    BY <2>1, SubsetsFinite DEF Count, IInv, TypeOK
<1> HIDE DEF m
<1>2. /\ walk' \in Walks /\ walk'.pc = "page" /\ walk'.filter = walk.filter /\ walk'.n = walk.n
      /\ walk'.total = m /\ walk'.seen = walk.seen /\ walk'.steady = walk.steady
      /\ walk'.still = walk.still /\ walk'.again = walk.again /\ walk'.asked = walk.asked
  BY <1>1 DEF Walks
<1>3. TypeOK'
  BY <1>1, <1>2 DEF IInv, TypeOK, OfTasks
<1>4. \A y : /\ Place(y)' = Place(y)
             /\ Alone(table, walk.filter, y)' <=> Alone(table, walk.filter, y)
             /\ Offset(walk.n)' = Offset(walk.n)
  BY <1>1, <1>2, NextPlaces DEF Place
<1>5. SteadyAhead'
  <2>1. \A y : Alone(table, walk.filter, y) => Place(y) < m
    BY HasPlace DEF Place, m
  <2> QED
    BY <1>1, <1>2, <1>4, <2>1 DEF IInv, SteadyAhead
<1> QED
  BY <1>1, <1>2, <1>3, <1>4, <1>5 DEF IInv, StillBehind, WalkFinds, ServedOnce

LEMMA RetryStep ==
    ASSUME IInv, Retry
    PROVE  IInv'
<1>1. /\ UNCHANGED <<view, table>> /\ walk \in Walks /\ walk.pc = "page"
      /\ walk' = [walk EXCEPT !.pc = "count"]
  BY DEF Retry, IInv, TypeOK
<1>2. /\ walk' \in Walks /\ walk'.pc = "count" /\ walk'.filter = walk.filter /\ walk'.n = walk.n
      /\ walk'.seen = walk.seen /\ walk'.steady = walk.steady
      /\ walk'.still = walk.still /\ walk'.again = walk.again /\ walk'.asked = walk.asked
  BY <1>1 DEF Walks
<1>3. TypeOK'
  BY <1>1, <1>2 DEF IInv, TypeOK, OfTasks
<1>4. \A y : /\ Place(y)' = Place(y)
             /\ Alone(table, walk.filter, y)' <=> Alone(table, walk.filter, y)
             /\ Offset(walk.n)' = Offset(walk.n)
  BY <1>1, <1>2, NextPlaces DEF Place
<1> QED
  BY <1>1, <1>2, <1>3, <1>4 DEF IInv, SteadyAhead, StillBehind, WalkFinds, ServedOnce

\* The filter that forgets everything admits every row, so nothing that was ahead
\* of a row is behind it when the next page is asked for without the filter.
LEMMA FilterForgotten ==
    ASSUME TypeOK, NEW x
    PROVE  /\ NoFilter \in Filters
           /\ Ahead(table, walk.filter, x) \subseteq Ahead(table, NoFilter, x)
<1>1. NoFilter \in Filters
  BY DEF NoFilter, Filters
<1>2. \A y \in Row : Admits(walk.filter, table[y]) => Admits(NoFilter, table[y])
  BY DEF TypeOK, NoFilter, Admits
<1> QED
  BY <1>1, <1>2 DEF Ahead, Matching

LEMMA ServeStep ==
    ASSUME IInv, NEW read, NEW page, NEW reply, Serve(read, page, reply)
    PROVE  IInv'
<1> DEFINE on == GoesOn(page, read)
           f == IF on THEN NextFilter ELSE walk.filter
           fresh == {x \in reply : Alone(table, walk.filter, x)}
           steady == {x \in walk.steady \ (page \ reply) : Alone(table, f, x)}
           still == {x \in walk.still \cup fresh : Alone(table, f, x) /\ NoneCame(table, f, x)}
           o == Offset(walk.n)
           k == Limit(walk.limit)
           n == NextN(page)
           pc == IF on THEN FirstStatement ELSE "end"
           again == reply \cap walk.still
<1>1. /\ UNCHANGED <<view, table>> /\ walk \in Walks
      /\ walk' = [walk EXCEPT !.pc = pc, !.n = n, !.filter = f, !.seen = @ \cup reply,
                              !.again = @ \cup again, !.steady = steady, !.still = still]
      /\ Sent(read, page) /\ reply \subseteq page
  BY DEF Serve, Sent, Replies, IInv, TypeOK
<1>2. o \in Nat /\ k \in Nat /\ n \in Int /\ Offset(n) \in Nat /\ reply \in SUBSET Row
  BY <1>1, SentTypes, NextBegins
<1>3. /\ f \in Filters
      /\ \A x : Ahead(table, walk.filter, x) \subseteq Ahead(table, f, x)
      /\ view # "taskPage" => f = walk.filter
  BY <1>1, FilterForgotten DEF NextFilter, Sent, Walks
<1>4. pc \in {"select", "count", "end"} /\ (pc = "select" => view = "logPage")
      /\ (view = "logPage" => pc \in {"select", "end"}) /\ (pc # "end" => on) /\ (pc = "end" => ~on)
  BY DEF FirstStatement
<1>5. steady \in SUBSET Row /\ still \in SUBSET Row /\ again \in SUBSET Row
  BY <1>1, <1>2 DEF Walks
<1>6. \A x \in walk.still : Alone(table, walk.filter, x) /\ Place(x) < o
  BY DEF IInv, StillBehind
<1>7. again = {}
  <2> SUFFICES ASSUME NEW x \in reply, x \in walk.still PROVE FALSE
    OBVIOUS
  <2>1. Alone(table, walk.filter, x) /\ Place(x) < o
    BY <1>6
  <2>2. o <= Place(x) /\ Place(x) \in Nat
    BY <1>1, <2>1, SentRows, HasPlace DEF Place
  <2> HIDE DEF o
  <2> QED
    BY <1>2, <2>1, <2>2
<1>8. \A x \in steady :
          /\ Alone(table, walk.filter, x) /\ Alone(table, f, x)
          /\ x \in walk.seen \/ Place(x) >= o
          /\ walk.pc = "page" => Place(x) < walk.total
  BY <1>1 DEF IInv, SteadyAhead, Sent
<1>9. \A x \in steady : x \in walk.seen \cup reply \/ on
  BY <1>1, <1>8, LastPage
<1>10. \A x \in steady : x \in walk.seen \cup reply \/ Place(x) >= Offset(n)
  BY <1>1, <1>8, StillAhead
<1>11. \A x \in still :
           /\ Alone(table, walk.filter, x) /\ Alone(table, f, x) /\ NoneCame(table, f, x)
           /\ Place(x) < Offset(n)
  BY <1>1, <1>6, LeftBehind
<1> HIDE DEF on, f, steady, still, o, k, n, pc, again
<1>12. /\ walk' \in Walks /\ walk'.pc = pc /\ walk'.filter = f /\ walk'.n = n
       /\ walk'.seen = walk.seen \cup reply /\ walk'.steady = steady /\ walk'.still = still
       /\ walk'.again = walk.again /\ walk'.asked = walk.asked
  <2>1. walk.seen \cup reply \in SUBSET Row /\ pc \in {"idle", "count", "page", "select", "end"}
    BY <1>1, <1>2, <1>4 DEF Walks
  <2> QED
    BY <1>1, <1>2, <1>3, <1>5, <1>7, <2>1 DEF Walks
<1>13. TypeOK'
  BY <1>1, <1>4, <1>12 DEF IInv, TypeOK, OfTasks
<1>14. /\ \A x : /\ Place(x)' = Cardinality(Ahead(table, f, x))
                 /\ Alone(table, walk.filter, x)' <=> Alone(table, f, x)
       /\ Offset(walk.n)' = Offset(n)
  BY <1>1, <1>12, NextPlaces
<1>15. SteadyAhead'
  <2> SUFFICES ASSUME NEW x \in steady
               PROVE  /\ Alone(table, f, x)
                      /\ x \in walk.seen \cup reply \/ Place(x)' >= Offset(n)
    BY <1>4, <1>12, <1>14 DEF SteadyAhead
  <2>1. Alone(table, walk.filter, x) /\ Alone(table, f, x)
    BY <1>8
  <2>2. Place(x) \in Nat /\ Place(x)' \in Nat /\ Place(x) <= Place(x)'
    BY <1>3, <1>14, <2>1, PlacesCompared DEF NoneLeft
  <2> QED
    BY <1>2, <1>10, <2>1, <2>2
<1>16. StillBehind'
  <2> SUFFICES ASSUME NEW x \in still
               PROVE  Alone(table, f, x) /\ Place(x)' < Offset(n)
    BY <1>12, <1>14 DEF StillBehind
  <2>1. /\ Alone(table, walk.filter, x) /\ Alone(table, f, x) /\ NoneCame(table, f, x)
        /\ Place(x) < Offset(n)
    BY <1>11
  <2>2. Place(x) \in Nat /\ Place(x)' \in Nat /\ Place(x)' <= Place(x)
    BY <1>14, <2>1, PlacesCompared
  <2> QED
    BY <1>2, <2>1, <2>2
<1> QED
  BY <1>1, <1>3, <1>4, <1>9, <1>12, <1>13, <1>15, <1>16 DEF IInv, WalkFinds, ServedOnce

-----------------------------------------------------------------------------
(* Theorems *)

\* The invariant: what a walk has still to find lies at or behind its offset,
\* and what it must not find again lies before it.
THEOREM Invariance == Spec => []IInv
<1>1. Init => IInv
  <2> SUFFICES ASSUME Init PROVE IInv
    OBVIOUS
  <2>1. walk \in Walks /\ walk.pc = "idle"
    BY DEF Init, Walks, NoFilter, Filters
  <2>2. TypeOK
    BY <2>1 DEF Init, TypeOK
  <2> QED
    BY <2>1, <2>2 DEF Init, IInv, SteadyAhead, StillBehind, WalkFinds, ServedOnce
<1>2. IInv /\ [Next]_vars => IInv'
  <2> SUFFICES ASSUME IInv, [Next]_vars PROVE IInv'
    OBVIOUS
  <2>1. ASSUME NEW x \in Row, NEW p \in Prio, NEW s \in Stamp, NEW c \in Col, Insert(x, p, s, c)
        PROVE  IInv'
    BY <2>1, WriteStep DEF Insert
  <2>2. ASSUME NEW x \in Row, NEW p \in Prio, NEW c \in Col, Change(x, p, c)
        PROVE  IInv'
    <3> DEFINE row == [table[x] EXCEPT !.prio = p, !.col = c]
    <3>1. row \in [prio : Prio, at : Stamp, col : Col] /\ (view \in OfTasks => row.at.zone = 0)
      BY <2>2 DEF Change, IInv, TypeOK
    <3>2. Write(x, row)
      BY <2>2 DEF Change
    <3> QED
      BY <3>1, <3>2, WriteStep
  <2>3. ASSUME NEW f \in FiltersOf[view], NEW l \in Asked, NEW n \in 0..1, Begin(f, l, n)
        PROVE  IInv'
    BY <2>3, BeginStep
  <2>4. CASE UNCHANGED vars
    <3>1. UNCHANGED <<view, table, walk>>
      BY <2>4 DEF vars
    <3>2. UNCHANGED <<TypeOK, WalkFinds, ServedOnce>>
      BY <3>1 DEF TypeOK, WalkFinds, ServedOnce, OfTasks
    <3>3. \A y : /\ Place(y)' = Place(y)
                 /\ Alone(table, walk.filter, y)' <=> Alone(table, walk.filter, y)
                 /\ Offset(walk.n)' = Offset(walk.n)
      BY <3>1, NextPlaces DEF Place
    <3> QED
      BY <3>1, <3>2, <3>3 DEF IInv, SteadyAhead, StillBehind
  <2> QED
    BY <2>1, <2>2, <2>3, <2>4, CountStep, ServeStep, RetryStep DEF Next
<1> QED
  BY <1>1, <1>2, PTL DEF Spec

\* The tables and the requests of a walk stay well formed; what the server stamps
\* is in UTC.
THEOREM TypeCorrect == Spec => []TypeOK
<1>1. IInv => TypeOK
  BY DEF IInv
<1> QED
  BY <1>1, Invariance, PTL

\* A client that reads to the last page has seen every row it could not miss,
\* whatever others write meanwhile.
THEOREM WalksFind == Spec => []WalkFinds
<1>1. IInv => WalkFinds
  BY DEF IInv
<1> QED
  BY <1>1, Invariance, PTL

\* No row is served twice unless another came in ahead of it.
THEOREM RowsServedOnce == Spec => []ServedOnce
<1>1. IInv => ServedOnce
  BY DEF IInv
<1> QED
  BY <1>1, Invariance, PTL

\* Rows stamped in UTC are filtered as the instants they stand for, whatever
\* zone the bounds are written in.
LEMMA AdmitsWanted ==
    ASSUME NEW f \in Filters, NEW row \in [prio : Prio, at : Stamp, col : Col],
           Admits(f, row), row.at.zone = 0
    PROVE  Wants(f, row)
<1>1. /\ row # None /\ row.col \in f.cols
      /\ f.least = None \/ row.prio >= f.least
      /\ row.at \in [utc : Int, zone : Int]
  BY StampAssumption DEF Admits
<1>2. ASSUME f.since # None PROVE row.at.utc >= f.since.utc
  <2>1. f.since \in [utc : Int, zone : Int]
    BY <1>2 DEF Filters
  <2>2. /\ InUTC(f.since) \in [utc : Int, zone : Int]
        /\ InUTC(f.since).utc = f.since.utc /\ InUTC(f.since).zone = 0
    BY <2>1 DEF InUTC
  <2>3. ~Earlier(row.at, InUTC(f.since))
    BY <1>2 DEF Admits
  <2>4. ~(row.at.utc + 0 < f.since.utc + 0)
    BY <2>2, <2>3 DEF Earlier, Local
  <2> QED
    BY <1>1, <2>1, <2>4
<1>3. ASSUME f.until # None PROVE row.at.utc <= f.until.utc
  <2>1. f.until \in [utc : Int, zone : Int]
    BY <1>3 DEF Filters
  <2>2. /\ InUTC(f.until) \in [utc : Int, zone : Int]
        /\ InUTC(f.until).utc = f.until.utc /\ InUTC(f.until).zone = 0
    BY <2>1 DEF InUTC
  <2>3. ~Earlier(InUTC(f.until), row.at)
    BY <1>3 DEF Admits
  <2>4. ~(f.until.utc + 0 < row.at.utc + 0)
    BY <2>2, <2>3 DEF Earlier, Local
  <2> QED
    BY <1>1, <2>1, <2>4
<1> QED
  BY <1>1, <1>2, <1>3 DEF Wants

\* The pages show what was asked for.
THEOREM PagesServeWanted == Spec => ServesWanted
<1> DEFINE A == \A x \in walk'.seen \ walk.seen :
                    table[x].at.zone = 0 /\ view # "taskPage" => x \in Wanted(walk.asked)
<1>1. ASSUME IInv, Next PROVE A
  <2> SUFFICES ASSUME NEW x \in walk'.seen, x \notin walk.seen,
                      table[x].at.zone = 0, view # "taskPage"
               PROVE  x \in Wanted(walk.asked)
    OBVIOUS
  <2>1. walk \in Walks
    BY <1>1 DEF IInv, TypeOK
  <2>2. PICK read, page, reply : Serve(read, page, reply)
    BY <1>1, <2>1 DEF Next, Insert, Change, Write, Begin, Count, Retry, Walks
  <2>3. /\ x \in page /\ page \in Shown(read)
        /\ IsPage(read, Offset(walk.n), Fetched(walk.limit))
    BY <2>1, <2>2 DEF Serve, Replies, Walks
  <2>4. x \in Row /\ Admits(walk.filter, table[x])
    BY <2>3 DEF Shown, IsPage, Matching
  <2>5. table[x] \in [prio : Prio, at : Stamp, col : Col]
    BY <1>1, <2>4 DEF IInv, TypeOK, Admits
  <2>6. walk.filter = walk.asked /\ walk.filter \in Filters
    BY <1>1, <2>1 DEF IInv, Walks
  <2> QED
    BY <2>4, <2>5, <2>6, AdmitsWanted DEF Wanted
<1>2. IInv /\ [Next]_vars => [A]_vars
  BY <1>1
<1> QED
  BY <1>2, Invariance, PTL DEF Spec, ServesWanted
=============================================================================
