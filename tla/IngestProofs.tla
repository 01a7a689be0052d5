---------------------------- MODULE IngestProofs ----------------------------
(***************************************************************************)
(* Proofs about Ingest, for any markets, histories, page size, windows,    *)
(* cleaning rules and faults. The walks of DataClient come first: whatever *)
(* pages a walk gets, the bars it has passed it also has.                  *)
(***************************************************************************)
EXTENDS Ingest, TLAPS, SequenceTheorems, FiniteSetTheorems, NaturalsInduction

Jobs == [pc : {"idle", "markets", "next", "page", "funding"},
         running : BOOLEAN, cancelRequested : BOOLEAN, cancelled : BOOLEAN,
         error : BOOLEAN, venue : Venues, lo : Hours, hi : Hours,
         todo : SUBSET Markets, results : [Markets -> Statuses], done : Nat,
         walk : Walks, failed : BOOLEAN, bars : Nat]

Scripts == [kind : {"none", "gapfill", "ingest", "refresh"},
            pc : {"idle", "plan", "fill", "candles", "funding"},
            todo : SUBSET Markets, skip : BOOLEAN, pass : Nat, previous : Int,
            stable : Nat, behind : SUBSET Markets,
            outcome : {"none", "complete", "plateau", "exhausted", "error"}]

\* The hours a walk has passed: from the end of the range down, or from its start.
Passed(v, walk, lo, hi) ==
    IF v = "dydx" THEN walk.cursor .. hi - 1 ELSE lo .. walk.cursor - 1

\* A walk has only bars of its market, and all of those it has passed unless a
\* page failed.
WalkOK ==
    job.pc = "page" =>
        /\ job.lo <= job.walk.cursor /\ job.walk.cursor <= job.hi
        /\ job.walk.got \subseteq Published(job.venue, Current)
        /\ ~ job.failed =>
              Published(job.venue, Current) \cap Passed(job.venue, job.walk, job.lo, job.hi)
                  \subseteq job.walk.got

Settlements == {m \in Markets : job.results[m] \notin {"absent", "pending"}}

\* The markets still to take are those without a result, and the others are counted.
TallyOK ==
    /\ job.running <=> job.pc # "idle"
    /\ job.pc \in {"page", "funding"} => job.todo # {}
    /\ job.pc = "markets" => Settlements = {} /\ job.todo = {}
    /\ job.todo = Unsettled
    /\ job.done = Cardinality(Settlements)
    /\ job.running => ~ job.cancelled
    /\ ~ job.running => (job.cancelled <=> job.todo # {})
    /\ job.cancelled => job.cancelRequested

\* A script that is at the rates of a market has that market still to do.
ScriptOK == script.pc = "funding" => script.todo # {}

FilesOK == \A m \in Markets : csv[m].bars \subseteq Published("dydx", m)

CachesOK ==
    /\ candles \in [Venues -> [Markets -> SUBSET Hours]]
    /\ funding \in [Venues -> [Markets -> SUBSET Hours]]
    /\ csv \in [Markets -> [bars : SUBSET Hours, rates : SUBSET Hours, hasRates : BOOLEAN]]

IInv ==
    /\ CachesOK /\ FilesOK /\ OnlyClean
    /\ job \in Jobs /\ job.lo <= job.hi /\ WalkOK /\ TallyOK
    /\ script \in Scripts /\ ScriptOK

-----------------------------------------------------------------------------
(***************************************************************************)
(* Least and greatest hours.                                               *)
(***************************************************************************)

\* A set with a lower bound in it has a minimum.
LEMMA MinOf ==
    ASSUME NEW S, NEW x \in S, \A y \in S : x <= y
    PROVE  Min(S) \in S /\ \A y \in S : Min(S) <= y
BY DEF Min

\* A set with an upper bound in it has a maximum.
LEMMA MaxOf ==
    ASSUME NEW S, NEW x \in S, \A y \in S : x >= y
    PROVE  Max(S) \in S /\ \A y \in S : Max(S) >= y
BY DEF Max

\* The smaller of two numbers.
LEMMA MinOfPair ==
    ASSUME NEW a \in Int, NEW b \in Int
    PROVE  Min({a, b}) \in {a, b} /\ Min({a, b}) <= a /\ Min({a, b}) <= b
<1>1. CASE a <= b
  BY <1>1, MinOf
<1>2. CASE ~ (a <= b)
  BY <1>2, MinOf
<1>. QED BY <1>1, <1>2

\* The larger of two numbers.
LEMMA MaxOfPair ==
    ASSUME NEW a \in Int, NEW b \in Int
    PROVE  Max({a, b}) \in {a, b} /\ Max({a, b}) >= a /\ Max({a, b}) >= b
<1>1. CASE a >= b
  BY <1>1, MaxOf
<1>2. CASE ~ (a >= b)
  BY <1>2, MaxOf
<1>. QED BY <1>1, <1>2

\* Every nonempty set of naturals has a minimum.
LEMMA MinIn ==
    ASSUME NEW S \in SUBSET Nat, S # {}
    PROVE  Min(S) \in S /\ \A y \in S : Min(S) <= y
<1>. DEFINE Less == {ss \in Nat \X Nat : ss[1] < ss[2]}
<1>1. IsWellFoundedOn(Less, Nat)
  BY NatLessThanWellFounded DEF OpToRel
<1>2. PICK x \in S : \A y \in S : ~ (<<y, x>> \in Less)
  <2>. HIDE DEF Less
  <2>. QED BY <1>1, WFMin
<1>3. ASSUME NEW y \in Nat, y < x PROVE <<y, x>> \in Less
  <2>1. <<y, x>> \in Nat \X Nat /\ <<y, x>>[1] = y /\ <<y, x>>[2] = x
    OBVIOUS
  <2>. QED BY <1>3, <2>1
<1>4. ASSUME NEW y \in S PROVE x <= y
  <2>1. x \in Nat /\ y \in Nat
    OBVIOUS
  <2>2. ~ (y < x)
    <3>. HIDE DEF Less
    <3>. QED BY <1>2, <1>3, <2>1
  <2>. QED BY <2>1, <2>2
<1>. QED BY <1>4, MinOf

\* The hours are finite: what is greatest is what is farthest from the end.
LEMMA MaxIn ==
    ASSUME NEW S \in SUBSET Hours, S # {}
    PROVE  Max(S) \in S /\ \A y \in S : Max(S) >= y
<1>. DEFINE T == {n \in Nat : \E x \in S : n = Horizon - x}
<1>1. T # {} /\ T \in SUBSET Nat
  <2>1. PICK x : x \in S
    OBVIOUS
  <2>2. x \in Int /\ 1 <= x /\ x <= Horizon /\ Horizon \in Nat
    <3>1. x \in Hours
      BY <2>1
    <3>. HIDE DEF T
    <3>. QED BY <3>1, HorizonAssumption DEF Hours
  <2>3. Horizon - x \in T
    BY <2>1, <2>2
  <2>. QED BY <2>3
<1>2. Min(T) \in T /\ \A y \in T : Min(T) <= y
  <2>. HIDE DEF T
  <2>. QED BY <1>1, MinIn
<1>3. PICK x \in S : Min(T) = Horizon - x
  BY <1>2
<1>4. \A y \in S : Horizon - y \in T /\ y \in Int
  BY HorizonAssumption DEF Hours
<1>5. \A y \in S : x >= y
  <2>. HIDE DEF T
  <2>. QED BY <1>2, <1>3, <1>4, HorizonAssumption DEF Hours
<1>. QED BY <1>5, MaxOf

\* There are finitely many hours, so bars can be counted.
LEMMA HoursFinite ==
    ASSUME NEW S \in SUBSET Hours
    PROVE  IsFiniteSet(S) /\ Cardinality(S) \in Nat
<1>1. IsFiniteSet(Hours)
  BY HorizonAssumption, FS_Interval DEF Hours
<1>. QED BY <1>1, FS_Subset, FS_CardinalityType

\* There are finitely many markets, so a job's counts are numbers.
LEMMA MarketsFinite ==
    ASSUME NEW S \in SUBSET Markets
    PROVE  IsFiniteSet(S) /\ Cardinality(S) \in Nat
<1>1. Sorted \in Surjection(1 .. Len(Sorted), Markets)
  BY SortedAssumption, LenProperties DEF Surjection, Range
<1>2. IsFiniteSet(Markets)
  BY <1>1, SortedAssumption, LenProperties, FS_Interval, FS_Surjection
<1>. QED BY <1>2, FS_Subset, FS_CardinalityType

\* The first of some markets is one of them.
LEMMA FirstIn ==
    ASSUME NEW markets \in SUBSET Markets, markets # {}
    PROVE  First(markets) \in markets
<1>. DEFINE places == {i \in DOMAIN Sorted : Sorted[i] \in markets}
<1>1. places # {} /\ places \in SUBSET Nat
  BY SortedAssumption, LenProperties DEF Range
<1>2. Min(places) \in places
  <2>. HIDE DEF places
  <2>. QED BY <1>1, MinIn
<1>. QED BY <1>2 DEF First

-----------------------------------------------------------------------------
(***************************************************************************)
(* Pages: the newest or the oldest bars of a set.                          *)
(***************************************************************************)

\* The newest bars are bars, with all newer ones; if there is a bar there is a
\* newest one; and beside the very last one there is another.
LEMMA NewestBars ==
    ASSUME NEW S \in SUBSET Hours, NEW n \in Nat, n >= 2
    PROVE  /\ Newest(S, n) \subseteq S
           /\ \A h \in Newest(S, n), g \in S : g > h => g \in Newest(S, n)
           /\ S # {} => Newest(S, n) # {}
           /\ \A c \in S : (\A x \in S : x <= c) /\ S # {c} =>
                 \E x \in Newest(S, n) : x < c
<1>. DEFINE newer(h) == {g \in S : g > h}
<1>1. \A h \in S : IsFiniteSet(newer(h)) /\ Cardinality(newer(h)) \in Nat
  BY HoursFinite
<1>2. \A h \in S : h \in Newest(S, n) <=> Cardinality(newer(h)) < n
  BY DEF Newest
<1>3. Newest(S, n) \subseteq S /\ \A h \in S : h \in Int
  BY DEF Newest, Hours
<1>4. ASSUME NEW h \in Newest(S, n), NEW g \in S, g > h
      PROVE  g \in Newest(S, n)
  <2>1. newer(g) \subseteq newer(h)
    BY <1>3, <1>4
  <2>. HIDE DEF newer
  <2>2. Cardinality(newer(g)) <= Cardinality(newer(h))
    BY <1>1, <1>3, <2>1, FS_Subset
  <2>. QED BY <1>1, <1>2, <1>3, <2>2
<1>5. ASSUME S # {} PROVE Newest(S, n) # {}
  <2>1. Max(S) \in S /\ \A y \in S : Max(S) >= y
    BY <1>5, MaxIn
  <2>2. newer(Max(S)) = {}
    BY <1>3, <2>1
  <2>3. Cardinality(newer(Max(S))) = 0
    BY <2>2, FS_EmptySet
  <2>. QED BY <1>2, <2>1, <2>3
<1>6. ASSUME NEW c \in S, \A x \in S : x <= c, S # {c}
      PROVE  \E x \in Newest(S, n) : x < c
  <2>. DEFINE rest == S \ {c}
              g == Max(rest)
  <2>1. g \in rest /\ \A y \in rest : g >= y
    <3>1. rest \in SUBSET Hours /\ rest # {}
      BY <1>6
    <3>. HIDE DEF rest
    <3>. QED BY <3>1, MaxIn
  <2>2. g \in S /\ g < c
    BY <1>3, <1>6, <2>1
  <2>3. newer(g) \subseteq {c}
    BY <1>3, <2>1
  <2>. HIDE DEF newer, g
  <2>4. Cardinality(newer(g)) <= 1
    <3>1. IsFiniteSet({c}) /\ Cardinality({c}) = 1
      BY FS_Singleton
    <3>. QED BY <2>3, <3>1, FS_Subset
  <2>. QED BY <1>1, <1>2, <2>2, <2>4
<1>. QED BY <1>3, <1>4, <1>5, <1>6

\* The oldest bars, with all older ones.
LEMMA OldestBars ==
    ASSUME NEW S \in SUBSET Hours, NEW n \in Nat, n >= 2
    PROVE  /\ Oldest(S, n) \subseteq S
           /\ \A h \in Oldest(S, n), g \in S : g < h => g \in Oldest(S, n)
           /\ S # {} => Oldest(S, n) # {}
<1>. DEFINE older(h) == {g \in S : g < h}
<1>1. \A h \in S : IsFiniteSet(older(h)) /\ Cardinality(older(h)) \in Nat
  BY HoursFinite
<1>2. \A h \in S : h \in Oldest(S, n) <=> Cardinality(older(h)) < n
  BY DEF Oldest
<1>3. Oldest(S, n) \subseteq S /\ \A h \in S : h \in Nat
  BY DEF Oldest, Hours
<1>4. ASSUME NEW h \in Oldest(S, n), NEW g \in S, g < h
      PROVE  g \in Oldest(S, n)
  <2>1. older(g) \subseteq older(h)
    BY <1>3, <1>4
  <2>. HIDE DEF older
  <2>2. Cardinality(older(g)) <= Cardinality(older(h))
    BY <1>1, <1>3, <2>1, FS_Subset
  <2>. QED BY <1>1, <1>2, <1>3, <2>2
<1>5. ASSUME S # {} PROVE Oldest(S, n) # {}
  <2>1. Min(S) \in S /\ \A y \in S : Min(S) <= y
    BY <1>3, <1>5, MinIn
  <2>2. older(Min(S)) = {}
    BY <1>3, <2>1
  <2>3. Cardinality(older(Min(S))) = 0
    BY <2>2, FS_EmptySet
  <2>. QED BY <1>2, <2>1, <2>3
<1>. QED BY <1>3, <1>4, <1>5

-----------------------------------------------------------------------------
(***************************************************************************)
(* Walks.                                                                  *)
(***************************************************************************)

\* What a venue publishes lies within the hours of the instance.
LEMMA FeedHours ==
    ASSUME NEW v \in Venues, NEW m \in Markets
    PROVE  Published(v, m) \in SUBSET Hours /\ FundingFeed[v][m] \in SUBSET Hours
BY FeedAssumption DEF Published

\* A walk that stands in its range and has bars of its market only.
Walking(v, m, walk, lo, hi) ==
    /\ walk \in Walks
    /\ lo <= walk.cursor /\ walk.cursor <= hi
    /\ walk.got \subseteq Published(v, m)

Complete(v, m, walk, lo, hi) ==
    Published(v, m) \cap Passed(v, walk, lo, hi) \subseteq walk.got

\* A walk that has fetched no page has passed nothing, so it has all it passed.
LEMMA WalkBegins ==
    ASSUME NEW v \in Venues, NEW m \in Markets, NEW lo \in Hours, NEW hi \in Hours, lo <= hi
    PROVE  /\ Walking(v, m, WalkFrom(v, lo, hi), lo, hi)
           /\ Complete(v, m, WalkFrom(v, lo, hi), lo, hi)
BY DEF Walking, Complete, WalkFrom, Walks, Passed, Hours

\* The end of a chunk lies in the range.
LEMMA ChunkEndIn ==
    ASSUME NEW walk \in Walks, NEW hi \in Hours, walk.cursor <= hi
    PROVE  /\ ChunkEnd(walk, hi) \in Hours
           /\ walk.cursor <= ChunkEnd(walk, hi) /\ ChunkEnd(walk, hi) <= hi
<1>1. /\ walk.cursor \in Nat /\ walk.cursor >= 1 /\ hi \in Nat /\ hi <= Horizon
      /\ Horizon \in Nat /\ PageSize \in Nat
  BY PageAssumption, HorizonAssumption DEF Walks, Hours
<1>2. /\ ChunkEnd(walk, hi) \in {walk.cursor + PageSize, hi}
      /\ ChunkEnd(walk, hi) <= walk.cursor + PageSize /\ ChunkEnd(walk, hi) <= hi
  <2>. DEFINE next == walk.cursor + PageSize
  <2>1. next \in Int /\ ChunkEnd(walk, hi) = Min({next, hi})
    BY <1>1 DEF ChunkEnd
  <2>. HIDE DEF next
  <2>2. Min({next, hi}) \in {next, hi} /\ Min({next, hi}) <= next /\ Min({next, hi}) <= hi
    <3>1. next \in Int /\ hi \in Int
      BY <1>1, <2>1
    <3>. QED BY ONLY <3>1, MinOfPair
  <2>. QED BY <2>1, <2>2 DEF next
<1>. QED BY <1>1, <1>2 DEF Hours

\* A failed page ends a backward walk and passes a chunk of a forward one.
LEMMA WalkLosesPage ==
    ASSUME NEW v \in Venues, NEW m \in Markets, NEW lo \in Hours, NEW hi \in Hours,
           NEW walk, Walking(v, m, walk, lo, hi)
    PROVE  Walking(v, m, WalkOn(v, walk, NoPage, lo, hi), lo, hi)
<1>1. lo \in Int /\ hi \in Int /\ walk.cursor \in Int /\ lo <= hi
  BY DEF Walking, Walks, Hours
<1>2. ChunkEnd(walk, hi) \in Hours /\ lo <= ChunkEnd(walk, hi) /\ ChunkEnd(walk, hi) <= hi
  BY <1>1, ChunkEndIn DEF Walking, Hours
<1>. QED BY <1>1, <1>2 DEF Walking, WalkOn, NoPage, Backward, Forward, Walks

\* dYdX: the newest bars below the cursor, or at it too. The cursor goes to the
\* oldest of them, or to the start of the range when there is nothing older.
LEMMA BackwardStep ==
    ASSUME NEW m \in Markets, NEW lo \in Hours, NEW hi \in Hours,
           NEW walk, Walking("dydx", m, walk, lo, hi),
           NEW page \in Pages("dydx", m, walk, lo, hi)
    PROVE  LET on == Backward(walk, page, lo)
           IN  /\ Walking("dydx", m, on, lo, hi)
               /\ Complete("dydx", m, walk, lo, hi) => Complete("dydx", m, on, lo, hi)
<1>. DEFINE bars == Published("dydx", m)
            on == Backward(walk, page, lo)
<1>1. /\ walk.cursor \in Nat /\ lo \in Nat /\ hi \in Nat /\ lo <= walk.cursor
      /\ walk.cursor <= hi /\ walk.got \subseteq bars /\ walk \in Walks
  BY DEF Walking, Walks, Hours
<1>2. bars \in SUBSET Hours
  BY FeedHours DEF Venues
<1>3. PICK last \in {walk.cursor - 1, walk.cursor} :
         page = Newest(bars \cap (lo .. last), PageSize)
  BY DEF Pages
<1>. DEFINE S == bars \cap (lo .. last)
<1>4. last \in Int /\ last <= walk.cursor /\ walk.cursor - 1 <= last
  BY <1>1
<1>5. /\ \A h \in bars : h \in Nat
      /\ \A h : h \in S <=> h \in bars /\ lo <= h /\ h <= last
  BY <1>1, <1>2, <1>4 DEF Hours
<1>6. /\ page \subseteq S
      /\ \A h \in page, g \in S : g > h => g \in page
      /\ S # {} => page # {}
      /\ \A c \in S : (\A x \in S : x <= c) /\ S # {c} => \E x \in page : x < c
  <2>1. S \in SUBSET Hours
    BY <1>2
  <2>. HIDE DEF S
  <2>. QED BY <1>3, <2>1, NewestBars, PageAssumption DEF S
<1>. HIDE DEF S
<1>7. page \subseteq bars /\ on.got = walk.got \cup page
  BY <1>5, <1>6 DEF Backward
\* Everything from the new cursor up to the old one is on the page.
<1>8. /\ lo <= on.cursor /\ on.cursor <= walk.cursor /\ on.cursor \in Nat
      /\ \A h \in bars : on.cursor <= h /\ h < walk.cursor => h \in page
  <2>1. CASE page = {}
    <3>1. on.cursor = lo
      BY <2>1 DEF Backward
    <3>. QED BY <1>1, <1>4, <1>5, <1>6, <2>1, <3>1
  <2>. DEFINE low == Min(page)
  <2>2. page # {} => low \in page /\ \A y \in page : low <= y
    <3>1. page \in SUBSET Nat
      BY <1>5, <1>7
    <3>. QED BY <3>1, MinIn
  <2>3. CASE page # {} /\ low >= walk.cursor
    <3>1. on.cursor = lo
      BY <2>3 DEF Backward
    <3>2. low = walk.cursor /\ low \in S
      BY <1>1, <1>4, <1>5, <1>6, <2>2, <2>3
    <3>3. \A x \in S : x <= walk.cursor
      BY <1>1, <1>4, <1>5
    <3>4. S = {walk.cursor}
      BY <1>1, <1>5, <1>6, <2>2, <2>3, <3>2, <3>3
    <3>. QED BY <1>1, <1>4, <1>5, <3>1, <3>4
  <2>4. CASE page # {} /\ ~ (low >= walk.cursor)
    <3>1. low \in Nat /\ lo <= low /\ low < walk.cursor
      BY <1>1, <1>5, <1>6, <2>2, <2>4
    <3>2. on.cursor = low
      <4>1. on.cursor = Max({lo, low})
        BY <2>4 DEF Backward
      <4>. HIDE DEF low, on
      <4>2. Max({lo, low}) \in {lo, low} /\ Max({lo, low}) >= low
        <5>1. lo \in Int /\ low \in Int
          BY <1>1, <3>1
        <5>. QED BY ONLY <5>1, MaxOfPair
      <4>. QED BY <1>1, <3>1, <4>1, <4>2
    <3>3. ASSUME NEW h \in bars, low <= h, h < walk.cursor PROVE h \in page
      <4>1. h \in S /\ h \in Nat
        BY <1>1, <1>4, <1>5, <3>1, <3>3
      <4>. QED BY <1>6, <2>2, <2>4, <3>1, <3>3, <4>1
    <3>. HIDE DEF low
    <3>. QED BY <1>1, <3>1, <3>2, <3>3
  <2>. QED BY <2>1, <2>3, <2>4
<1>9. on \in Walks
  <2>1. on = [cursor |-> on.cursor, got |-> on.got]
    BY DEF Backward
  <2>. HIDE DEF on
  <2>2. on.cursor \in Hours
    <3>1. lo >= 1 /\ hi <= Horizon /\ Horizon \in Nat
      BY HorizonAssumption DEF Hours
    <3>. QED BY <1>1, <1>8, <3>1 DEF Hours
  <2>3. on.got \in SUBSET Hours
    BY <1>1, <1>2, <1>7
  <2>. QED BY <2>1, <2>2, <2>3 DEF Walks
<1>. HIDE DEF on
<1>10. Walking("dydx", m, on, lo, hi)
  BY <1>1, <1>7, <1>8, <1>9 DEF Walking
<1>11. ASSUME Complete("dydx", m, walk, lo, hi) PROVE Complete("dydx", m, on, lo, hi)
  <2>1. \A h \in bars : walk.cursor <= h /\ h <= hi - 1 => h \in walk.got
    BY <1>1, <1>5, <1>11 DEF Complete, Passed
  <2>2. \A h \in bars : on.cursor <= h /\ h <= hi - 1 => h \in on.got
    BY <1>1, <1>5, <1>7, <1>8, <2>1
  <2>. QED BY <1>1, <1>5, <1>8, <2>2 DEF Complete, Passed
<1>. QED BY <1>10, <1>11 DEF on

\* Hyperliquid: the oldest bars of a chunk. The cursor goes past the newest of
\* them, or to the end of the chunk when it has no bar.
LEMMA ForwardStep ==
    ASSUME NEW m \in Markets, NEW lo \in Hours, NEW hi \in Hours,
           NEW walk, Walking("hyperliquid", m, walk, lo, hi),
           NEW page \in Pages("hyperliquid", m, walk, lo, hi)
    PROVE  LET on == Forward(walk, page, hi)
           IN  /\ Walking("hyperliquid", m, on, lo, hi)
               /\ Complete("hyperliquid", m, walk, lo, hi) =>
                     Complete("hyperliquid", m, on, lo, hi)
<1>. DEFINE bars == Published("hyperliquid", m)
            on == Forward(walk, page, hi)
            end == ChunkEnd(walk, hi)
            S == bars \cap (walk.cursor .. end)
<1>1. /\ walk.cursor \in Nat /\ lo \in Nat /\ hi \in Nat /\ lo <= walk.cursor
      /\ walk.cursor <= hi /\ walk.got \subseteq bars /\ walk \in Walks
  BY DEF Walking, Walks, Hours
<1>2. bars \in SUBSET Hours
  BY FeedHours DEF Venues
<1>3. page = Oldest(S, PageSize)
  BY DEF Pages
<1>4. end \in Nat /\ walk.cursor <= end /\ end <= hi
  BY <1>1, ChunkEndIn DEF Hours
<1>5. /\ \A h \in bars : h \in Nat
      /\ \A h : h \in S <=> h \in bars /\ walk.cursor <= h /\ h <= end
  BY <1>1, <1>2, <1>4 DEF Hours
<1>6. /\ page \subseteq S
      /\ \A h \in page, g \in S : g < h => g \in page
      /\ S # {} => page # {}
  <2>1. S \in SUBSET Hours
    BY <1>2
  <2>. HIDE DEF S
  <2>. QED BY <1>3, <2>1, OldestBars, PageAssumption
<1>. HIDE DEF S
<1>7. page \subseteq bars /\ on.got = walk.got \cup page
  BY <1>5, <1>6 DEF Forward
\* Everything from the old cursor up to the new one is on the page.
<1>8. /\ walk.cursor <= on.cursor /\ on.cursor <= hi /\ on.cursor \in Nat
      /\ \A h \in bars : walk.cursor <= h /\ h < on.cursor => h \in page
  <2>1. CASE page = {}
    <3>1. on.cursor = end
      BY <2>1 DEF Forward
    <3>. QED BY <1>1, <1>4, <1>5, <1>6, <2>1, <3>1
  <2>. DEFINE high == Max(page)
  <2>2. CASE page # {}
    <3>1. high \in page /\ \A y \in page : high >= y
      <4>1. page \in SUBSET Hours
        BY <1>2, <1>7
      <4>. QED BY <2>2, <4>1, MaxIn
    <3>2. high \in Nat /\ walk.cursor <= high /\ high <= end
      BY <1>5, <1>6, <3>1
    <3>3. on.cursor \in {hi, high + 1} /\ on.cursor <= hi /\ on.cursor <= high + 1
      <4>1. on.cursor = Min({hi, high + 1})
        BY <2>2 DEF Forward
      <4>. DEFINE after == high + 1
      <4>2. after \in Int /\ on.cursor = Min({hi, after})
        BY <3>2, <4>1
      <4>. HIDE DEF high, on, after
      <4>3. /\ Min({hi, after}) \in {hi, after}
            /\ Min({hi, after}) <= hi /\ Min({hi, after}) <= after
        BY <1>1, <4>2, MinOfPair
      <4>. QED BY <4>2, <4>3 DEF after
    <3>. HIDE DEF high, on, end
    <3>4. ASSUME NEW h \in bars, walk.cursor <= h, h < on.cursor PROVE h \in page
      <4>1. h \in Nat /\ h <= high
        BY <1>1, <1>5, <3>2, <3>3, <3>4
      <4>2. h \in S
        BY <1>4, <1>5, <3>2, <3>4, <4>1
      <4>3. h = high \/ h < high
        BY <3>2, <4>1
      <4>. QED BY <1>6, <3>1, <4>2, <4>3
    <3>. QED BY <1>1, <1>4, <3>2, <3>3, <3>4
  <2>. QED BY <2>1, <2>2
<1>9. on \in Walks
  <2>1. on = [cursor |-> on.cursor, got |-> on.got]
    BY DEF Forward
  <2>. HIDE DEF on
  <2>2. on.cursor \in Hours
    <3>1. lo >= 1 /\ hi <= Horizon /\ Horizon \in Nat
      BY HorizonAssumption DEF Hours
    <3>. QED BY <1>1, <1>8, <3>1 DEF Hours
  <2>3. on.got \in SUBSET Hours
    BY <1>1, <1>2, <1>7
  <2>. QED BY <2>1, <2>2, <2>3 DEF Walks
<1>. HIDE DEF on
<1>10. Walking("hyperliquid", m, on, lo, hi)
  BY <1>1, <1>7, <1>8, <1>9 DEF Walking
<1>11. ASSUME Complete("hyperliquid", m, walk, lo, hi)
       PROVE  Complete("hyperliquid", m, on, lo, hi)
  <2>1. \A h \in bars : lo <= h /\ h <= walk.cursor - 1 => h \in walk.got
    BY <1>1, <1>5, <1>11 DEF Complete, Passed
  <2>2. \A h \in bars : lo <= h /\ h <= on.cursor - 1 => h \in on.got
    BY <1>1, <1>5, <1>7, <1>8, <2>1
  <2>. QED BY <1>1, <1>5, <1>8, <2>2 DEF Complete, Passed
<1>. QED BY <1>10, <1>11 DEF on

\* A page keeps a walk complete, whichever the venue.
LEMMA WalkTakesPage ==
    ASSUME NEW v \in Venues, NEW m \in Markets, NEW lo \in Hours, NEW hi \in Hours,
           NEW walk, Walking(v, m, walk, lo, hi), NEW page \in Pages(v, m, walk, lo, hi)
    PROVE  /\ Walking(v, m, WalkOn(v, walk, page, lo, hi), lo, hi)
           /\ Complete(v, m, walk, lo, hi) =>
                 Complete(v, m, WalkOn(v, walk, page, lo, hi), lo, hi)
<1>1. CASE v = "dydx"
  BY <1>1, BackwardStep DEF WalkOn
<1>2. CASE v = "hyperliquid"
  BY <1>2, ForwardStep DEF WalkOn
<1>. QED BY <1>1, <1>2 DEF Venues

\* A complete walk that is over has every bar but perhaps the one at the end.
LEMMA WalkEnds ==
    ASSUME NEW v \in Venues, NEW m \in Markets, NEW lo \in Hours, NEW hi \in Hours,
           NEW walk, Walking(v, m, walk, lo, hi), Complete(v, m, walk, lo, hi),
           WalkOver(v, walk, lo, hi)
    PROVE  Published(v, m) \cap (lo .. hi - 1) \subseteq walk.got
<1>1. walk.cursor \in Int /\ lo \in Int /\ hi \in Int
  BY DEF Walking, Walks, Hours
<1>. QED BY <1>1 DEF Walking, Complete, Passed, WalkOver, Venues

-----------------------------------------------------------------------------
(***************************************************************************)
(* The fetch job.                                                          *)
(***************************************************************************)

JobInv == job \in Jobs /\ job.lo <= job.hi /\ WalkOK /\ TallyOK
CacheInv == CachesOK /\ FilesOK /\ OnlyClean
ScriptInv == script \in Scripts /\ ScriptOK

\* No job, or one that has just been started.
LEMMA FreshJob ==
    ASSUME NEW pc \in {"idle", "markets"}, NEW running \in BOOLEAN,
           running <=> pc # "idle",
           NEW v \in Venues, NEW lo \in Hours, NEW hi \in Hours, lo <= hi,
           job' = [NoJob EXCEPT !.pc = pc, !.running = running,
                                !.venue = v, !.lo = lo, !.hi = hi]
    PROVE  JobInv'
<1>1. 1 \in Hours /\ "dydx" \in Venues
  BY HorizonAssumption DEF Hours, Venues
<1>2. NoJob \in Jobs
  BY <1>1 DEF NoJob, Jobs, Statuses, WalkFrom, Walks
<1>3. /\ job' \in Jobs /\ job'.pc = pc /\ job'.running = running /\ job'.todo = {}
      /\ ~ job'.cancelled /\ job'.done = 0 /\ job'.lo = lo /\ job'.hi = hi
      /\ job'.results = [m \in Markets |-> "absent"]
  <2>1. /\ ~ NoJob.cancelled /\ NoJob.done = 0 /\ NoJob.todo = {}
        /\ NoJob.results = [m \in Markets |-> "absent"]
    BY DEF NoJob
  <2>. QED BY <1>2, <2>1 DEF Jobs
<1>4. Settlements' = {} /\ Unsettled' = {}
  BY <1>3 DEF Settlements, Unsettled
<1>5. Cardinality({}) = 0
  BY FS_EmptySet
<1>. QED BY <1>3, <1>4, <1>5 DEF JobInv, WalkOK, TallyOK

\* A job that is over keeps its results.
LEMMA OverJob ==
    ASSUME NEW locals \in Jobs
    PROVE  /\ Over(locals) \in Jobs
           /\ Over(locals).pc = "idle" /\ ~ Over(locals).running
           /\ Over(locals).todo = locals.todo /\ Over(locals).results = locals.results
           /\ Over(locals).done = locals.done /\ Over(locals).cancelled = locals.cancelled
           /\ Over(locals).cancelRequested = locals.cancelRequested
           /\ Over(locals).lo = locals.lo /\ Over(locals).hi = locals.hi
<1>1. NoJob.walk \in Walks
  BY HorizonAssumption DEF NoJob, WalkFrom, Walks, Hours
<1>. DEFINE w == NoJob.walk
            o == Over(locals)
<1>2. w \in Walks
  BY <1>1
<1>3. o = [locals EXCEPT !.running = FALSE, !.pc = "idle", !.walk = w,
                         !.failed = FALSE, !.bars = 0]
  BY DEF Over, NoWalk, Jobs
<1>. HIDE DEF w, o
<1>4. /\ o \in Jobs
      /\ o.pc = "idle" /\ ~ o.running
      /\ o.todo = locals.todo /\ o.results = locals.results
      /\ o.done = locals.done /\ o.cancelled = locals.cancelled
      /\ o.cancelRequested = locals.cancelRequested
      /\ o.lo = locals.lo /\ o.hi = locals.hi
  BY <1>2, <1>3 DEF Jobs
<1>. QED BY <1>4 DEF o

\* The first market of those left.
LEMMA CurrentIn ==
    ASSUME JobInv, job.todo # {}
    PROVE  Current \in job.todo /\ Current \in Markets
BY FirstIn DEF JobInv, Jobs, Current

\* A market gets its result: it is counted and no longer to be taken.
LEMMA SettledInv ==
    ASSUME JobInv, job.pc \in {"page", "funding"},
           NEW status \in Statuses \ {"absent", "pending"}, job' = Settled(status)
    PROVE  JobInv'
<1>. DEFINE m == Current
            w == NoJob.walk
<1>1. m \in job.todo /\ m \in Markets
  BY CurrentIn DEF JobInv, TallyOK
<1>2. w \in Walks
  BY HorizonAssumption DEF NoJob, WalkFrom, Walks, Hours
<1>. HIDE DEF m, w
<1>3. job' = [job EXCEPT !.pc = "next", !.done = @ + 1, !.todo = @ \ {m},
                         !.results = [@ EXCEPT ![m] = status],
                         !.walk = w, !.failed = FALSE, !.bars = 0]
  BY DEF Settled, NoWalk, m, w, JobInv, Jobs
<1>. DEFINE r == [job.results EXCEPT ![m] = status]
<1>4. r \in [Markets -> Statuses]
  BY <1>1 DEF JobInv, Jobs
<1>5. job.done + 1 \in Nat /\ job.todo \ {m} \in SUBSET Markets
  BY DEF JobInv, Jobs
<1>6. job' = [job EXCEPT !.pc = "next", !.done = job.done + 1, !.todo = job.todo \ {m},
                         !.results = r, !.walk = w, !.failed = FALSE, !.bars = 0]
  BY <1>3 DEF JobInv, Jobs
<1>. HIDE DEF r
<1>. DEFINE d == job.done + 1
            t == job.todo \ {m}
<1>. HIDE DEF d, t
<1>7. /\ job' \in Jobs /\ job'.pc = "next" /\ job'.done = d
      /\ job'.todo = t /\ job'.results = r
      /\ UNCHANGED <<job.running, job.cancelled, job.cancelRequested, job.lo, job.hi>>
  <2>1. d \in Nat /\ t \in SUBSET Markets
    BY <1>5 DEF d, t
  <2>2. job' = [job EXCEPT !.pc = "next", !.done = d, !.todo = t, !.results = r,
                           !.walk = w, !.failed = FALSE, !.bars = 0]
    BY <1>6 DEF d, t
  <2>3. job \in Jobs /\ 0 \in Nat /\ FALSE \in BOOLEAN
    BY DEF JobInv
  <2>4. job' \in Jobs
    BY <1>2, <1>4, <2>1, <2>2, <2>3 DEF Jobs
  <2>5. /\ job'.pc = "next" /\ job'.done = d /\ job'.todo = t /\ job'.results = r
        /\ UNCHANGED <<job.running, job.cancelled, job.cancelRequested, job.lo, job.hi>>
    BY <2>2, <2>3 DEF Jobs
  <2>. QED BY <2>4, <2>5
<1>8. /\ job' \in Jobs /\ job'.pc = "next" /\ job'.done = job.done + 1
      /\ job'.todo = job.todo \ {m} /\ job'.results = [job.results EXCEPT ![m] = status]
      /\ UNCHANGED <<job.running, job.cancelled, job.cancelRequested, job.lo, job.hi>>
  BY <1>7 DEF d, t, r
<1>9. job.todo = Unsettled /\ job.results \in [Markets -> Statuses]
  BY DEF JobInv, TallyOK, Jobs
<1>10. Unsettled' = Unsettled \ {m}
  BY <1>1, <1>8, <1>9 DEF Unsettled
<1>11. Settlements' = Settlements \cup {m} /\ m \notin Settlements
  BY <1>1, <1>8, <1>9 DEF Unsettled, Settlements
<1>12. Cardinality(Settlements \cup {m}) = Cardinality(Settlements) + 1
  <2>1. IsFiniteSet(Settlements)
    BY MarketsFinite DEF Settlements
  <2>. QED BY <1>11, <2>1, FS_AddElement
<1>. QED BY <1>8, <1>9, <1>10, <1>11, <1>12 DEF JobInv, WalkOK, TallyOK

\* A new job has done nothing, and its counts say so.
LEMMA StartFetchInv ==
    ASSUME JobInv, StartFetch
    PROVE  JobInv'
<1>1. PICK v \in Venues, lo \in Hours, hi \in Hours :
         /\ lo < hi
         /\ job' = [NoJob EXCEPT !.pc = "markets", !.running = TRUE,
                                 !.venue = v, !.lo = lo, !.hi = hi]
  BY DEF StartFetch
<1>2. lo <= hi
  BY <1>1 DEF Hours
<1>. QED BY <1>1, <1>2, FreshJob

\* A cancel sets the flag alone.
LEMMA RequestCancelInv ==
    ASSUME JobInv, RequestCancel
    PROVE  JobInv'
<1>1. /\ job' \in Jobs /\ job'.cancelRequested
      /\ UNCHANGED <<job.pc, job.running, job.cancelled, job.venue, job.lo, job.hi, job.todo,
                     job.results, job.done, job.walk, job.failed>>
  BY DEF RequestCancel, JobInv, Jobs
<1>2. UNCHANGED <<Current, Unsettled, Settlements>>
  BY <1>1 DEF Current, Unsettled, Settlements
<1>. QED BY <1>1, <1>2 DEF JobInv, WalkOK, TallyOK

\* Discovery ends the job or gives it its markets.
LEMMA DiscoverInv ==
    ASSUME JobInv, Discover
    PROVE  JobInv'
<1>1. /\ job.pc = "markets" /\ job.todo = {} /\ Settlements = {} /\ Unsettled = {}
      /\ job.running /\ ~ job.cancelled /\ job.done = 0
  BY FS_EmptySet DEF Discover, JobInv, TallyOK
<1>2. CASE job' = [job EXCEPT !.pc = "next", !.todo = Listed[job.venue],
                              !.results = Entries(Listed[job.venue])]
  <2>. DEFINE listed == Listed[job.venue]
  <2>1. listed \in SUBSET Markets
    BY ListedAssumption DEF JobInv, Jobs
  <2>. HIDE DEF listed
  <2>2. Entries(listed) \in [Markets -> Statuses]
    BY DEF Entries, Statuses
  <2>3. /\ job' \in Jobs /\ job'.pc = "next" /\ job'.todo = listed
        /\ job'.results = Entries(listed)
        /\ UNCHANGED <<job.running, job.cancelled, job.cancelRequested, job.lo, job.hi,
                       job.done>>
    BY <1>2, <2>1, <2>2 DEF JobInv, Jobs, listed
  <2>4. Settlements' = {} /\ Unsettled' = listed
    BY <2>1, <2>3 DEF Settlements, Unsettled, Entries
  <2>. QED BY <1>1, <2>3, <2>4 DEF JobInv, WalkOK, TallyOK
<1>3. CASE job' = Over([job EXCEPT !.error = TRUE])
  <2>. DEFINE l == [job EXCEPT !.error = TRUE]
  <2>1. /\ l \in Jobs /\ l.todo = job.todo /\ l.results = job.results /\ l.done = job.done
        /\ l.cancelled = job.cancelled /\ l.lo = job.lo /\ l.hi = job.hi
        /\ l.cancelRequested = job.cancelRequested
    BY DEF JobInv, Jobs
  <2>. HIDE DEF l
  <2>2. /\ job' \in Jobs /\ job'.pc = "idle" /\ ~ job'.running /\ ~ job'.cancelled
        /\ UNCHANGED <<job.todo, job.results, job.done, job.lo, job.hi>>
    BY <1>1, <1>3, <2>1, OverJob DEF l
  <2>3. UNCHANGED <<Settlements, Unsettled>>
    BY <2>2 DEF Settlements, Unsettled
  <2>. QED BY <1>1, <2>2, <2>3 DEF JobInv, WalkOK, TallyOK
<1>4. CASE job' = [job EXCEPT !.pc = "next"]
  <2>1. /\ job' \in Jobs /\ job'.pc = "next"
        /\ UNCHANGED <<job.running, job.cancelled, job.cancelRequested, job.todo, job.results,
                       job.done, job.lo, job.hi>>
    BY <1>4 DEF JobInv, Jobs
  <2>2. UNCHANGED <<Settlements, Unsettled>>
    BY <2>1 DEF Settlements, Unsettled
  <2>. QED BY <1>1, <2>1, <2>2 DEF JobInv, WalkOK, TallyOK
<1>. QED BY <1>2, <1>3, <1>4 DEF Discover

\* The next market starts a walk, or the job ends and reports.
LEMMA NextMarketInv ==
    ASSUME JobInv, NextMarket
    PROVE  JobInv'
<1>1. job \in Jobs /\ job.pc = "next" /\ job.running /\ ~ job.cancelled
  BY DEF NextMarket, JobInv, TallyOK
<1>2. CASE job.todo = {} /\ job' = Over(job)
  <2>1. /\ job' \in Jobs /\ job'.pc = "idle" /\ ~ job'.running /\ ~ job'.cancelled
        /\ UNCHANGED <<job.todo, job.results, job.done, job.lo, job.hi>>
    BY <1>1, <1>2, OverJob
  <2>2. UNCHANGED <<Settlements, Unsettled>>
    BY <2>1 DEF Settlements, Unsettled
  <2>. QED BY <1>2, <2>1, <2>2 DEF JobInv, WalkOK, TallyOK
<1>3. CASE /\ job.todo # {} /\ job.cancelRequested
           /\ job' = Over([job EXCEPT !.cancelled = TRUE])
  <2>. DEFINE l == [job EXCEPT !.cancelled = TRUE]
  <2>1. /\ l \in Jobs /\ l.todo = job.todo /\ l.results = job.results /\ l.done = job.done
        /\ l.cancelled /\ l.lo = job.lo /\ l.hi = job.hi
        /\ l.cancelRequested = job.cancelRequested
    BY <1>1 DEF Jobs
  <2>. HIDE DEF l
  <2>2. /\ job' \in Jobs /\ job'.pc = "idle" /\ ~ job'.running /\ job'.cancelled
        /\ UNCHANGED <<job.todo, job.results, job.done, job.lo, job.hi, job.cancelRequested>>
    BY <1>3, <2>1, OverJob DEF l
  <2>3. UNCHANGED <<Settlements, Unsettled>>
    BY <2>2 DEF Settlements, Unsettled
  <2>. QED BY <1>3, <2>2, <2>3 DEF JobInv, WalkOK, TallyOK
<1>4. CASE /\ job.todo # {}
           /\ job' = [job EXCEPT !.pc = "page", !.walk = WalkFrom(job.venue, job.lo, job.hi)]
  <2>. DEFINE w == WalkFrom(job.venue, job.lo, job.hi)
  <2>1. /\ Current \in Markets /\ job.venue \in Venues /\ job.lo \in Hours /\ job.hi \in Hours
        /\ job.lo <= job.hi
    BY <1>1, <1>4, CurrentIn DEF JobInv, Jobs
  <2>2. /\ Walking(job.venue, Current, w, job.lo, job.hi)
        /\ Complete(job.venue, Current, w, job.lo, job.hi)
    BY <2>1, WalkBegins
  <2>. HIDE DEF w
  <2>3. w \in Walks
    BY <2>2 DEF Walking
  <2>4. /\ job' \in Jobs /\ job'.pc = "page" /\ job'.walk = w
        /\ UNCHANGED <<job.running, job.cancelled, job.cancelRequested, job.venue, job.lo,
                       job.hi, job.todo, job.results, job.done>>
    BY <1>1, <1>4, <2>3 DEF Jobs, w
  <2>5. UNCHANGED <<Settlements, Unsettled, Current>>
    BY <2>4 DEF Settlements, Unsettled, Current
  <2>6. WalkOK'
    BY <2>2, <2>4, <2>5 DEF WalkOK, Walking, Complete
  <2>. QED BY <1>1, <1>4, <2>4, <2>5, <2>6 DEF JobInv, TallyOK
<1>. QED BY <1>2, <1>3, <1>4 DEF NextMarket

\* What WalkOK says of the walk under way.
LEMMA WalkUnderWay ==
    ASSUME JobInv, job.pc = "page"
    PROVE  /\ job.venue \in Venues /\ Current \in Markets
           /\ job.lo \in Hours /\ job.hi \in Hours /\ job.todo # {}
           /\ Walking(job.venue, Current, job.walk, job.lo, job.hi)
           /\ ~ job.failed => Complete(job.venue, Current, job.walk, job.lo, job.hi)
<1>1. job.todo # {} /\ job \in Jobs
  BY DEF JobInv, TallyOK
<1>. QED BY <1>1, CurrentIn DEF JobInv, Jobs, WalkOK, Walking, Complete

\* A page extends the walk it belongs to.
LEMMA FetchPageInv ==
    ASSUME JobInv, FetchPage
    PROVE  JobInv'
<1>1. job.pc = "page" /\ job \in Jobs
  BY DEF FetchPage, JobInv
<1>2. PICK walk \in Walks, failed \in BOOLEAN :
         /\ job' = [job EXCEPT !.walk = walk, !.failed = failed]
         /\ Walking(job.venue, Current, walk, job.lo, job.hi)
         /\ ~ failed => Complete(job.venue, Current, walk, job.lo, job.hi)
  <2>1. CASE \E page \in Pages(job.venue, Current, job.walk, job.lo, job.hi) :
                job' = [job EXCEPT !.walk = WalkOn(job.venue, @, page, job.lo, job.hi)]
    <3>1. PICK page \in Pages(job.venue, Current, job.walk, job.lo, job.hi) :
             job' = [job EXCEPT !.walk = WalkOn(job.venue, @, page, job.lo, job.hi)]
      BY <2>1
    <3>. DEFINE walk == WalkOn(job.venue, job.walk, page, job.lo, job.hi)
    <3>2. /\ Walking(job.venue, Current, walk, job.lo, job.hi)
          /\ ~ job.failed => Complete(job.venue, Current, walk, job.lo, job.hi)
      BY <1>1, WalkUnderWay, WalkTakesPage
    <3>. HIDE DEF walk
    <3>3. job' = [job EXCEPT !.walk = walk, !.failed = job.failed] /\ job.failed \in BOOLEAN
      BY <1>1, <3>1 DEF Jobs, walk
    <3>. QED BY <3>2, <3>3 DEF Walking
  <2>2. CASE job' = [job EXCEPT !.walk = WalkOn(job.venue, @, NoPage, job.lo, job.hi),
                                !.failed = TRUE]
    <3>. DEFINE walk == WalkOn(job.venue, job.walk, NoPage, job.lo, job.hi)
    <3>1. Walking(job.venue, Current, walk, job.lo, job.hi)
      BY <1>1, WalkUnderWay, WalkLosesPage
    <3>2. job' = [job EXCEPT !.walk = walk, !.failed = TRUE]
      BY <1>1, <2>2 DEF Jobs
    <3>. HIDE DEF walk
    <3>. QED BY <3>1, <3>2 DEF Walking
  <2>. QED BY <2>1, <2>2 DEF FetchPage
<1>3. walk \in Walks
  BY <1>2 DEF Walking
<1>4. /\ job' \in Jobs /\ job'.walk = walk /\ job'.failed = failed
      /\ UNCHANGED <<job.pc, job.running, job.cancelled, job.cancelRequested, job.venue,
                     job.lo, job.hi, job.todo, job.results, job.done>>
  BY <1>1, <1>2, <1>3 DEF Jobs
<1>5. UNCHANGED <<Settlements, Unsettled, Current>>
  BY <1>4 DEF Settlements, Unsettled, Current
<1>6. WalkOK'
  BY <1>2, <1>4, <1>5 DEF WalkOK, Walking, Complete
<1>. QED BY <1>4, <1>5, <1>6 DEF JobInv, TallyOK

\* The rows of the walk are usable bars of the window.
LEMMA RowsUsable ==
    ASSUME JobInv, job.pc = "page"
    PROVE  /\ Rows \subseteq Usable(job.venue, Current)
           /\ Rows \in SUBSET Hours
<1>1. job.walk.got \subseteq Published(job.venue, Current)
  BY WalkUnderWay DEF Walking
<1>2. Published(job.venue, Current) \in SUBSET Hours
  BY WalkUnderWay, FeedHours
<1>. QED BY <1>1, <1>2 DEF Rows, Usable, Clean

\* Merging a walk moves the job to the market's funding, or settles it as an error.
LEMMA MergeCandlesInv ==
    ASSUME JobInv, MergeCandles
    PROVE  JobInv'
<1>1. job.pc = "page" /\ job \in Jobs
  BY DEF MergeCandles, JobInv
<1>2. CASE job' = Settled("error")
  BY <1>1, <1>2, SettledInv DEF Statuses
<1>3. CASE job' = [job EXCEPT !.pc = "funding", !.bars = Cardinality(Rows)]
  <2>. DEFINE n == Cardinality(Rows)
  <2>1. n \in Nat
    BY <1>1, RowsUsable, HoursFinite
  <2>. HIDE DEF n
  <2>2. /\ job' \in Jobs /\ job'.pc = "funding"
        /\ UNCHANGED <<job.running, job.cancelled, job.cancelRequested,
                       job.lo, job.hi, job.todo, job.results, job.done>>
    BY <1>1, <1>3, <2>1 DEF Jobs, n
  <2>3. UNCHANGED <<Settlements, Unsettled>>
    BY <2>2 DEF Settlements, Unsettled
  <2>. QED BY <1>1, <2>2, <2>3 DEF JobInv, WalkOK, TallyOK
<1>. QED BY <1>2, <1>3 DEF MergeCandles

\* A market is settled, counted, and not to do any more.
LEMMA MergeFundingInv ==
    ASSUME JobInv, MergeFunding
    PROVE  JobInv'
<1>1. job.pc = "funding" /\ (job' = Settled(Verdict) \/ job' = Settled("error"))
  BY DEF MergeFunding
<1>2. {"ok", "empty", "error"} \subseteq Statuses \ {"absent", "pending"}
  BY DEF Statuses
<1>. QED BY <1>1, <1>2, SettledInv DEF Verdict

\* A crash forgets the job.
LEMMA AppCrashInv ==
    ASSUME JobInv, AppCrash
    PROVE  JobInv'
<1>1. /\ job' = NoJob /\ NoJob.pc = "idle" /\ NoJob.running = FALSE
      /\ NoJob.venue = "dydx" /\ NoJob.lo = 1 /\ NoJob.hi = 1
  BY DEF AppCrash, NoJob
<1>2. 1 \in Hours /\ "dydx" \in Venues /\ 1 <= 1
  BY HorizonAssumption DEF Hours, Venues
<1>3. NoJob \in Jobs
  BY <1>2 DEF NoJob, Jobs, Statuses, WalkFrom, Walks
<1>4. job' = [NoJob EXCEPT !.pc = "idle", !.running = FALSE, !.venue = "dydx",
                           !.lo = 1, !.hi = 1]
  BY <1>1, <1>3 DEF Jobs
<1>5. "idle" \in {"idle", "markets"} /\ FALSE \in BOOLEAN /\ (FALSE <=> "idle" # "idle")
  OBVIOUS
<1>. QED BY <1>2, <1>4, <1>5, FreshJob
-----------------------------------------------------------------------------
(***************************************************************************)
(* The cache and the files.                                                *)
(***************************************************************************)

\* A market's hours are replaced by others, usable ones for candles.
LEMMA CacheReplaced ==
    ASSUME CacheInv, NEW v \in Venues, NEW m \in Markets, NEW rows \in SUBSET Hours,
           \/ /\ candles' = [candles EXCEPT ![v][m] = rows] /\ funding' = funding
              /\ rows \subseteq Usable(v, m)
           \/ candles' = candles /\ funding' = [funding EXCEPT ![v][m] = rows],
           csv' = csv
    PROVE  CacheInv'
<1>1. CASE /\ candles' = [candles EXCEPT ![v][m] = rows] /\ funding' = funding
           /\ rows \subseteq Usable(v, m)
  <2>1. \A w \in Venues, n \in Markets :
           candles'[w][n] = IF w = v /\ n = m THEN rows ELSE candles[w][n]
    BY <1>1 DEF CacheInv, CachesOK
  <2>2. CachesOK'
    BY <1>1 DEF CacheInv, CachesOK
  <2>. QED BY <1>1, <2>1, <2>2 DEF CacheInv, FilesOK, OnlyClean
<1>2. CASE candles' = candles /\ funding' = [funding EXCEPT ![v][m] = rows]
  BY <1>2 DEF CacheInv, CachesOK, FilesOK, OnlyClean
<1>. QED BY <1>1, <1>2

\* A merge into hours that are usable.
LEMMA MergedUsable ==
    ASSUME NEW cached, NEW rows, NEW usable, NEW lo, NEW hi,
           cached \subseteq usable, rows \subseteq usable
    PROVE  Merged(cached, rows, lo, hi) \subseteq usable
BY DEF Merged

\* What the job merges are published bars, cleaned.
LEMMA MergeCandlesCache ==
    ASSUME CacheInv, JobInv, MergeCandles
    PROVE  CacheInv'
<1>1. job.pc = "page" /\ funding' = funding /\ csv' = csv
  BY DEF MergeCandles
<1>2. CASE candles' = candles
  BY <1>1, <1>2 DEF CacheInv, CachesOK, FilesOK, OnlyClean
<1>3. CASE candles' = [candles EXCEPT ![job.venue][Current] =
                         Merged(@, Rows, job.lo, job.hi)]
  <2>1. job.venue \in Venues /\ Current \in Markets
    BY <1>1, WalkUnderWay
  <2>. DEFINE v == job.venue
              m == Current
              rows == Merged(candles[v][m], Rows, job.lo, job.hi)
  <2>2. candles[v][m] \subseteq Usable(v, m) /\ candles[v][m] \in SUBSET Hours
    BY <2>1 DEF CacheInv, OnlyClean, CachesOK
  <2>3. rows \subseteq Usable(v, m) /\ rows \in SUBSET Hours
    BY <1>1, <2>2, RowsUsable, MergedUsable
  <2>4. candles' = [candles EXCEPT ![v][m] = rows]
    BY <1>3, <2>1 DEF CacheInv, CachesOK
  <2>. HIDE DEF v, m, rows
  <2>. QED BY <1>1, <2>1, <2>3, <2>4, CacheReplaced DEF v, m
<1>. QED BY <1>2, <1>3 DEF MergeCandles

\* Funding joins the cache without touching a bar.
LEMMA MergeFundingCache ==
    ASSUME CacheInv, JobInv, MergeFunding
    PROVE  CacheInv'
<1>1. job.pc = "funding" /\ candles' = candles /\ csv' = csv /\ job \in Jobs
  BY DEF MergeFunding, JobInv
<1>2. job.venue \in Venues /\ Current \in Markets
  BY <1>1, CurrentIn DEF JobInv, TallyOK, Jobs
<1>. DEFINE v == job.venue
            m == Current
            full == FundingComplete(v, m, job.lo, job.hi)
            cut == FundingCut(v, m, job.lo, job.hi)
            with(rates) == IF rates = {} THEN funding
                           ELSE [funding EXCEPT ![v][m] = Merged(@, rates, job.lo, job.hi)]
<1>3. full \in SUBSET Hours /\ cut \subseteq SUBSET Hours
  <2>1. FundingFeed[v][m] \in SUBSET Hours
    BY <1>2, FeedHours
  <2>2. full \in SUBSET Hours
    BY <2>1 DEF FundingComplete
  <2>. QED BY <2>1, <2>2 DEF FundingCut
<1>4. funding' = funding \/ \E rates \in SUBSET Hours : funding' = with(rates)
  BY <1>3 DEF MergeFunding
<1>5. CASE funding' = funding
  BY <1>1, <1>5 DEF CacheInv, CachesOK, FilesOK, OnlyClean
<1>6. ASSUME NEW rates \in SUBSET Hours,
             funding' = [funding EXCEPT ![v][m] = Merged(@, rates, job.lo, job.hi)]
      PROVE  CacheInv'
  <2>. DEFINE rows == Merged(funding[v][m], rates, job.lo, job.hi)
  <2>1. rows \in SUBSET Hours
    BY <1>2 DEF CacheInv, CachesOK, Merged
  <2>2. funding' = [funding EXCEPT ![v][m] = rows]
    BY <1>2, <1>6 DEF CacheInv, CachesOK
  <2>. HIDE DEF v, m, rows
  <2>. QED BY <1>1, <1>2, <2>1, <2>2, CacheReplaced DEF v, m
<1>. QED BY <1>4, <1>5, <1>6

\* The files: what a walk brings is published.
LEMMA FileReplaced ==
    ASSUME CacheInv, NEW m \in Markets,
           \/ \E bars \in SUBSET Published("dydx", m) : csv' = [csv EXCEPT ![m].bars = bars]
           \/ \E rates \in SUBSET Hours :
                 csv' = [csv EXCEPT ![m].rates = rates, ![m].hasRates = TRUE],
           candles' = candles, funding' = funding
    PROVE  CacheInv'
<1>1. Published("dydx", m) \in SUBSET Hours
  BY FeedHours DEF Venues
<1>2. CASE \E bars \in SUBSET Published("dydx", m) : csv' = [csv EXCEPT ![m].bars = bars]
  <2>1. PICK bars \in SUBSET Published("dydx", m) : csv' = [csv EXCEPT ![m].bars = bars]
    BY <1>2
  <2>2. bars \in SUBSET Hours
    BY <1>1
  <2>3. CachesOK'
    BY <2>1, <2>2 DEF CacheInv, CachesOK
  <2>4. \A n \in Markets : csv'[n].bars = IF n = m THEN bars ELSE csv[n].bars
    BY <2>1 DEF CacheInv, CachesOK
  <2>. QED BY <2>3, <2>4 DEF CacheInv, FilesOK, OnlyClean
<1>3. CASE \E rates \in SUBSET Hours :
              csv' = [csv EXCEPT ![m].rates = rates, ![m].hasRates = TRUE]
  <2>1. PICK rates \in SUBSET Hours :
           csv' = [csv EXCEPT ![m].rates = rates, ![m].hasRates = TRUE]
    BY <1>3
  <2>2. CachesOK'
    BY <2>1 DEF CacheInv, CachesOK
  <2>3. \A n \in Markets : csv'[n].bars = csv[n].bars
    <3>1. csv[m] \in [bars : SUBSET Hours, rates : SUBSET Hours, hasRates : BOOLEAN]
      BY DEF CacheInv, CachesOK
    <3>2. csv'[m] = [csv[m] EXCEPT !.rates = rates, !.hasRates = TRUE]
      BY <2>1 DEF CacheInv, CachesOK
    <3>3. \A n \in Markets \ {m} : csv'[n] = csv[n]
      BY <2>1 DEF CacheInv, CachesOK
    <3>. QED BY <3>1, <3>2, <3>3
  <2>. QED BY <2>2, <2>3 DEF CacheInv, FilesOK, OnlyClean
<1>. QED BY <1>2, <1>3

\* A script with markets to do takes one of them.
LEMMA ScriptMarket ==
    ASSUME ScriptInv, script.todo # {}
    PROVE  First(script.todo) \in script.todo /\ First(script.todo) \in Markets
BY FirstIn DEF ScriptInv, Scripts

\* The CSV pipeline caches published bars, cleaned.
LEMMA IngestCache ==
    ASSUME CacheInv, ScriptInv, IngestCandles \/ IngestFunding
    PROVE  CacheInv'
<1>. DEFINE m == First(script.todo)
<1>1. m \in Markets /\ "dydx" \in Venues /\ csv' = csv
  BY ScriptMarket DEF IngestCandles, IngestFunding, ScriptInv, ScriptOK, ScriptAt, Venues
<1>2. csv[m].bars \subseteq Published("dydx", m) /\ csv[m].rates \in SUBSET Hours
  BY <1>1 DEF CacheInv, CachesOK, FilesOK
<1>3. FileRows(m) \subseteq Usable("dydx", m) /\ FileRows(m) \in SUBSET Hours
  <2>1. Published("dydx", m) \in SUBSET Hours
    BY <1>1, FeedHours
  <2>. QED BY <1>2, <2>1 DEF FileRows, Usable, Clean
<1>4. CASE candles' = candles /\ funding' = funding
  BY <1>1, <1>4 DEF CacheInv, CachesOK, FilesOK, OnlyClean
<1>5. CASE candles' = [candles EXCEPT !["dydx"][m] = FileRows(m)] /\ funding' = funding
  <2>. HIDE DEF m
  <2>. QED BY <1>1, <1>3, <1>5, CacheReplaced
<1>6. CASE funding' = [funding EXCEPT !["dydx"][m] = csv[m].rates] /\ candles' = candles
  <2>. DEFINE rates == csv[m].rates
  <2>. HIDE DEF m, rates
  <2>. QED BY <1>1, <1>2, <1>6, CacheReplaced DEF rates
<1>7. CASE IngestCandles
  BY <1>4, <1>5, <1>7 DEF IngestCandles
<1>8. CASE IngestFunding
  BY <1>4, <1>6, <1>8 DEF IngestFunding
<1>. QED BY <1>7, <1>8

\* A refresh caches published bars, cleaned.
LEMMA RefreshCache ==
    ASSUME CacheInv, ScriptInv, RefreshCandles \/ RefreshFunding
    PROVE  CacheInv'
<1>. DEFINE m == First(script.todo)
<1>1. m \in Markets /\ "dydx" \in Venues /\ candles' = candles /\ funding' = funding
  BY ScriptMarket
     DEF RefreshCandles, RefreshFunding, ScriptInv, ScriptOK, ScriptAt, Venues, cacheVars
<1>2. CASE csv' = csv
  BY <1>1, <1>2 DEF CacheInv, CachesOK, FilesOK, OnlyClean
<1>3. CASE RefreshCandles
  <2>1. \A first : Reached(m, first) \subseteq SUBSET Published("dydx", m)
    BY DEF Reached
  <2>2. csv' = csv \/ \E bars \in SUBSET Published("dydx", m) :
                         csv' = [csv EXCEPT ![m].bars = bars]
    BY <1>3, <2>1 DEF RefreshCandles
  <2>. HIDE DEF m
  <2>. QED BY <1>1, <1>2, <2>2, FileReplaced
<1>4. CASE RefreshFunding
  <2>1. FundingFeed["dydx"][m] \in SUBSET Hours
    BY <1>1, FeedHours
  <2>2. FundingComplete("dydx", m, 1, RefreshEnd) \in SUBSET Hours
    BY <2>1 DEF FundingComplete
  <2>3. FundingCut("dydx", m, 1, RefreshEnd) \subseteq SUBSET Hours
    BY <2>1 DEF FundingCut
  <2>4. csv' = csv \/ \E rates \in SUBSET Hours :
                         csv' = [csv EXCEPT ![m].rates = rates, ![m].hasRates = TRUE]
    BY <1>4, <2>2, <2>3 DEF RefreshFunding
  <2>. HIDE DEF m
  <2>. QED BY <1>1, <1>2, <2>4, FileReplaced
<1>. QED BY <1>3, <1>4

-----------------------------------------------------------------------------
(***************************************************************************)
(* The scripts.                                                            *)
(***************************************************************************)

\* A script that is over, with any outcome, is well formed.
LEMMA EndedTyped ==
    ASSUME ScriptInv, NEW outcome \in {"none", "complete", "plateau", "exhausted", "error"}
    PROVE  /\ Ended(outcome) \in Scripts /\ Ended(outcome).pc = "idle"
           /\ NoScript \in Scripts
           /\ \A b \in SUBSET Markets : [Ended(outcome) EXCEPT !.behind = b] \in Scripts
<1>1. NoScript \in Scripts
  BY DEF NoScript, Scripts
<1>2. NoScript.pc = "idle" /\ script.kind \in {"none", "gapfill", "ingest", "refresh"}
  BY DEF NoScript, ScriptInv, Scripts
<1>3. Ended(outcome) \in Scripts /\ Ended(outcome).pc = "idle"
  BY <1>1, <1>2 DEF Ended, Scripts
<1>4. \A b \in SUBSET Markets : [Ended(outcome) EXCEPT !.behind = b] \in Scripts
  BY <1>3 DEF Scripts
<1>. QED BY <1>1, <1>3, <1>4

\* A new script has its markets to do and nothing else.
LEMMA StartScriptInv ==
    ASSUME ScriptInv, StartGapfill \/ StartIngest \/ StartRefresh
    PROVE  ScriptInv'
<1>1. NoScript \in Scripts
  BY EndedTyped
<1>2. Listed["dydx"] \in SUBSET Markets /\ OnDisk \in SUBSET Markets
  BY ListedAssumption DEF Venues, OnDisk
<1>3. CASE StartGapfill
  BY <1>1, <1>3 DEF StartGapfill, StartScript, ScriptInv, ScriptOK, Scripts
<1>4. CASE StartIngest
  BY <1>1, <1>2, <1>4 DEF StartIngest, StartScript, ScriptInv, ScriptOK, Scripts
<1>5. CASE StartRefresh
  <2>1. PICK skip \in BOOLEAN, targets \in {OnDisk, Listed["dydx"] \ OnDisk} :
           StartScript([NoScript EXCEPT !.kind = "refresh", !.pc = "candles", !.skip = skip,
                                        !.todo = targets])
    BY <1>5 DEF StartRefresh
  <2>2. targets \in SUBSET Markets
    BY <1>2
  <2>. QED BY <1>1, <2>1, <2>2 DEF StartScript, ScriptInv, ScriptOK, Scripts
<1>. QED BY <1>3, <1>4, <1>5

\* One pass of the gap filler after another.
LEMMA GapInv ==
    ASSUME ScriptInv, GapPlan \/ GapFill \/ GapJudge
    PROVE  ScriptInv'
<1>1. script \in Scripts
  BY DEF ScriptInv
<1>2. Behind \in SUBSET Markets
  BY ListedAssumption DEF Behind, Venues
<1>3. \A locals \in Scripts : NextPass(locals) \in Scripts /\ NextPass(locals).pc # "funding"
  <2>. SUFFICES ASSUME NEW locals \in Scripts
                PROVE  NextPass(locals) \in Scripts /\ NextPass(locals).pc # "funding"
    OBVIOUS
  <2>1. CASE locals.pass + 1 = MaxPasses
    BY <2>1, EndedTyped DEF NextPass
  <2>2. CASE locals.pass + 1 # MaxPasses
    <3>1. NextPass(locals) = [locals EXCEPT !.pass = locals.pass + 1, !.pc = "plan"]
      BY <2>2 DEF NextPass, Scripts
    <3>2. locals.pass + 1 \in Nat
      BY DEF Scripts
    <3>. QED BY <3>1, <3>2 DEF Scripts
  <2>. QED BY <2>1, <2>2
<1>4. CASE GapPlan
  <2>1. CASE script' = [script EXCEPT !.pc = "fill", !.todo = Behind]
    BY <1>1, <1>2, <2>1 DEF ScriptInv, ScriptOK, Scripts
  <2>2. CASE script' = Ended("error")
    BY <2>2, EndedTyped DEF ScriptInv, ScriptOK
  <2>. QED BY <1>4, <2>1, <2>2 DEF GapPlan
<1>5. CASE GapFill
  <2>1. script.pc = "fill" /\ script' = [script EXCEPT !.todo = @ \ {First(@)}]
    BY <1>5 DEF GapFill, ScriptAt
  <2>. QED BY <1>1, <2>1 DEF ScriptInv, ScriptOK, Scripts
<1>6. CASE GapJudge
  <2>. DEFINE need == Cardinality(Behind)
              seen == [script EXCEPT !.behind = Behind, !.previous = need,
                                     !.stable = Stable(need)]
  <2>1. need \in Int /\ Stable(need) \in Nat
    <3>1. need \in Nat
      BY <1>2, MarketsFinite
    <3>2. script.stable + 1 \in Nat
      BY <1>1 DEF Scripts
    <3>. QED BY <3>1, <3>2 DEF Stable
  <2>2. seen \in Scripts
    <3>. HIDE DEF need
    <3>. QED BY <1>1, <1>2, <2>1 DEF Scripts
  <2>3. \/ script' = Ended("complete")
        \/ script' = [Ended("plateau") EXCEPT !.behind = Behind]
        \/ script' = NextPass(seen)
        \/ script' = NextPass(script)
    BY <1>6 DEF GapJudge
  <2>. HIDE DEF seen
  <2>4. CASE script' = [Ended("plateau") EXCEPT !.behind = Behind]
    <3>1. /\ Ended("plateau") \in Scripts /\ Ended("plateau").pc = "idle"
      BY EndedTyped
    <3>2. script' \in Scripts /\ script'.pc = "idle"
      BY <1>2, <2>4, <3>1 DEF Scripts
    <3>. QED BY <3>2 DEF ScriptInv, ScriptOK
  <2>5. CASE script' = Ended("complete") \/ script' = NextPass(seen)
                                         \/ script' = NextPass(script)
    BY <1>1, <1>3, <2>2, <2>5, EndedTyped DEF ScriptInv, ScriptOK
  <2>. QED BY <2>3, <2>4, <2>5
<1>. QED BY <1>4, <1>5, <1>6

\* The other scripts take one market after another.
LEMMA FileScriptInv ==
    ASSUME ScriptInv,
           \/ IngestExcluded \/ IngestCandles \/ IngestFunding \/ IngestDone
           \/ RefreshCandles \/ RefreshFunding \/ RefreshDone \/ ScriptKilled
    PROVE  ScriptInv'
<1>1. script \in Scripts
  BY DEF ScriptInv
<1>2. \/ script' = Advance("candles")
      \/ script' = [script EXCEPT !.pc = "funding"] /\ script.todo # {}
      \/ script' = Ended("error") \/ script' = Ended("complete")
  BY DEF IngestExcluded, IngestCandles, IngestFunding, IngestDone,
         RefreshCandles, RefreshFunding, RefreshDone, ScriptKilled
<1>3. CASE script' = Advance("candles")
  BY <1>1, <1>3 DEF Advance, ScriptInv, ScriptOK, Scripts
<1>4. CASE script' = [script EXCEPT !.pc = "funding"] /\ script.todo # {}
  BY <1>1, <1>4 DEF ScriptInv, ScriptOK, Scripts
<1>5. CASE script' = Ended("error") \/ script' = Ended("complete")
  BY <1>5, EndedTyped DEF ScriptInv, ScriptOK
<1>. QED BY <1>2, <1>3, <1>4, <1>5

-----------------------------------------------------------------------------
(***************************************************************************)
(* The invariant.                                                          *)
(***************************************************************************)

\* The caches and files of the start are those of an earlier run.
LEMMA InitInv == Init => IInv
<1>. SUFFICES ASSUME Init PROVE IInv
  OBVIOUS
<1>1. \A v \in Venues, m \in Markets : Usable(v, m) \subseteq Published(v, m)
  BY DEF Usable, Clean
<1>2. \A v \in Venues, m \in Markets :
         Published(v, m) \in SUBSET Hours /\ FundingFeed[v][m] \in SUBSET Hours
  BY FeedHours
<1>3. /\ candles \in [Venues -> [Markets -> SUBSET Hours]] /\ OnlyClean
      /\ funding \in [Venues -> [Markets -> SUBSET Hours]]
  <2>1. PICK filled \in FilledBefore :
           /\ candles = [w \in Venues |->
                            [m \in Markets |-> IF w \in filled THEN Usable(w, m) ELSE {}]]
           /\ funding = [w \in Venues |->
                            [m \in Markets |-> IF w \in filled THEN FundingFeed[w][m] ELSE {}]]
    BY DEF Init
  <2>. QED BY <1>1, <1>2, <2>1 DEF OnlyClean
<1>4. /\ csv \in [Markets -> [bars : SUBSET Hours, rates : SUBSET Hours, hasRates : BOOLEAN]]
      /\ FilesOK
  <2>1. PICK onDisk \in OnDiskBefore :
           csv = [m \in Markets |->
                    [bars |-> IF m \in onDisk
                              THEN Published("dydx", m) \cap (1 .. RefreshEnd) ELSE {},
                     rates |-> IF m \in onDisk
                               THEN FundingFeed["dydx"][m] \cap (1 .. RefreshEnd) ELSE {},
                     hasRates |-> m \in onDisk /\ FundingFeed["dydx"][m] # {}]]
    BY DEF Init
  <2>2. "dydx" \in Venues
    BY DEF Venues
  <2>. QED BY <1>2, <2>1, <2>2 DEF FilesOK
<1>5. script \in Scripts /\ ScriptOK
  BY DEF Init, NoScript, Scripts, ScriptOK
<1>6. job \in Jobs /\ job.lo <= job.hi /\ WalkOK /\ TallyOK
  <2>1. 1 \in Hours /\ "dydx" \in Venues
    BY HorizonAssumption DEF Hours, Venues
  <2>2. job \in Jobs
    BY <2>1 DEF Init, NoJob, Jobs, Statuses, WalkFrom, Walks
  <2>3. /\ job.pc = "idle" /\ ~ job.running /\ ~ job.cancelled /\ job.done = 0
        /\ job.todo = {} /\ job.results = [m \in Markets |-> "absent"]
        /\ job.lo = 1 /\ job.hi = 1
    BY DEF Init, NoJob
  <2>4. Settlements = {} /\ Unsettled = {}
    BY <2>3 DEF Settlements, Unsettled
  <2>. QED BY <2>2, <2>3, <2>4, FS_EmptySet DEF WalkOK, TallyOK
<1>. QED BY <1>3, <1>4, <1>5, <1>6 DEF IInv, CachesOK

\* What depends only on what does not change.
LEMMA CacheKept ==
    ASSUME CacheInv, UNCHANGED <<cacheVars, csv>>
    PROVE  CacheInv'
BY DEF CacheInv, CachesOK, FilesOK, OnlyClean, cacheVars

\* Who leaves the job alone keeps its part of the invariant.
LEMMA JobKept ==
    ASSUME JobInv, UNCHANGED job
    PROVE  JobInv'
BY DEF JobInv, WalkOK, TallyOK, Settlements, Unsettled, Current

\* Who leaves the script alone keeps its part of the invariant.
LEMMA ScriptKept ==
    ASSUME ScriptInv, UNCHANGED script
    PROVE  ScriptInv'
BY DEF ScriptInv, ScriptOK

\* The job and the scripts meet only in the cache.
LEMMA StepInv ==
    ASSUME IInv, [Next]_vars
    PROVE  IInv'
<1>1. CacheInv /\ JobInv /\ ScriptInv
  BY DEF IInv, CacheInv, JobInv, ScriptInv
<1>2. CASE StartFetch \/ RequestCancel \/ AppCrash \/ JobStep
  <2>1. script' = script
    BY <1>2 DEF StartFetch, RequestCancel, AppCrash, JobStep, Discover, NextMarket, FetchPage,
                MergeCandles, MergeFunding
  <2>2. JobInv'
    BY <1>1, <1>2, StartFetchInv, RequestCancelInv, AppCrashInv, DiscoverInv, NextMarketInv,
       FetchPageInv, MergeCandlesInv, MergeFundingInv DEF JobStep
  <2>3. CacheInv'
    <3>1. CASE MergeCandles \/ MergeFunding
      BY <1>1, <3>1, MergeCandlesCache, MergeFundingCache
    <3>2. CASE StartFetch \/ RequestCancel \/ AppCrash \/ Discover \/ NextMarket \/ FetchPage
      BY <1>1, <3>2, CacheKept
         DEF StartFetch, RequestCancel, AppCrash, Discover, NextMarket, FetchPage
    <3>. QED BY <1>2, <3>1, <3>2 DEF JobStep
  <2>. QED BY <1>1, <2>1, <2>2, <2>3, ScriptKept DEF IInv, CacheInv, JobInv, ScriptInv
<1>3. CASE StartGapfill \/ StartIngest \/ StartRefresh \/ ScriptStep \/ ScriptKilled
  <2>1. job' = job
    BY <1>3 DEF StartGapfill, StartIngest, StartRefresh, StartScript, ScriptStep, ScriptKilled,
                GapPlan, GapFill, GapJudge, IngestExcluded, IngestCandles, IngestFunding,
                IngestDone, RefreshCandles, RefreshFunding, RefreshDone
  <2>2. ScriptInv'
    BY <1>1, <1>3, StartScriptInv, GapInv, FileScriptInv DEF ScriptStep
  <2>3. CacheInv'
    <3>1. CASE IngestCandles \/ IngestFunding \/ RefreshCandles \/ RefreshFunding
      BY <1>1, <3>1, IngestCache, RefreshCache
    <3>2. CASE \/ StartGapfill \/ StartIngest \/ StartRefresh \/ ScriptKilled
               \/ GapPlan \/ GapFill \/ GapJudge \/ IngestExcluded \/ IngestDone \/ RefreshDone
      BY <1>1, <3>2, CacheKept
         DEF StartGapfill, StartIngest, StartRefresh, StartScript, ScriptKilled, GapPlan,
             GapFill, GapJudge, IngestExcluded, IngestDone, RefreshDone
    <3>. QED BY <1>3, <3>1, <3>2 DEF ScriptStep
  <2>. QED BY <1>1, <2>1, <2>2, <2>3, JobKept DEF IInv, CacheInv, JobInv, ScriptInv
<1>4. CASE UNCHANGED vars
  BY <1>1, <1>4, CacheKept, JobKept, ScriptKept DEF vars, IInv, CacheInv, JobInv, ScriptInv
<1>. QED BY <1>2, <1>3, <1>4 DEF Next

\* The caches, the files, the job and the script stay well formed, and what the
\* walk under way has is what it has passed.
THEOREM Invariance == Spec => []IInv
<1>1. IInv /\ [Next]_vars => IInv'
  BY StepInv
<1>. QED BY <1>1, InitInv, PTL DEF Spec

\* Type correctness of the caches, the files, the job and the script.
THEOREM TypeCorrect == Spec => []TypeOK
<1>1. IInv => TypeOK
  BY DEF IInv, CachesOK, Jobs, Scripts, TypeOK
<1>. QED BY <1>1, Invariance, PTL

\* The cache never holds a bar that breaks a cleaning rule in force, whichever of
\* the job and the scripts wrote it and whatever failed meanwhile.
THEOREM Cleaned == Spec => []OnlyClean
<1>1. IInv => OnlyClean
  BY DEF IInv
<1>. QED BY <1>1, Invariance, PTL

\* A walk that lost no page has every bar of its range, but perhaps the one at the
\* range's end, for any history, page size and venue: no gap, short page or empty
\* chunk moves the cursor past a bar.
THEOREM Walked == Spec => []WalkIsComplete
<1>1. IInv => WalkIsComplete
  <2>. SUFFICES ASSUME IInv, job.pc = "page", ~ job.failed,
                       WalkOver(job.venue, job.walk, job.lo, job.hi)
                PROVE  Published(job.venue, Current) \cap (job.lo .. job.hi - 1)
                           \subseteq job.walk.got
    BY DEF WalkIsComplete
  <2>1. JobInv
    BY DEF IInv, JobInv
  <2>. QED BY <2>1, WalkUnderWay, WalkEnds
<1>. QED BY <1>1, Invariance, PTL

\* What a job that is over reports is so: cancelled exactly if it left markets out,
\* and done as many as have a result.
THEOREM Reported == Spec => []JobIsHonest
<1>1. IInv => JobIsHonest
  BY DEF IInv, TallyOK, JobIsHonest, Settlements
<1>. QED BY <1>1, Invariance, PTL

\* A fetch changes nothing outside the window of the market it is at, and refreshes
\* the window in full (but perhaps its last bar) when no page was lost. It is the
\* walk's completeness that carries over to the cache through cleaning and merge.
THEOREM Refreshes == Spec => FetchRefreshes
<1>. DEFINE Local == \A v \in Venues, m \in Markets : \A h \in Changed(v, m) :
                            v = job.venue /\ m = Current /\ h \in job.lo .. job.hi
            Full == job.pc = "page" /\ job'.pc = "funding" /\ ~ job.failed =>
                        Usable(job.venue, Current) \cap (job.lo .. job.hi - 1)
                            \subseteq candles'[job.venue][Current]
<1>1. IInv /\ [Next]_vars => [UNCHANGED script => Local /\ Full]_vars
  <2>. SUFFICES ASSUME IInv, Next, UNCHANGED script PROVE Local /\ Full
    OBVIOUS
  <2>1. JobInv /\ ScriptInv /\ candles \in [Venues -> [Markets -> SUBSET Hours]]
    BY DEF IInv, JobInv, ScriptInv, CachesOK
  <2>2. CASE MergeCandles
    <3>1. /\ job.pc = "page" /\ WalkOver(job.venue, job.walk, job.lo, job.hi)
          /\ \/ candles' = IF Rows = {} THEN candles
                           ELSE [candles EXCEPT ![job.venue][Current] =
                                    Merged(@, Rows, job.lo, job.hi)]
             \/ candles' = candles /\ job' = Settled("error")
      BY <2>2 DEF MergeCandles
    <3>2. /\ job.venue \in Venues /\ Current \in Markets
          /\ job.lo \in Hours /\ job.hi \in Hours
          /\ ~ job.failed => Published(job.venue, Current) \cap (job.lo .. job.hi - 1)
                                \subseteq job.walk.got
      BY <2>1, <3>1, WalkUnderWay, WalkEnds
    <3>3. Rows \subseteq job.lo .. job.hi
      BY DEF Rows
    <3>4. Local
      <4>1. SUFFICES ASSUME NEW v \in Venues, NEW m \in Markets, NEW h \in Changed(v, m)
                     PROVE  v = job.venue /\ m = Current /\ h \in job.lo .. job.hi
        OBVIOUS
      <4>2. candles' = [candles EXCEPT ![job.venue][Current] =
                           Merged(@, Rows, job.lo, job.hi)]
        BY <3>1, <4>1 DEF Changed
      <4>3. v = job.venue /\ m = Current
        BY <2>1, <3>2, <4>1, <4>2 DEF Changed
      <4>4. candles'[v][m] = Merged(candles[v][m], Rows, job.lo, job.hi)
        BY <2>1, <3>2, <4>2, <4>3
      <4>5. h \in job.lo .. job.hi
        BY <3>3, <4>1, <4>4 DEF Merged, Changed
      <4>. QED BY <4>3, <4>5
    <3>5. Full
      <4>1. SUFFICES ASSUME job'.pc = "funding", ~ job.failed,
                            NEW h \in Usable(job.venue, Current) \cap (job.lo .. job.hi - 1)
                     PROVE  h \in candles'[job.venue][Current]
        OBVIOUS
      <4>2. h \in Published(job.venue, Current)
        BY DEF Usable, Clean
      <4>3. h \in job.walk.got /\ h \in job.lo .. job.hi
        BY <3>2, <4>1, <4>2 DEF Hours
      <4>4. h \in Rows
        BY <4>3 DEF Rows, Usable, Clean
      <4>5. job' # Settled("error")
        BY <2>1, <4>1 DEF Settled, NoWalk, JobInv, Jobs
      <4>6. candles' = [candles EXCEPT ![job.venue][Current] =
                           Merged(@, Rows, job.lo, job.hi)]
        BY <3>1, <4>4, <4>5
      <4>7. candles'[job.venue][Current] =
               Merged(candles[job.venue][Current], Rows, job.lo, job.hi)
        BY <2>1, <3>2, <4>6
      <4>. QED BY <4>4, <4>7 DEF Merged
    <3>. QED BY <3>4, <3>5
  <2>3. CASE ~ MergeCandles
    <3>1. candles' = candles
      <4>1. ~ IngestCandles
        <5>1. /\ [script EXCEPT !.pc = "funding"].pc = "funding"
              /\ Ended("error").pc = "idle"
          BY <2>1 DEF ScriptInv, Scripts, Ended, NoScript
        <5>. QED BY <5>1 DEF IngestCandles, ScriptAt
      <4>. QED BY <2>3, <4>1 DEF Next, vars, cacheVars, StartFetch, RequestCancel, AppCrash,
              JobStep, Discover, NextMarket, FetchPage, MergeFunding, StartGapfill, StartIngest,
              StartRefresh, StartScript, ScriptStep, ScriptKilled, GapPlan, GapFill, GapJudge,
              IngestExcluded, IngestFunding, IngestDone, RefreshCandles, RefreshFunding,
              RefreshDone
    <3>2. ~ (job.pc = "page" /\ job'.pc = "funding")
      <4>. SUFFICES ASSUME job.pc = "page" PROVE job'.pc # "funding"
        OBVIOUS
      <4>0. ~ StartFetch
        BY <2>1 DEF StartFetch, JobInv, TallyOK
      <4>1. CASE AppCrash
        BY <4>1 DEF AppCrash, NoJob
      <4>2. CASE FetchPage \/ RequestCancel \/ job' = job
        BY <2>1, <4>2 DEF FetchPage, RequestCancel, JobInv, Jobs
      <4>. QED BY <2>3, <4>0, <4>1, <4>2 DEF Next, JobStep, Discover, NextMarket, MergeFunding,
              StartGapfill, StartIngest, StartRefresh, StartScript, ScriptStep, ScriptKilled,
              GapPlan, GapFill, GapJudge, IngestExcluded, IngestCandles, IngestFunding,
              IngestDone, RefreshCandles, RefreshFunding, RefreshDone
    <3>. QED BY <3>1, <3>2 DEF Changed
  <2>. QED BY <2>2, <2>3
<1>. QED BY <1>1, Invariance, PTL DEF Spec, FetchRefreshes
-----------------------------------------------------------------------------
(***************************************************************************)
(* A fetch comes nearer to its end with every step of its own.             *)
(***************************************************************************)
FetchPlace == [next |-> 3, page |-> 2, funding |-> 1]

\* The cursor moves, and not past the end that the walk is going to.
CursorAdvances(v, walk, on, lo, hi) ==
    IF v = "dydx" THEN lo <= on.cursor /\ on.cursor < walk.cursor
    ELSE walk.cursor < on.cursor /\ on.cursor <= hi

\* To its end, from the discovery to the loop, or to fewer markets; and with
\* the same market to its walk, its rates, or on in the walk.
FetchAdvances ==
    job.running /\ job' # [job EXCEPT !.cancelRequested = job'.cancelRequested] =>
        \/ ~ job'.running
        \/ job.pc = "markets" /\ job'.pc = "next"
        \/ /\ job.pc # "markets" /\ job'.pc \in DOMAIN FetchPlace
           /\ UNCHANGED <<job.venue, job.lo, job.hi>>
           /\ job'.todo \subseteq job.todo
           /\ \/ job'.todo # job.todo
              \/ FetchPlace[job'.pc] < FetchPlace[job.pc]
              \/ /\ job.pc = "page" /\ job'.pc = "page"
                 /\ CursorAdvances(job.venue, job.walk, job'.walk, job.lo, job.hi)

\* An empty page of a walk that is not over moves its cursor.
LEMMA LostPageAdvances ==
    ASSUME NEW v \in Venues, NEW m \in Markets, NEW lo \in Hours, NEW hi \in Hours,
           NEW walk, Walking(v, m, walk, lo, hi), ~ WalkOver(v, walk, lo, hi)
    PROVE  CursorAdvances(v, walk, WalkOn(v, walk, NoPage, lo, hi), lo, hi)
<1>1. /\ walk \in Walks /\ walk.cursor \in Nat /\ lo \in Nat /\ hi \in Nat /\ PageSize \in Nat
      /\ PageSize > 0 /\ lo <= walk.cursor /\ walk.cursor <= hi
  BY PageAssumption DEF Walking, Walks, Hours
<1>2. CASE v = "dydx"
  BY <1>1, <1>2 DEF WalkOver, WalkOn, NoPage, Backward, CursorAdvances
<1>3. CASE v # "dydx"
  <2>. DEFINE next == walk.cursor + PageSize
  <2>1. next \in Int /\ walk.cursor < next /\ walk.cursor < hi /\ hi \in Int
    BY <1>1, <1>3 DEF WalkOver
  <2>. HIDE DEF next
  <2>2. Min({next, hi}) \in {next, hi} /\ Min({next, hi}) <= hi
    BY ONLY <2>1, MinOfPair
  <2>3. ChunkEnd(walk, hi) = Min({next, hi})
    BY DEF ChunkEnd, next
  <2>4. WalkOn(v, walk, NoPage, lo, hi).cursor = ChunkEnd(walk, hi)
    BY <1>3 DEF WalkOn, NoPage, Forward
  <2>. QED BY <1>1, <1>3, <2>1, <2>2, <2>3, <2>4 DEF CursorAdvances
<1>. QED BY <1>2, <1>3

\* A page of a walk that is not over moves its cursor, whatever is on it.
LEMMA PageAdvances ==
    ASSUME NEW v \in Venues, NEW m \in Markets, NEW lo \in Hours, NEW hi \in Hours,
           NEW walk, Walking(v, m, walk, lo, hi), ~ WalkOver(v, walk, lo, hi),
           NEW page \in Pages(v, m, walk, lo, hi)
    PROVE  CursorAdvances(v, walk, WalkOn(v, walk, page, lo, hi), lo, hi)
<1>1. /\ walk \in Walks /\ walk.cursor \in Nat /\ lo \in Nat /\ hi \in Nat
      /\ lo <= walk.cursor /\ walk.cursor <= hi
  BY DEF Walking, Walks, Hours
<1>2. CASE page = {}
  BY <1>2, LostPageAdvances DEF NoPage
<1>3. Published(v, m) \in SUBSET Hours
  BY FeedHours
<1>4. CASE page # {} /\ v = "dydx"
  <2>1. PICK last \in {walk.cursor - 1, walk.cursor} :
            page = Newest(Published(v, m) \cap (lo .. last), PageSize)
    BY <1>4 DEF Pages
  <2>2. page \in SUBSET Nat
    BY <1>3, <2>1 DEF Newest, Hours
  <2>. DEFINE least == Min(page)
  <2>3. least \in Nat
    BY <1>4, <2>2, MinIn
  <2>4. WalkOn(v, walk, page, lo, hi).cursor =
            IF least >= walk.cursor THEN lo ELSE Max({lo, least})
    BY <1>4 DEF WalkOn, Backward
  <2>. HIDE DEF least
  <2>5. Max({lo, least}) \in {lo, least} /\ Max({lo, least}) >= lo
    <3>1. lo \in Int /\ least \in Int
      BY <1>1, <2>3
    <3>. QED BY ONLY <3>1, MaxOfPair
  <2>6. lo < walk.cursor
    BY <1>1, <1>4 DEF WalkOver
  <2>. QED BY <1>1, <1>4, <2>3, <2>4, <2>5, <2>6 DEF CursorAdvances
<1>5. CASE page # {} /\ v # "dydx"
  <2>1. page = Oldest(Published(v, m) \cap (walk.cursor .. ChunkEnd(walk, hi)), PageSize)
    BY <1>5 DEF Pages
  <2>2. page \in SUBSET Hours /\ \A h \in page : h >= walk.cursor
    BY <1>1, <1>3, <2>1 DEF Oldest, Hours
  <2>. DEFINE next == Max(page) + 1
  <2>3. next \in Nat /\ walk.cursor < next
    <3>1. Max(page) \in page
      BY <1>5, <2>2, MaxIn
    <3>. DEFINE last == Max(page)
    <3>2. last \in page
      BY <3>1
    <3>. HIDE DEF last
    <3>3. last \in Nat /\ last >= walk.cursor
      BY <2>2, <3>2 DEF Hours
    <3>4. last + 1 \in Nat /\ walk.cursor < last + 1
      BY <1>1, <3>3
    <3>. QED BY <3>4 DEF last
  <2>4. WalkOn(v, walk, page, lo, hi).cursor = Min({hi, next})
    BY <1>5 DEF WalkOn, Forward
  <2>. HIDE DEF next
  <2>5. Min({hi, next}) \in {hi, next} /\ Min({hi, next}) <= hi
    <3>1. hi \in Int /\ next \in Int
      BY <1>1, <2>3
    <3>. QED BY ONLY <3>1, MinOfPair
  <2>6. walk.cursor < hi
    BY <1>1, <1>5 DEF WalkOver
  <2>. QED BY <1>1, <1>5, <2>3, <2>4, <2>5, <2>6 DEF CursorAdvances
<1>. QED BY <1>2, <1>4, <1>5

\* A market that gets its result is taken off the list.
LEMMA SettledAdvances ==
    ASSUME JobInv, job.pc \in {"page", "funding"}, NEW status, job' = Settled(status)
    PROVE  FetchAdvances
<1>. DEFINE m == Current
            w == NoJob.walk
            l == [job EXCEPT !.pc = "next", !.done = @ + 1, !.todo = @ \ {m},
                             !.results[m] = status]
<1>1. m \in job.todo /\ job \in Jobs
  BY CurrentIn DEF JobInv, TallyOK
<1>2. job' = NoWalk(l)
  BY DEF Settled
<1>. HIDE DEF m
<1>3. /\ l.pc = "next" /\ l.todo = job.todo \ {m} /\ l.venue = job.venue
      /\ l.lo = job.lo /\ l.hi = job.hi
  BY <1>1 DEF Jobs
<1>4. /\ NoWalk(l).pc = l.pc /\ NoWalk(l).todo = l.todo /\ NoWalk(l).venue = l.venue
      /\ NoWalk(l).lo = l.lo /\ NoWalk(l).hi = l.hi
  BY <1>1 DEF NoWalk, Jobs
<1>. HIDE DEF l
<1>. QED BY <1>1, <1>2, <1>3, <1>4 DEF FetchAdvances, FetchPlace

\* A job that is over does not run.
LEMMA OverAdvances ==
    ASSUME NEW l \in Jobs, job' = Over(l) PROVE FetchAdvances
<1>1. ~ Over(l).running
  BY DEF Over, NoWalk, Jobs
<1>. QED BY <1>1 DEF FetchAdvances

\* A page brings the walk on; it changes nothing else of the place.
LEMMA FetchPageAdvances == ASSUME JobInv, FetchPage PROVE FetchAdvances
<1>1. job.pc = "page" /\ job \in Jobs /\ ~ WalkOver(job.venue, job.walk, job.lo, job.hi)
  BY DEF FetchPage, JobInv
<1>2. PICK walk, failed :
         /\ job' = [job EXCEPT !.walk = walk, !.failed = failed]
         /\ CursorAdvances(job.venue, job.walk, walk, job.lo, job.hi)
  <2>1. CASE \E page \in Pages(job.venue, Current, job.walk, job.lo, job.hi) :
                job' = [job EXCEPT !.walk = WalkOn(job.venue, @, page, job.lo, job.hi)]
    <3>1. PICK page \in Pages(job.venue, Current, job.walk, job.lo, job.hi) :
             job' = [job EXCEPT !.walk = WalkOn(job.venue, @, page, job.lo, job.hi)]
      BY <2>1
    <3>. DEFINE walk == WalkOn(job.venue, job.walk, page, job.lo, job.hi)
    <3>2. CursorAdvances(job.venue, job.walk, walk, job.lo, job.hi)
      BY <1>1, WalkUnderWay, PageAdvances
    <3>. HIDE DEF walk
    <3>3. job' = [job EXCEPT !.walk = walk, !.failed = job.failed]
      BY <1>1, <3>1 DEF Jobs, walk
    <3>. QED BY <3>2, <3>3
  <2>2. CASE job' = [job EXCEPT !.walk = WalkOn(job.venue, @, NoPage, job.lo, job.hi),
                                !.failed = TRUE]
    <3>. DEFINE walk == WalkOn(job.venue, job.walk, NoPage, job.lo, job.hi)
    <3>1. CursorAdvances(job.venue, job.walk, walk, job.lo, job.hi)
      BY <1>1, WalkUnderWay, LostPageAdvances
    <3>2. job' = [job EXCEPT !.walk = walk, !.failed = TRUE]
      BY <2>2
    <3>. HIDE DEF walk
    <3>. QED BY <3>1, <3>2
  <2>. QED BY <2>1, <2>2 DEF FetchPage
<1>3. /\ job'.walk = walk
      /\ UNCHANGED <<job.pc, job.venue, job.lo, job.hi, job.todo>>
  BY <1>1, <1>2 DEF Jobs
<1>. QED BY <1>1, <1>2, <1>3 DEF FetchAdvances, FetchPlace

\* Every step of the job brings it nearer to its end; nobody else moves it.
LEMMA JobAdvances == ASSUME JobInv, [Next]_vars PROVE FetchAdvances
<1>1. job \in Jobs /\ (job.running <=> job.pc # "idle")
  BY DEF JobInv, TallyOK
<1>2. CASE StartFetch
  BY <1>2 DEF StartFetch, FetchAdvances
<1>3. CASE RequestCancel
  BY <1>1, <1>3 DEF RequestCancel, FetchAdvances, Jobs
<1>4. CASE Discover
  <2>1. [job EXCEPT !.error = TRUE] \in Jobs
    BY <1>1 DEF Jobs
  <2>2. job.pc = "markets" /\ (job'.pc = "next" \/ job' = Over([job EXCEPT !.error = TRUE]))
    BY <1>1, <1>4 DEF Discover, Jobs
  <2>. QED BY <2>1, <2>2, OverAdvances DEF FetchAdvances
<1>5. CASE NextMarket
  <2>1. [job EXCEPT !.cancelled = TRUE] \in Jobs
    BY <1>1 DEF Jobs
  <2>2. CASE job' = Over(job) \/ job' = Over([job EXCEPT !.cancelled = TRUE])
    BY <1>1, <2>1, <2>2, OverAdvances
  <2>3. CASE job' = [job EXCEPT !.pc = "page",
                                !.walk = WalkFrom(job.venue, job.lo, job.hi)]
    <3>. DEFINE w == WalkFrom(job.venue, job.lo, job.hi)
    <3>. HIDE DEF w
    <3>1. job' = [job EXCEPT !.pc = "page", !.walk = w]
      BY <2>3 DEF w
    <3>2. job'.pc = "page" /\ UNCHANGED <<job.venue, job.lo, job.hi, job.todo>>
      BY <1>1, <3>1 DEF Jobs
    <3>3. job.pc = "next"
      BY <1>5 DEF NextMarket
    <3>. QED BY <3>2, <3>3 DEF FetchAdvances, FetchPlace
  <2>. QED BY <1>5, <2>2, <2>3 DEF NextMarket
<1>6. CASE MergeCandles
  <2>1. job.pc = "page"
    BY <1>6 DEF MergeCandles
  <2>2. CASE job' = [job EXCEPT !.pc = "funding", !.bars = Cardinality(Rows)]
    <3>1. job'.pc = "funding" /\ UNCHANGED <<job.venue, job.lo, job.hi, job.todo>>
      BY <1>1, <2>2 DEF Jobs
    <3>. QED BY <2>1, <3>1 DEF FetchAdvances, FetchPlace
  <2>. QED BY <1>6, <2>1, <2>2, SettledAdvances DEF MergeCandles
<1>7. CASE MergeFunding
  <2>1. job.pc = "funding" /\ \E status : job' = Settled(status)
    BY <1>7 DEF MergeFunding
  <2>. QED BY <2>1, SettledAdvances
<1>8. CASE AppCrash
  BY <1>8 DEF AppCrash, NoJob, FetchAdvances
<1>9. ASSUME UNCHANGED job PROVE FetchAdvances
  BY <1>1, <1>9 DEF FetchAdvances, Jobs
<1>10. CASE StartGapfill \/ StartIngest \/ StartRefresh \/ ScriptStep \/ ScriptKilled
  BY <1>9, <1>10
     DEF StartGapfill, StartIngest, StartRefresh, StartScript, ScriptStep, ScriptKilled,
         GapPlan, GapFill, GapJudge, IngestExcluded, IngestCandles, IngestFunding, IngestDone,
         RefreshCandles, RefreshFunding, RefreshDone
<1>. QED BY <1>2, <1>3, <1>4, <1>5, <1>6, <1>7, <1>8, <1>9, <1>10, FetchPageAdvances
         DEF Next, JobStep, vars

\* A fetch ends by itself: each step of its own, whatever page it gets or loses,
\* ends it, leaves it fewer markets, or moves the cursor of its walk towards the
\* end of the range and not past it (_run, fetch_ohlcv_range).
THEOREM FetchEnds == Spec => [][FetchAdvances]_vars
<1>1. IInv /\ [Next]_vars => FetchAdvances
  BY JobAdvances DEF IInv, JobInv
<1>. QED BY <1>1, Invariance, PTL DEF Spec
=============================================================================
