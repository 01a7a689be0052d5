----------------------------- MODULE DataClient -----------------------------
(***************************************************************************)
(* The read side of the exchanges: exchanges/dydx/client.py and            *)
(* exchanges/hyperliquid/client.py as the ingest uses them, and the rules  *)
(* of ingest/cleaning.py. A bar is its hour; the exchanges are fixed       *)
(* histories. A walk over a range is a record that one page advances.      *)
(***************************************************************************)
EXTENDS Integers, FiniteSets, FiniteSetsExt, Sequences, Functions

CONSTANTS
    Markets,
    Sorted,      \* the markets in the order of their names
    Horizon,     \* the present hour; the history starts at 1
    Feed,        \* venue, market -> hour published -> the rules the bar breaks
    FundingFeed, \* venue, market -> hours with a funding rate
    Listed,      \* venue -> the markets that pass its filter
    PageSize,    \* bars of one answer
    DropRules    \* INGEST_DROP_FLAT, INGEST_DROP_ZERO_VOLUME

Venues == {"dydx", "hyperliquid"}
Hours == 1 .. Horizon
AlwaysDropped == {"unparseable", "nonpositive", "inconsistent"}
Rules == AlwaysDropped \cup {"zero_volume", "flat"}

ASSUME HorizonAssumption == Horizon \in Nat \ {0}
ASSUME PageAssumption == PageSize \in Nat /\ PageSize >= 2
ASSUME FeedAssumption ==
    \A v \in Venues, m \in Markets :
        /\ DOMAIN Feed[v][m] \in SUBSET Hours
        /\ \A h \in DOMAIN Feed[v][m] : Feed[v][m][h] \in SUBSET Rules
        /\ FundingFeed[v][m] \in SUBSET Hours
ASSUME ListedAssumption == \A v \in Venues : Listed[v] \in SUBSET Markets
ASSUME SortedAssumption ==
    Sorted \in Seq(Markets) /\ Range(Sorted) = Markets /\ IsInjective(Sorted)
ASSUME DropAssumption == DropRules \subseteq Rules \ AlwaysDropped

\* Markets are taken in the order of their names.
First(markets) == Sorted[Min({i \in DOMAIN Sorted : Sorted[i] \in markets})]

Published(v, m) == DOMAIN Feed[v][m]

(***************************************************************************)
(* Cleaning: every rule in force removes its bars.                         *)
(***************************************************************************)
Clean(v, m, bars) ==
    {h \in bars : Feed[v][m][h] \cap (AlwaysDropped \cup DropRules) = {}}

Usable(v, m) == Clean(v, m, Published(v, m))

(***************************************************************************)
(* The walk over a range: where it stands, what it has, whether it is over. *)
(***************************************************************************)
Newest(bars, n) == {h \in bars : Cardinality({g \in bars : g > h}) < n}
Oldest(bars, n) == {h \in bars : Cardinality({g \in bars : g < h}) < n}

WalkFrom(v, lo, hi) == [cursor |-> IF v = "dydx" THEN hi ELSE lo, got |-> {}]
Walks == [cursor : Hours, got : SUBSET Hours]

WalkOver(v, walk, lo, hi) ==
    IF v = "dydx" THEN walk.cursor <= lo ELSE walk.cursor >= hi

ChunkEnd(walk, hi) == Min({walk.cursor + PageSize, hi})

\* The answers to a page request: the indexer gives the newest bars of the range
\* (its end is in the range or not), a snapshot covers one chunk.
Pages(v, m, walk, lo, hi) ==
    IF v = "dydx"
    THEN {Newest(Published(v, m) \cap (lo .. last), PageSize) :
             last \in {walk.cursor - 1, walk.cursor}}
    ELSE {Oldest(Published(v, m) \cap (walk.cursor .. ChunkEnd(walk, hi)), PageSize)}

\* A request that fails on every retry looks like an empty page.
NoPage == {}

\* fetch_ohlcv_range of dYdX: newest page first; an empty page ends the walk.
SkipsABar(walk, page, lo) ==  \* mutant: the cursor passes a bar
    [cursor |-> IF page = {} \/ Min(page) >= walk.cursor THEN lo
                ELSE Max({lo, Min(page) - 2}),
     got |-> walk.got \cup page]
Backward(walk, page, lo) ==
    [cursor |-> IF page = {} \/ Min(page) >= walk.cursor THEN lo ELSE Max({lo, Min(page)}),
     got |-> walk.got \cup page]

\* fetch_ohlcv_range of Hyperliquid: oldest chunk first; an empty one is skipped.
Forward(walk, page, hi) ==
    [cursor |-> IF page = {} THEN ChunkEnd(walk, hi) ELSE Min({hi, Max(page) + 1}),
     got |-> walk.got \cup page]

WalkOn(v, walk, page, lo, hi) ==
    IF v = "dydx" THEN Backward(walk, page, lo) ELSE Forward(walk, page, hi)

(***************************************************************************)
(* fetch_funding_range: what a walk may return for a range. The indexer    *)
(* gives the newest rates of all first, and a failed page ends the walk;   *)
(* Hyperliquid goes through windows, and a failed one is skipped.          *)
(***************************************************************************)
Windows(lo, hi) == {w .. Min({w + PageSize, hi}) : w \in {x \in lo .. hi : (x - lo) % PageSize = 0}}

FundingComplete(v, m, lo, hi) == FundingFeed[v][m] \cap (lo .. hi)
FundingCut(v, m, lo, hi) ==
    IF v = "dydx"
    THEN {FundingFeed[v][m] \cap (k .. hi) : k \in lo + 1 .. hi + 1}
    ELSE {FundingComplete(v, m, lo, hi) \ w : w \in Windows(lo, hi)}

=============================================================================
