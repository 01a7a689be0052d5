------------------------------- MODULE Ingest -------------------------------
(***************************************************************************)
(* The candle cache and everything that writes it: the fetch job of the    *)
(* application (ingest/historical_fetch.py, routers/data.py), and in a     *)
(* process of their own the scripts gapfill_cache.py, ingest_historical.py *)
(* (ingest/pipeline.py) and refresh_dydx_data.py. One script runs at a     *)
(* time here. cache_repository.py writes a market in one transaction.      *)
(***************************************************************************)
EXTENDS DataClient

CONSTANTS
    MaxSpan,     \* DATA_FETCH_MAX_DAYS
    MinCoverage, \* INGEST_MIN_COVERAGE_ROWS
    FilledBefore, \* the sets of venues whose cache may be filled at first
    OnDiskBefore, \* the sets of markets whose CSV file may be there at first
    RefreshEnd,  \* refresh: --end
    MaxPasses,   \* gapfill: --max-passes
    Staleness,   \* gapfill: --max-staleness-hours
    Faults,      \* of {"page", "funding", "markets", "db", "csv", "crash"}
    MaxFaults,   \* faults of a behaviour
    MaxFetches,  \* fetches that are started
    MaxScripts   \* scripts that are started

ASSUME BoundsAssumption ==
    /\ RefreshEnd \in Hours
    /\ FilledBefore \subseteq SUBSET Venues /\ OnDiskBefore \subseteq SUBSET Markets
    /\ {MaxSpan, MinCoverage, MaxPasses, Staleness} \subseteq Nat
    /\ {MaxFaults, MaxFetches, MaxScripts} \subseteq Nat

VARIABLES
    candles, \* OhlcvCache: the hours cached of each venue and market
    funding, \* FundingRateCache, likewise
    csv,     \* each market's CSV files: bars (none: no file), and rates if there are
    job,     \* _state of historical_fetch and the locals of _run
    script,  \* the running script and its locals
    faults, fetches, scripts

cacheVars == <<candles, funding>>
bounds == <<fetches, scripts>>
vars == <<cacheVars, csv, job, script, faults, bounds>>

Statuses == {"absent", "pending", "ok", "empty", "error"}

NoJob == [pc |-> "idle", running |-> FALSE, cancelRequested |-> FALSE, cancelled |-> FALSE,
          error |-> FALSE, venue |-> "dydx", lo |-> 1, hi |-> 1, todo |-> {},
          results |-> [m \in Markets |-> "absent"], done |-> 0,
          walk |-> WalkFrom("dydx", 1, 1), failed |-> FALSE, bars |-> 0]

NoScript == [kind |-> "none", pc |-> "idle", todo |-> {}, skip |-> FALSE, pass |-> 0,
             previous |-> -1, stable |-> 0, behind |-> {}, outcome |-> "none"]

ScriptAt(kind, pc) == script.kind = kind /\ script.pc = pc

\* One thing goes wrong.
Fault(kind) ==
    /\ kind \in Faults
    /\ faults < MaxFaults
    /\ faults' = faults + 1

(***************************************************************************)
(* The cache: merge_*_range replaces a window, replace_* a whole market.   *)
(***************************************************************************)
WholeMarket(cached, rows, lo, hi) == rows  \* mutant: a merge deletes the market
Merged(cached, rows, lo, hi) == (cached \ (lo .. hi)) \cup rows

(***************************************************************************)
(* The fetch job.                                                          *)
(***************************************************************************)

\* start_fetch: a valid range, and no job runs.
StartFetch ==
    /\ fetches < MaxFetches
    /\ ~ job.running
    /\ \E v \in Venues, lo, hi \in Hours :
          /\ lo < hi
          /\ hi - lo <= MaxSpan
          /\ job' = [NoJob EXCEPT !.pc = "markets", !.running = TRUE,
                                  !.venue = v, !.lo = lo, !.hi = hi]
    /\ fetches' = fetches + 1
    /\ UNCHANGED <<cacheVars, csv, script, faults, scripts>>

RequestCancel ==
    /\ job.running
    /\ job' = [job EXCEPT !.cancelRequested = TRUE]
    /\ UNCHANGED <<cacheVars, csv, script, faults, bounds>>

NoWalk(locals) ==
    [locals EXCEPT !.walk = NoJob.walk, !.failed = FALSE, !.bars = 0]
NoFinally(locals) ==  \* mutant: after an exception the job still runs
    NoWalk([locals EXCEPT !.running = locals.error, !.pc = "idle"])
Over(locals) == NoWalk([locals EXCEPT !.running = FALSE, !.pc = "idle"])

Queued(markets) == [m \in Markets |-> "queued"]  \* mutant
Entries(markets) ==
    [m \in Markets |-> IF m \in markets THEN "pending" ELSE "absent"]

\* get_markets: dYdX raises, which ends the job; Hyperliquid answers no market.
Discover ==
    /\ job.pc = "markets"
    /\ \/ /\ job' = [job EXCEPT !.pc = "next", !.todo = Listed[job.venue],
                                !.results = Entries(Listed[job.venue])]
          /\ UNCHANGED faults
       \/ /\ Fault("markets")
          /\ job' = IF job.venue = "dydx" THEN Over([job EXCEPT !.error = TRUE])
                    ELSE [job EXCEPT !.pc = "next"]
    /\ UNCHANGED <<cacheVars, csv, script, bounds>>

Current == First(job.todo)

CancelFirst ==  \* mutant: a cancel counts also after the last market
    /\ job.pc = "next"
    /\ job' = IF job.cancelRequested THEN Over([job EXCEPT !.cancelled = TRUE])
              ELSE IF job.todo = {} THEN Over(job)
              ELSE [job EXCEPT !.pc = "page",
                               !.walk = WalkFrom(job.venue, job.lo, job.hi)]
    /\ UNCHANGED <<cacheVars, csv, script, faults, bounds>>

\* The loop: over, cancelled, or the next market.
NextMarket ==
    /\ job.pc = "next"
    /\ job' = IF job.todo = {} THEN Over(job)
              ELSE IF job.cancelRequested THEN Over([job EXCEPT !.cancelled = TRUE])
              ELSE [job EXCEPT !.pc = "page",
                               !.walk = WalkFrom(job.venue, job.lo, job.hi)]
    /\ UNCHANGED <<cacheVars, csv, script, faults, bounds>>

FetchPage ==
    /\ job.pc = "page"
    /\ ~ WalkOver(job.venue, job.walk, job.lo, job.hi)
    /\ \/ /\ \E page \in Pages(job.venue, Current, job.walk, job.lo, job.hi) :
                job' = [job EXCEPT !.walk = WalkOn(job.venue, @, page, job.lo, job.hi)]
          /\ UNCHANGED faults
       \/ /\ Fault("page")
          /\ job' = [job EXCEPT !.walk = WalkOn(job.venue, @, NoPage, job.lo, job.hi),
                                !.failed = TRUE]
    /\ UNCHANGED <<cacheVars, csv, script, bounds>>

Settled(status) ==
    NoWalk([job EXCEPT !.pc = "next", !.done = @ + 1, !.todo = @ \ {Current},
                       !.results[Current] = status])

RawRows == job.walk.got \cap (job.lo .. job.hi)  \* mutant: merged uncleaned
Rows == Clean(job.venue, Current, job.walk.got) \cap (job.lo .. job.hi)

\* The rows of the walk replace the window, unless there are none.
MergeCandles ==
    /\ job.pc = "page"
    /\ WalkOver(job.venue, job.walk, job.lo, job.hi)
    /\ \/ /\ candles' =
                IF Rows = {} THEN candles
                ELSE [candles EXCEPT ![job.venue][Current] =
                         Merged(@, Rows, job.lo, job.hi)]
          /\ job' = [job EXCEPT !.pc = "funding", !.bars = Cardinality(Rows)]
          /\ UNCHANGED faults
       \/ /\ Rows # {}
          /\ Fault("db")
          /\ job' = Settled("error")
          /\ UNCHANGED candles
    /\ UNCHANGED <<funding, csv, script, bounds>>

Verdict == IF job.bars > 0 THEN "ok" ELSE "empty"

MergeFunding ==
    LET with(rates) ==
            IF rates = {} THEN funding
            ELSE [funding EXCEPT ![job.venue][Current] = Merged(@, rates, job.lo, job.hi)]
    IN  /\ job.pc = "funding"
        /\ \/ /\ funding' = with(FundingComplete(job.venue, Current, job.lo, job.hi))
              /\ job' = Settled(Verdict)
              /\ UNCHANGED faults
           \/ /\ Fault("funding")
              /\ \E rates \in FundingCut(job.venue, Current, job.lo, job.hi) :
                    funding' = with(rates)
              /\ job' = Settled(Verdict)
           \/ /\ FundingComplete(job.venue, Current, job.lo, job.hi) # {}
              /\ Fault("db")
              /\ job' = Settled("error")
              /\ UNCHANGED funding
        /\ UNCHANGED <<candles, csv, script, bounds>>

JobStep == Discover \/ NextMarket \/ FetchPage \/ MergeCandles \/ MergeFunding

(***************************************************************************)
(* gapfill_cache.py.                                                       *)
(***************************************************************************)
StartScript(locals) ==
    /\ scripts < MaxScripts
    /\ script.pc = "idle"
    /\ script' = locals
    /\ scripts' = scripts + 1
    /\ UNCHANGED <<cacheVars, csv, job, faults, fetches>>

StartGapfill == StartScript([NoScript EXCEPT !.kind = "gapfill", !.pc = "plan"])

Ended(outcome) == [NoScript EXCEPT !.kind = script.kind, !.outcome = outcome]

\* The hour a market is to be filled from.
FillFrom(m) == IF candles["dydx"][m] = {} THEN 1 ELSE Max(candles["dydx"][m]) + 1
Behind == {m \in Listed["dydx"] : FillFrom(m) < Horizon - Staleness}

GapPlan ==
    /\ ScriptAt("gapfill", "plan")
    /\ \/ /\ script' = [script EXCEPT !.pc = "fill", !.todo = Behind]
          /\ UNCHANGED faults
       \/ /\ Fault("markets")
          /\ script' = Ended("error")
    /\ UNCHANGED <<cacheVars, csv, job, bounds>>

\* _fetch_one is called without the venue, which it requires: each call raises, the
\* exception is logged, and the next chunk or market is taken.
GapFill ==
    /\ ScriptAt("gapfill", "fill")
    /\ script.todo # {}
    /\ script' = [script EXCEPT !.todo = @ \ {First(@)}]
    /\ UNCHANGED <<cacheVars, csv, job, faults, bounds>>

NextPass(locals) ==
    IF locals.pass + 1 = MaxPasses THEN Ended("exhausted")
    ELSE [locals EXCEPT !.pass = @ + 1, !.pc = "plan"]

Stable(need) == IF need = script.previous THEN script.stable + 1 ELSE 0

\* The plan again, and the sentinel: a pass offline does not count for the plateau.
GapJudge ==
    LET need == Cardinality(Behind)
        seen == [script EXCEPT !.behind = Behind, !.previous = need, !.stable = Stable(need)]
    IN  /\ ScriptAt("gapfill", "fill")
        /\ script.todo = {}
        /\ \/ /\ script' = IF need = 0 THEN Ended("complete")
                           ELSE IF seen.stable >= 3
                           THEN [Ended("plateau") EXCEPT !.behind = Behind]
                           ELSE NextPass(seen)
              /\ UNCHANGED faults
           \/ /\ Fault("page")
              /\ script' = NextPass(script)
        /\ UNCHANGED <<cacheVars, csv, job, bounds>>

(***************************************************************************)
(* ingest_historical.py: the CSV files of dYdX into the cache.             *)
(***************************************************************************)
OnDisk == {m \in Markets : csv[m].bars # {}}

StartIngest ==
    StartScript([NoScript EXCEPT !.kind = "ingest", !.pc = "candles",
                    !.todo = OnDisk])

Advance(pc) == [script EXCEPT !.pc = pc, !.todo = @ \ {First(@)}]

FileRows(m) == Clean("dydx", m, csv[m].bars)
Included(m) == FileRows(m) # {} /\ Cardinality(FileRows(m)) >= MinCoverage

\* A market that cannot be read or has too few clean bars keeps what is cached.
IngestExcluded ==
    /\ ScriptAt("ingest", "candles")
    /\ script.todo # {}
    /\ \/ ~ Included(First(script.todo)) /\ UNCHANGED faults
       \/ Fault("csv")
    /\ script' = Advance("candles")
    /\ UNCHANGED <<cacheVars, csv, job, bounds>>

\* The rows replace the market; a database error ends the script.
IngestCandles ==
    LET m == First(script.todo)
    IN  /\ ScriptAt("ingest", "candles")
        /\ script.todo # {}
        /\ Included(m)
        /\ \/ /\ candles' = [candles EXCEPT !["dydx"][m] = FileRows(m)]
              /\ script' = [script EXCEPT !.pc = "funding"]
              /\ UNCHANGED faults
           \/ /\ Fault("db")
              /\ script' = Ended("error")
              /\ UNCHANGED candles
        /\ UNCHANGED <<funding, csv, job, bounds>>

\* Best effort, if there is a file.
IngestFunding ==
    LET m == First(script.todo)
    IN  /\ ScriptAt("ingest", "funding")
        /\ \/ /\ funding' = IF csv[m].hasRates
                            THEN [funding EXCEPT !["dydx"][m] = csv[m].rates] ELSE funding
              /\ UNCHANGED faults
           \/ /\ csv[m].hasRates
              /\ Fault("db") \/ Fault("csv")
              /\ UNCHANGED funding
        /\ script' = Advance("candles")
        /\ UNCHANGED <<candles, csv, job, bounds>>

IngestDone ==
    /\ ScriptAt("ingest", "candles")
    /\ script.todo = {}
    /\ script' = Ended("complete")
    /\ UNCHANGED <<cacheVars, csv, job, faults, bounds>>

(***************************************************************************)
(* refresh_dydx_data.py: the exchange into the CSV files, with retries. Its *)
(* walks are those of the client, page by page backwards.                  *)
(***************************************************************************)
\* The markets on disk again, or with --discover the listed ones that are not.
StartRefresh ==
    \E skip \in BOOLEAN, targets \in {OnDisk, Listed["dydx"] \ OnDisk} :
        StartScript([NoScript EXCEPT !.kind = "refresh", !.pc = "candles", !.skip = skip,
                                     !.todo = targets])

\* What a walk from RefreshEnd back to the first hour has when it ends at first.
Reached(m, first) ==
    {Published("dydx", m) \cap (first .. last) : last \in {RefreshEnd - 1, RefreshEnd}}

SkipCandles == script.skip /\ csv[First(script.todo)].bars # {}
SkipFunding == script.skip /\ csv[First(script.todo)].hasRates

\* The file becomes what the walk has, also after a page that failed on every try.
RefreshCandles ==
    LET m == First(script.todo)
        written(bars) == IF bars = {} THEN csv ELSE [csv EXCEPT ![m].bars = bars]
    IN  /\ ScriptAt("refresh", "candles")
        /\ script.todo # {}
        /\ script' = [script EXCEPT !.pc = "funding"]
        /\ \/ /\ SkipCandles
              /\ UNCHANGED <<csv, faults>>
           \/ /\ ~ SkipCandles
              /\ \E bars \in Reached(m, 1) : csv' = written(bars)
              /\ UNCHANGED faults
           \/ /\ ~ SkipCandles
              /\ Fault("page")
              /\ \E first \in Hours : \E bars \in Reached(m, first) : csv' = written(bars)
        /\ UNCHANGED <<cacheVars, job, bounds>>

\* Newest rates first, of all hours: a walk cut short may leave an empty file.
RefreshFunding ==
    LET m == First(script.todo)
        written(rates) == [csv EXCEPT ![m].rates = rates, ![m].hasRates = TRUE]
    IN  /\ ScriptAt("refresh", "funding")
        /\ script' = Advance("candles")
        /\ \/ /\ SkipFunding \/ FundingFeed["dydx"][m] = {}
              /\ UNCHANGED <<csv, faults>>
           \/ /\ ~ SkipFunding
              /\ FundingFeed["dydx"][m] # {}
              /\ csv' = written(FundingComplete("dydx", m, 1, RefreshEnd))
              /\ UNCHANGED faults
           \/ /\ ~ SkipFunding
              /\ FundingFeed["dydx"][m] # {}
              /\ Fault("funding")
              /\ \E rates \in FundingCut("dydx", m, 1, RefreshEnd) : csv' = written(rates)
        /\ UNCHANGED <<cacheVars, job, bounds>>

RefreshDone ==
    /\ ScriptAt("refresh", "candles")
    /\ script.todo = {}
    /\ script' = Ended("complete")
    /\ UNCHANGED <<cacheVars, csv, job, faults, bounds>>

ScriptStep ==
    \/ GapPlan \/ GapFill \/ GapJudge
    \/ IngestExcluded \/ IngestCandles \/ IngestFunding \/ IngestDone
    \/ RefreshCandles \/ RefreshFunding \/ RefreshDone

(***************************************************************************)
(* A restart of the application, or a script that is interrupted.          *)
(***************************************************************************)
AppCrash ==
    /\ Fault("crash")
    /\ job.running
    /\ job' = NoJob
    /\ UNCHANGED <<cacheVars, csv, script, bounds>>

ScriptKilled ==
    /\ Fault("crash")
    /\ script.pc # "idle"
    /\ script' = Ended("error")
    /\ UNCHANGED <<cacheVars, csv, job, bounds>>

-----------------------------------------------------------------------------
\* The caches and the files are empty, or were filled before with what is usable.
Init ==
    /\ \E v \in FilledBefore :
          /\ candles = [w \in Venues |-> [m \in Markets |-> IF w \in v THEN Usable(w, m) ELSE {}]]
          /\ funding = [w \in Venues |->
                           [m \in Markets |-> IF w \in v THEN FundingFeed[w][m] ELSE {}]]
    /\ \E onDisk \in OnDiskBefore :
          csv = [m \in Markets |->
                   [bars |-> IF m \in onDisk THEN Published("dydx", m) \cap (1 .. RefreshEnd) ELSE {},
                    rates |-> IF m \in onDisk THEN FundingFeed["dydx"][m] \cap (1 .. RefreshEnd) ELSE {},
                    hasRates |-> m \in onDisk /\ FundingFeed["dydx"][m] # {}]]
    /\ job = NoJob
    /\ script = NoScript
    /\ faults = 0
    /\ fetches = 0
    /\ scripts = 0

Next ==
    \/ StartFetch \/ RequestCancel \/ JobStep
    \/ StartGapfill \/ StartIngest \/ StartRefresh \/ ScriptStep
    \/ AppCrash \/ ScriptKilled

Spec == Init /\ [][Next]_vars
FairSpec == Spec /\ WF_vars(JobStep) /\ WF_vars(ScriptStep)

-----------------------------------------------------------------------------
\* Type invariant: the caches, the files, the job and the script.
TypeOK ==
    /\ candles \in [Venues -> [Markets -> SUBSET Hours]]
    /\ funding \in [Venues -> [Markets -> SUBSET Hours]]
    /\ csv \in [Markets -> [bars : SUBSET Hours, rates : SUBSET Hours, hasRates : BOOLEAN]]
    /\ job.pc \in {"idle", "markets", "next", "page", "funding"}
    /\ {job.running, job.cancelRequested, job.cancelled, job.error, job.failed} \subseteq BOOLEAN
    /\ job.venue \in Venues /\ job.lo \in Hours /\ job.hi \in Hours
    /\ job.todo \in SUBSET Markets /\ job.results \in [Markets -> Statuses]
    /\ job.walk \in Walks /\ job.done \in Nat /\ job.bars \in Nat
    /\ script.kind \in {"none", "gapfill", "ingest", "refresh"}
    /\ script.pc \in {"idle", "plan", "fill", "candles", "funding"}
    /\ script.todo \in SUBSET Markets /\ script.behind \in SUBSET Markets
    /\ script.outcome \in {"none", "complete", "plateau", "exhausted", "error"}

\* The cache holds only bars that pass every cleaning rule, whoever wrote them.
OnlyClean == \A v \in Venues, m \in Markets : candles[v][m] \subseteq Usable(v, m)

\* A walk none of whose pages failed has every bar of its range but perhaps the
\* one at its end, through gaps, short pages and either order of the pages.
WalkIsComplete ==
    job.pc = "page" /\ WalkOver(job.venue, job.walk, job.lo, job.hi) /\ ~ job.failed =>
        Published(job.venue, Current) \cap (job.lo .. job.hi - 1) \subseteq job.walk.got

Changed(v, m) == (candles[v][m] \ candles'[v][m]) \cup (candles'[v][m] \ candles[v][m])

\* A fetch changes only the window of the market it is at; and when it has merged
\* a walk that lost no page, the window has every usable bar of the exchange, but
\* perhaps the one at its end, whatever the cache had there and a script wrote
\* meanwhile.
FetchRefreshes ==
    [][UNCHANGED script =>
          /\ \A v \in Venues, m \in Markets : \A h \in Changed(v, m) :
                    v = job.venue /\ m = Current /\ h \in job.lo .. job.hi
          /\ job.pc = "page" /\ job'.pc = "funding" /\ ~ job.failed =>
                Usable(job.venue, Current) \cap (job.lo .. job.hi - 1)
                    \subseteq candles'[job.venue][Current]]_vars

\* historical_fetch.py:6-8, routers/data.py:102: a fetch loses no cached bar (the
\* one at the end of its window aside, which the indexer may leave out).
NoDataLoss ==
    [][UNCHANGED script =>
          \A v \in Venues, m \in Markets :
              candles[v][m] \ {job.hi} \subseteq candles'[v][m]]_vars

\* cache_repository.py:9-10: running the ingest again is safe, no cached bar is
\* lost by it.
RerunIsSafe ==
    [][script' # script /\ script.kind = "ingest" =>
          \A m \in Markets : candles["dydx"][m] \subseteq candles'["dydx"][m]]_vars

Unsettled == {m \in Markets : job.results[m] = "pending"}

\* A job that is over without an error was cancelled exactly if it left markets
\* out; the markets it counts as done are those with a result, first ones first.
JobIsHonest ==
    ~ job.running /\ ~ job.error =>
        /\ job.cancelled <=> Unsettled # {}
        /\ job.cancelled => job.cancelRequested
        /\ Unsettled = job.todo
        /\ job.done = Cardinality({m \in Markets : job.results[m] \notin {"absent", "pending"}})

\* A fetch ends, and so does a script, whatever fails on the way.
EverythingEnds ==
    /\ job.running ~> ~ job.running
    /\ script.pc # "idle" ~> script.pc = "idle"

\* gapfill_cache.py:19-21: when it stops at a plateau, what is still behind has
\* nothing newer to be had.
PlateauMeansNothingToFill ==
    script.outcome = "plateau" =>
        \A m \in script.behind : \A h \in Usable("dydx", m) : h < FillFrom(m)

=============================================================================
