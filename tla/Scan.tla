-------------------------------- MODULE Scan --------------------------------
(***************************************************************************)
(* The settings an operator changes while the application runs             *)
(* (config.py, routers/system.py, db/bot_config_repository.py) and the     *)
(* cointegration scan (scan/state.py, scan/orchestrator.py,                *)
(* marketdata/price_matrix.py, routers/scan.py, db/scan_repository.py).    *)
(*                                                                         *)
(* A Z-score or a threshold is an integer, twice the code's value. A scan  *)
(* stands under DEFAULT_MODE. Two sources may list markets of one name:    *)
(* what a name stands for is then a different market on each. Which pairs  *)
(* of a source pass the filter is given; the regressions themselves are    *)
(* not modelled. What is found is read back in the order of its quality.   *)
(***************************************************************************)
EXTENDS Integers, FiniteSets, Sequences, SequencesExt

CONSTANTS
    Sources,      \* the sources asked for, of "fake", "dydx", "hyperliquid"
    EnvSource,    \* SCAN_DATA_SOURCE of the environment
    Universe,     \* the markets each source lists, in order
    Volume,       \* the 24h notional of each market of a source
    Floors,       \* the scan floors asked for; the environment's is 0
    Bars,         \* the hours of the closes that the client of a source fetches
    MinCandles,   \* MIN_CANDLES_PER_MARKET
    MinRows,      \* ZSCORE_WINDOW + 10
    Quality,      \* rows [source, pair] that pass: zero crossings, then p-value
    ChunkSize,    \* _CHUNK_SIZE
    EnvThresholds, Asked, \* thresholds of the environment, and those asked for
    TablesBefore, \* the sources of the scans stored at first, of each exchange
    Faults,       \* of {"markets", "fetch", "db", "csv", "crash"}
    MaxFaults,    \* bound: faults of a behaviour
    MaxCalls      \* bound: requests of the operator

ValidSources == {"fake", "dydx", "hyperliquid"}
DefaultExchange == "dydx"
Exchanges == {"dydx", "hyperliquid"}
Listed == UNION {ToSet(Universe[s]) : s \in ValidSources}
Cointegrated(source) == {row.pair : row \in {q \in ToSet(Quality) : q.source = source}}

ASSUME SourcesAssumption == {EnvSource} \cup Sources \subseteq ValidSources
ASSUME CountsAssumption ==
    /\ ChunkSize \in Nat \ {0}
    /\ {MinCandles, MinRows, MaxFaults, MaxCalls} \subseteq Nat
ASSUME DemoAssumption ==  \* no venue lists a name like DEMO1-USD or NOISE1-USD
    \A e \in Exchanges : ToSet(Universe["fake"]) \cap ToSet(Universe[e]) = {}
ASSUME QualityAssumption ==
    Quality \in Seq([source : ValidSources, pair : Listed \X Listed])
ASSUME TablesAssumption ==
    TablesBefore \subseteq [dydx : {"none", "fake", "dydx"}, hyperliquid : {"none", "hyperliquid"}]

VARIABLES
    settings, \* config: the source, the scan floor and the thresholds in force
    history,  \* BotConfigHistory: the thresholds saved, oldest first
    saves,    \* set_thresholds calls whose row is not written yet
    clears,   \* set_data_source calls whose clear is not written yet
    sure,     \* the last saved thresholds must be those in force
    scan,     \* SCAN_STATE and the locals of run_scan
    tables,   \* CointScanResult, of each exchange
    csv,      \* cointegrated_pairs.csv: the scan that wrote it, 0 for none
    calls, faults

settingVars == <<settings, history, saves, clears, sure>>
scanVars == <<scan, csv>>
bounds == <<calls, faults>>

Call ==
    /\ calls < MaxCalls
    /\ calls' = calls + 1

Fault(kind) ==
    /\ kind \in Faults
    /\ faults < MaxFaults
    /\ faults' = faults + 1

(***************************************************************************)
(* Settings.                                                               *)
(***************************************************************************)

\* active_exchange: the venue that a source belongs to.
ActiveExchange(source) ==
    IF source \in Exchanges THEN source ELSE DefaultExchange

\* set_signal_thresholds: bounds of each, and exit < entry < stop.
BoundsOnly(t) ==  \* mutant: their order is not checked
    t.entry \in 1 .. 8 /\ t.exit \in 1 .. 4 /\ t.stop \in 2 .. 20
Valid(t) ==
    /\ t.entry \in 1 .. 8 /\ t.exit \in 1 .. 4 /\ t.stop \in 2 .. 20
    /\ t.exit < t.entry /\ t.entry < t.stop

\* No row: what a clear leaves, or no scan so far.
Empty == [pairs |-> {}, from |-> "none", by |-> 0]

\* set_data_source: a switch clears the default exchange's pairs, later.
SetSource ==
    /\ Call
    /\ \E source \in Sources :
          /\ settings' = [settings EXCEPT !.source = source]
          /\ clears' = IF source = settings.source THEN clears
                       ELSE clears \cup {calls'}
    /\ UNCHANGED <<history, saves, sure, scanVars, tables, faults>>

\* A clear that fails is only logged.
ClearPairs ==
    /\ \E id \in clears : clears' = clears \ {id}
    /\ \/ /\ tables' = [tables EXCEPT ![DefaultExchange] = Empty]
          /\ UNCHANGED faults
       \/ /\ Fault("db")
          /\ UNCHANGED tables
    /\ UNCHANGED <<settings, history, saves, sure, scanVars, calls>>

SetScanFloor ==
    /\ Call
    /\ \E floor \in Floors : settings' = [settings EXCEPT !.floor = floor]
    /\ UNCHANGED <<history, saves, clears, sure, scanVars, tables, faults>>

\* set_thresholds: in force at once, their row is written later.
SetThresholds ==
    /\ Call
    /\ \E t \in Asked :
          /\ Valid(t)
          /\ settings' = [settings EXCEPT !.thresholds = t]
          /\ saves' = saves \cup {[id |-> calls', thresholds |-> t]}
    /\ sure' = (saves = {})
    /\ UNCHANGED <<history, clears, scanVars, tables, faults>>

SaveThresholds ==
    /\ \E save \in saves :
          /\ saves' = saves \ {save}
          /\ \/ /\ history' = Append(history, save.thresholds)
                /\ UNCHANGED <<sure, faults>>
             \/ /\ Fault("db")
                /\ sure' = FALSE
                /\ UNCHANGED history
    /\ UNCHANGED <<settings, clears, scanVars, tables, calls>>

(***************************************************************************)
(* The scan. try_begin clears the state and claims it. While the scan runs *)
(* `stopped' is the local of run_scan, and then what finish made of it.    *)
(***************************************************************************)
NoScan == [pc |-> "idle", running |-> FALSE, stopRequested |-> FALSE,
           stopped |-> FALSE, error |-> FALSE, id |-> 0, asked |-> FALSE,
           client |-> "none", exchange |-> DefaultExchange, stored |-> FALSE,
           markets |-> {}, dropped |-> {}, tested |-> {}, found |-> {}]

Finished(locals, stopped) ==
    [locals EXCEPT !.pc = "done", !.running = FALSE,
                   !.stopped = stopped, !.stopRequested = FALSE]
StaysRunning(locals) ==  \* mutant: a scan that failed still holds the claim
    [locals EXCEPT !.pc = "done", !.error = TRUE, !.stopRequested = FALSE]
Failed(locals) ==
    [locals EXCEPT !.pc = "done", !.running = FALSE, !.error = TRUE,
                   !.stopped = FALSE, !.stopRequested = FALSE]

StartScan ==
    /\ Call
    /\ ~ scan.running
    /\ scan' = [NoScan EXCEPT !.pc = "claimed", !.running = TRUE, !.id = calls']
    /\ UNCHANGED <<settingVars, tables, csv, faults>>

StopScan ==
    /\ Call
    /\ scan.running
    /\ scan' = [scan EXCEPT !.stopRequested = TRUE, !.asked = TRUE]
    /\ UNCHANGED <<settingVars, tables, csv, faults>>

ResetScan ==
    /\ Call
    /\ scan.pc = "done"
    /\ scan' = NoScan
    /\ UNCHANGED <<settingVars, tables, csv, faults>>

\* run_scan reads the exchange and makes its client when the task starts.
ScanBegins ==
    /\ scan.pc = "claimed"
    /\ scan' = [scan EXCEPT !.pc = "fetching", !.client = settings.source,
                            !.exchange = ActiveExchange(settings.source)]
    /\ UNCHANGED <<settingVars, tables, csv, bounds>>

\* get_markets; the demo client knows no floor.
Eligible(source) ==
    {m \in ToSet(Universe[source]) : source = "fake" \/ Volume[source][m] >= settings.floor}

\* build_price_matrix: the columns that are left when the markets in lost
\* could not be fetched. A market must have every hour that any of them has.
Candidates(source, markets, lost) ==
    {m \in markets \ lost :
        Bars[source][m] # {} /\ Cardinality(Bars[source][m]) >= MinCandles}
Columns(source, markets, lost) ==
    LET rest == Candidates(source, markets, lost)
    IN  {m \in rest : \A n \in rest : Bars[source][n] \subseteq Bars[source][m]}

\* itertools.combinations(columns, 2): the columns are in the order of the
\* listing, and the pairs in theirs.
Position(source, m) == CHOOSE i \in DOMAIN Universe[source] : Universe[source][i] = m
Combinations(source, columns) ==
    {pair \in columns \X columns : Position(source, pair[1]) < Position(source, pair[2])}
Before(source, p, q) ==
    \/ Position(source, p[1]) < Position(source, q[1])
    \/ p[1] = q[1] /\ Position(source, p[2]) < Position(source, q[2])

AllPairs(locals) == Combinations(locals.client, locals.markets)

\* The checkpoint between two chunks: the pairs run out before a stop counts.
StopFirst(locals) ==  \* mutant: a stop counts after the last chunk too
    IF locals.stopRequested THEN [locals EXCEPT !.pc = "storing", !.stopped = TRUE]
    ELSE IF locals.tested = AllPairs(locals) THEN [locals EXCEPT !.pc = "storing"]
    ELSE [locals EXCEPT !.pc = "testing"]
Checkpoint(locals) ==
    IF locals.tested = AllPairs(locals) THEN [locals EXCEPT !.pc = "storing"]
    ELSE IF locals.stopRequested THEN [locals EXCEPT !.pc = "storing", !.stopped = TRUE]
    ELSE [locals EXCEPT !.pc = "testing"]

\* The matrix is there. A stop in the meantime discards it.
Fetched(markets, lost) ==
    LET columns == Columns(scan.client, markets, lost)
    IN  IF scan.stopRequested THEN [scan EXCEPT !.pc = "emptying"]
        ELSE LET told == [scan EXCEPT !.dropped = markets \ columns]
             IN  IF columns = {} THEN Finished(told, FALSE)
                 ELSE Checkpoint([told EXCEPT !.markets = columns])

FetchMatrix ==
    /\ scan.pc = "fetching"
    /\ \/ /\ scan' = Fetched(Eligible(scan.client), {})
          /\ UNCHANGED faults
       \/ /\ Fault("fetch")
          /\ scan.client # "fake"
          /\ \E m \in Eligible(scan.client) :
                scan' = Fetched(Eligible(scan.client), {m})
       \/ /\ Fault("markets")  \* dYdX raises, Hyperliquid lists no market
          /\ scan.client # "fake"
          /\ scan' = IF scan.client = "dydx" THEN Failed(scan) ELSE Fetched({}, {})
    /\ UNCHANGED <<settingVars, tables, csv, calls>>

\* A stop during the fetch empties the table; if that fails it is only logged.
EmptyTable ==
    /\ scan.pc = "emptying"
    /\ \/ /\ tables' = [tables EXCEPT ![scan.exchange] = [Empty EXCEPT !.by = scan.id]]
          /\ UNCHANGED faults
       \/ /\ Fault("db")
          /\ UNCHANGED tables
    /\ scan' = Finished(scan, TRUE)
    /\ UNCHANGED <<settingVars, csv, calls>>

\* _analyze_chunk: the survivors of a chunk; a pair of too few rows is none.
Survivors(source, pairs) ==
    {pair \in pairs \cap Cointegrated(source) : Cardinality(Bars[source][pair[1]]) >= MinRows}

Untested == AllPairs(scan) \ scan.tested

TestChunk ==
    /\ scan.pc = "testing"
    /\ \E chunk \in SUBSET Untested :
          /\ Cardinality(chunk) <= ChunkSize
          /\ Cardinality(chunk) = ChunkSize \/ chunk = Untested
          /\ \A p \in chunk, q \in Untested \ chunk : Before(scan.client, p, q)
          /\ scan' = Checkpoint([scan EXCEPT !.tested = @ \cup chunk,
                                            !.found = @ \cup Survivors(scan.client, chunk)])
    /\ UNCHANGED <<settingVars, tables, csv, bounds>>

\* The table first, the CSV file only if that succeeds.
StoreRows ==
    /\ scan.pc = "storing"
    /\ \/ /\ tables' = [tables EXCEPT ![scan.exchange] =
                 [pairs |-> scan.found, from |-> scan.client, by |-> scan.id]]
          /\ scan' = [scan EXCEPT !.pc = "csv", !.stored = TRUE]
          /\ UNCHANGED faults
       \/ /\ Fault("db")
          /\ scan' = Failed(scan)
          /\ UNCHANGED tables
    /\ UNCHANGED <<settingVars, csv, calls>>

WriteCsv ==
    /\ scan.pc = "csv"
    /\ \/ /\ csv' = scan.id
          /\ UNCHANGED faults
       \/ /\ Fault("csv")
          /\ UNCHANGED csv
    /\ scan' = Finished(scan, scan.stopped)
    /\ UNCHANGED <<settingVars, tables, calls>>

(***************************************************************************)
(* A restart: what is not stored starts from the environment again, the    *)
(* thresholds from their last row if it can be read and is still valid.    *)
(***************************************************************************)
FromEnv(saved) == EnvThresholds  \* mutant: they are not loaded again
Reloaded(saved) == IF Valid(saved) THEN saved ELSE EnvThresholds

Restart ==
    /\ "crash" \in Faults
    /\ \/ /\ Fault("crash")
          /\ history = <<>> \/ "db" \in Faults
          /\ settings' = [source |-> EnvSource, floor |-> 0, thresholds |-> EnvThresholds]
          /\ sure' = FALSE
       \/ /\ Fault("crash")
          /\ history # <<>>
          /\ settings' = [source |-> EnvSource, floor |-> 0,
                          thresholds |-> Reloaded(Last(history))]
          /\ sure' = TRUE
    /\ saves' = {} /\ clears' = {}
    /\ scan' = NoScan
    /\ UNCHANGED <<history, tables, csv, calls>>

SettingsStep == SetSource \/ ClearPairs \/ SetScanFloor \/ SetThresholds \/ SaveThresholds

ScanTask == ScanBegins \/ FetchMatrix \/ EmptyTable \/ TestChunk \/ StoreRows \/ WriteCsv

ScanStep == StartScan \/ StopScan \/ ResetScan \/ ScanTask

\* What a whole scan of a source stores.
Stored(source) ==
    LET columns == Columns(source, ToSet(Universe[source]), {})
    IN  [pairs |-> Survivors(source, Combinations(source, columns)),
         from |-> source, by |-> 0]

\* get_latest_pairs, which orders them by Quality.
LatestPairs(exchange) == tables[exchange].pairs

ScanInit ==
    /\ settings = [source |-> EnvSource, floor |-> 0, thresholds |-> EnvThresholds]
    /\ history = <<>> /\ saves = {} /\ clears = {} /\ sure = FALSE
    /\ scan = NoScan
    /\ \E before \in TablesBefore :
          tables = [e \in Exchanges |->
                        IF before[e] = "none" THEN Empty ELSE Stored(before[e])]
    /\ csv = 0
    /\ calls = 0 /\ faults = 0

=============================================================================
