----------------------------- MODULE DeskProofs -----------------------------
(***************************************************************************)
(* Proofs about Desk, for any listings, closes, thresholds, tables stored  *)
(* before, faults and number of requests. The types of the thresholds need *)
(* the hypothesis that those of the environment are valid, for config.py   *)
(* does not check them. The books of the fast-forward runs have a module   *)
(* of their own, ReplayProofs.                                             *)
(***************************************************************************)
EXTENDS Desk, TLAPS, SequenceTheorems, FiniteSetTheorems

CountsOK == calls \in 0 .. MaxCalls /\ faults \in 0 .. MaxFaults

(***************************************************************************)
(* Settings: what is sure is either saved last, or the only save to come.  *)
(***************************************************************************)
ValidAsked == {t \in Asked : Valid(t)}
SettingsRecs == [source : ValidSources, floor : Floors \cup {0},
                 thresholds : ValidAsked \cup {EnvThresholds}]

SettingsOK ==
    /\ settings \in SettingsRecs
    /\ history \in Seq(ValidAsked)
    /\ saves \subseteq [id : Nat, thresholds : ValidAsked]
    /\ sure => \/ /\ saves = {} /\ history # <<>>
                  /\ Last(history) = settings.thresholds
               \/ \E save \in saves :
                     saves = {save} /\ save.thresholds = settings.thresholds

(***************************************************************************)
(* The scan, from its claim to its end.                                    *)
(***************************************************************************)
Pairs == Listed \X Listed
BeforeBegin == {"idle", "claimed"}
BeforeMatrix == BeforeBegin \cup {"fetching", "emptying"}
PCs == BeforeMatrix \cup {"testing", "storing", "csv", "done"}

ScanRecs ==
    [pc : PCs, running : BOOLEAN, stopRequested : BOOLEAN, stopped : BOOLEAN,
     error : BOOLEAN, id : Nat, asked : BOOLEAN, client : ValidSources \cup {"none"},
     exchange : Exchanges, stored : BOOLEAN, markets : SUBSET Listed,
     dropped : SUBSET Listed, tested : SUBSET Pairs, found : SUBSET Pairs]

\* What the locals say at each point of the task.
LocalsOK(s) ==
    /\ s.running <=> s.pc \notin {"idle", "done"}
    /\ s.pc \notin BeforeBegin => s.client \in ValidSources /\ s.exchange = ActiveExchange(s.client)
    /\ s.pc \notin BeforeBegin => s.markets \subseteq ToSet(Universe[s.client])
    /\ s.pc \in BeforeMatrix => s.markets = {} /\ s.tested = {}
    /\ s.tested \subseteq AllPairs(s) /\ s.found = Survivors(s.client, s.tested)
    /\ s.stopRequested \/ s.pc = "emptying" => s.asked
    /\ s.pc = "testing" => s.tested # AllPairs(s)
    /\ s.stopped => /\ s.pc \in {"storing", "csv", "done"} /\ s.asked
                    /\ s.markets = {} \/ s.tested # AllPairs(s)
    /\ s.error => s.pc = "done"
    /\ s.pc \in {"storing", "csv", "done"} /\ ~ s.stopped /\ ~ s.error => s.tested = AllPairs(s)
    /\ s.pc = "csv" => s.stored
    /\ s.stored => s.pc \in {"csv", "done"}
    /\ s.pc # "idle" => s.id # 0

\* A stored table has pairs of the markets of a source of its exchange.
TableOK(table, e) ==
    /\ table \in [pairs : SUBSET Pairs, from : ValidSources \cup {"none"}, by : Nat]
    /\ table.from # "none" => ActiveExchange(table.from) = e
    /\ \A pair \in table.pairs :
          table.from # "none" /\ pair \in ToSet(Universe[table.from]) \X ToSet(Universe[table.from])

ScanOK ==
    /\ scan \in ScanRecs /\ LocalsOK(scan)
    /\ scan.id \in 0 .. calls
    /\ csv \in 0 .. calls /\ (scan.id # 0 /\ csv = scan.id => scan.stored)
    /\ tables = [e \in Exchanges |-> tables[e]]
    /\ \A e \in Exchanges : TableOK(tables[e], e)
    /\ scan.stored /\ tables[scan.exchange].by = scan.id =>
           tables[scan.exchange].pairs = scan.found

(***************************************************************************)
(* Fast-forward runs.                                                      *)
(***************************************************************************)
Statuses == {"RUNNING", "COMPLETED", "STOPPED", "FAILED"}
TaskPCs == {"start", "load", "walk", "failing", "done"}

\* A row and a task have these fields; the books in them are of any kind.
IsRow(row) ==
    row \in [status : Statuses, total : Nat, processed : Nat, trades : {row.trades},
             final : {row.final}, asked : BOOLEAN]
IsTask(task) ==
    task \in [pc : TaskPCs, pairs : {task.pairs}, from : {task.from},
              source : {task.source}, exchange : {task.exchange}, start : Nat, end : Nat,
              bar : Nat, ledger : {task.ledger}]

RowOK(row, task) ==
    /\ IsRow(row) /\ IsTask(task)
    /\ row.processed <= row.total /\ task.bar <= row.total
    /\ task.pc \in {"start", "load"} => row.total = 0
    /\ row.status = "COMPLETED" => row.processed = row.total
    /\ row.status = "STOPPED" => row.asked /\ row.processed < row.total
    /\ task.pc # "done" => row.status = "RUNNING"

ReplayOK ==
    /\ runs \in Seq(ToSet(runs)) /\ tasks \in Seq(ToSet(tasks))
    /\ Len(tasks) = Len(runs)
    /\ \A r \in 1 .. Len(runs) : RowOK(runs[r], tasks[r])
    /\ \A r \in 1 .. Len(runs) : runs[r].status = "RUNNING" => tasks[r].pc # "done" \/ faults > 0
    /\ stops \subseteq 1 .. Len(runs) /\ cancelled \subseteq 1 .. Len(runs)
    /\ \A r \in stops \cup cancelled : runs[r].asked

(***************************************************************************)
(* Manual trades and the requests about them.                              *)
(***************************************************************************)
Trades == [status : {"OPEN", "CLOSED", "DELETED"}, pair : Pairs, exchange : Exchanges,
           client : ValidSources, stamp : ValidSources,
           exit : [1 .. 2 -> ValidSources \cup {"none"}]]
Requests == [id : Nat, kind : {"record", "close"}, pc : {"asked", "checking", "pricing"},
             pair : Pairs, exchange : Exchanges, client : ValidSources \cup {"none"},
             trade : Nat]

RecordOK(q) == q.pc = "checking" => q.client \in ValidSources

\* A trade is closed with prices of its own pair.
CloseOK(q) ==
    /\ q.client \in ValidSources
    /\ q.trade \in 1 .. Len(trades) /\ q.pair = trades[q.trade].pair

\* Whoever priced a leg lists it, and the pair passed on the client of its entry.
TradeOK(trade) ==
    /\ trade.pair \in Cointegrated(trade.client)
    /\ {trade.pair[1], trade.pair[2]} \subseteq ToSet(Universe[trade.client])
    /\ \A leg \in 1 .. 2 : trade.exit[leg] # "none" =>
           trade.pair[leg] \in ToSet(Universe[trade.exit[leg]])

ManualOK ==
    /\ trades \in Seq(Trades) /\ requests \subseteq Requests
    /\ \A t \in 1 .. Len(trades) : TradeOK(trades[t])
    /\ \A q \in requests : IF q.kind = "record" THEN RecordOK(q) ELSE CloseOK(q)

IInv == CountsOK /\ SettingsOK /\ ScanOK /\ ReplayOK /\ ManualOK

(***************************************************************************)
(* The bounds, and what a step leaves alone.                               *)
(***************************************************************************)
Counted == CountsOK' /\ calls <= calls' /\ faults <= faults'

\* A request is counted once.
LEMMA CallCounts == ASSUME CountsOK, Call, UNCHANGED faults PROVE Counted
BY CountsAssumption DEF CountsOK, Call, Counted

\* A fault is counted once.
LEMMA FaultCounts ==
    ASSUME NEW kind, CountsOK, Fault(kind), UNCHANGED calls PROVE Counted /\ faults' > 0
BY CountsAssumption DEF CountsOK, Fault, Counted

\* Who makes neither a request nor a fault counts nothing.
LEMMA NothingCounts == ASSUME CountsOK, UNCHANGED calls, UNCHANGED faults PROVE Counted
BY CountsAssumption DEF CountsOK, Counted

\* Who leaves the settings alone keeps their part of the invariant.
LEMMA SettingsKept == ASSUME SettingsOK, UNCHANGED settingVars PROVE SettingsOK'
BY DEF SettingsOK, settingVars

\* Who leaves the scan and the tables alone keeps their part of the invariant.
LEMMA ScanKept ==
    ASSUME ScanOK, UNCHANGED scanVars, UNCHANGED tables, CountsOK, Counted
    PROVE  ScanOK'
<1>1. scan' = scan /\ csv' = csv /\ tables' = tables
  BY DEF scanVars
<1>2. AllPairs(scan)' = AllPairs(scan)
  BY <1>1 DEF AllPairs
<1>3. scan.id \in 0 .. calls' /\ csv \in 0 .. calls'
  BY DEF ScanOK, CountsOK, Counted
<1>. QED
  BY <1>1, <1>3 DEF ScanOK, ScanRecs

\* Who leaves the replays alone keeps their part of the invariant.
LEMMA ReplayKept ==
    ASSUME ReplayOK, UNCHANGED replayVars, CountsOK, Counted
    PROVE  ReplayOK'
BY DEF ReplayOK, replayVars, CountsOK, Counted

\* Who leaves the trades alone keeps their part of the invariant.
LEMMA ManualKept == ASSUME ManualOK, UNCHANGED manualVars PROVE ManualOK'
<1>1. trades' = trades /\ requests' = requests
  BY DEF manualVars
<1>. QED
  BY <1>1 DEF ManualOK, CloseOK

(***************************************************************************)
(* The initial states.                                                     *)
(***************************************************************************)
LEMMA InitSettings == ASSUME Init PROVE CountsOK /\ SettingsOK
<1>1. settings = [source |-> EnvSource, floor |-> 0, thresholds |-> EnvThresholds]
      /\ history = <<>> /\ saves = {} /\ sure = FALSE /\ calls = 0 /\ faults = 0
  BY DEF Init, ScanInit
<1>2. <<>> \in Seq(ValidAsked)
  OBVIOUS
<1>. QED
  BY <1>1, <1>2, SourcesAssumption, CountsAssumption DEF CountsOK, SettingsOK, SettingsRecs

\* A pair is of two markets of the columns.
LEMMA PairsOfColumns ==
    ASSUME NEW source, NEW columns
    PROVE  Combinations(source, columns) \subseteq columns \X columns
BY DEF Combinations

\* A price matrix has columns of the fetched markets only.
LEMMA ColumnsOfMarkets ==
    ASSUME NEW source, NEW markets, NEW lost
    PROVE  Columns(source, markets, lost) \subseteq markets
BY DEF Columns, Candidates

\* Only a pair that was tested is found.
LEMMA FoundAmongTested ==
    ASSUME NEW source, NEW pairs
    PROVE  Survivors(source, pairs) \subseteq pairs /\ Survivors(source, {}) = {}
BY DEF Survivors

\* Every source scans one of the two exchanges.
LEMMA VenueIsAnExchange ==
    ASSUME NEW source PROVE ActiveExchange(source) \in Exchanges
BY DEF ActiveExchange, Exchanges, DefaultExchange

\* A table without pairs is sound, whoever emptied it.
LEMMA EmptyIsOK ==
    ASSUME NEW e \in Exchanges, NEW id \in Nat
    PROVE  TableOK([Empty EXCEPT !.by = id], e) /\ TableOK(Empty, e)
           /\ Empty.by = 0 /\ [Empty EXCEPT !.by = id].pairs = {}
BY DEF TableOK, Empty

\* What is found among the markets of a source is a table of its exchange.
LEMMA FoundIsOK ==
    ASSUME NEW source \in ValidSources, NEW id \in Nat,
           NEW pairs \in SUBSET (ToSet(Universe[source]) \X ToSet(Universe[source]))
    PROVE  TableOK([pairs |-> pairs, from |-> source, by |-> id], ActiveExchange(source))
<1>1. pairs \subseteq Pairs
  BY DEF Pairs, Listed
<1>2. source # "none"
  BY DEF ValidSources
<1>. QED
  BY <1>1, <1>2 DEF TableOK

\* The state of a scan that was reset is well formed.
LEMMA NoScanIsOK == NoScan.id = 0 /\ ~ NoScan.stored /\ LocalsOK(NoScan) /\
    NoScan \in ScanRecs
<1>1. Survivors(NoScan.client, {}) = {}
  BY FoundAmongTested
<1>2. {} \subseteq AllPairs(NoScan)
  OBVIOUS
<1>. QED
  BY <1>1, <1>2 DEF NoScan, LocalsOK, PCs, BeforeMatrix, BeforeBegin, Exchanges, DefaultExchange, ScanRecs

\* Scan and tables are sound in the beginning.
LEMMA InitScan == ASSUME Init PROVE ScanOK
<1>1. PICK before \in TablesBefore :
          tables = [e \in Exchanges |-> IF before[e] = "none" THEN Empty ELSE Stored(before[e])]
  BY DEF Init, ScanInit
<1>2. ASSUME NEW e \in Exchanges PROVE TableOK(tables[e], e)
  <2>1. CASE before[e] = "none"
    BY <1>1, <2>1, EmptyIsOK
  <2>2. CASE before[e] # "none"
    <3>1. before[e] \in ValidSources /\ ActiveExchange(before[e]) = e
      BY <2>2, TablesAssumption DEF ValidSources, ActiveExchange, Exchanges, DefaultExchange
    <3>2. Stored(before[e]).pairs
              \subseteq ToSet(Universe[before[e]]) \X ToSet(Universe[before[e]])
      BY PairsOfColumns, ColumnsOfMarkets, FoundAmongTested DEF Stored
    <3>. QED
      BY <1>1, <2>2, <3>1, <3>2, FoundIsOK DEF Stored
  <2>. QED
    BY <2>1, <2>2
<1>3. scan = NoScan /\ csv = 0 /\ calls = 0
  BY DEF Init, ScanInit
<1>4. tables = [e \in Exchanges |-> tables[e]]
  BY <1>1
<1>. QED
  BY <1>2, <1>3, <1>4, NoScanIsOK DEF ScanOK, ScanRecs

\* Replays and trades are sound in the beginning.
LEMMA InitRest == ASSUME Init PROVE ReplayOK /\ ManualOK
<1>1. runs = <<>> /\ tasks = <<>> /\ stops = {} /\ cancelled = {} /\ trades = <<>> /\ requests = {}
  BY DEF Init, ReplayInit, ManualInit
<1>2. ReplayOK
  BY <1>1, EmptySeq DEF ReplayOK
<1>3. ManualOK
  BY <1>1, EmptySeq DEF ManualOK
<1>. QED
  BY <1>2, <1>3

(***************************************************************************)
(* Settings.                                                               *)
(***************************************************************************)
\* A setting other than the thresholds.
LEMMA OtherSetting ==
    ASSUME SettingsOK, settings' \in SettingsRecs,
           settings'.thresholds = settings.thresholds, UNCHANGED <<history, saves, sure>>
    PROVE  SettingsOK'
BY DEF SettingsOK, SettingsRecs

\* A switch of the source clears the table in a later step.
LEMMA SetSourceKeeps ==
    ASSUME CountsOK, SettingsOK, SetSource PROVE SettingsOK' /\ Counted
<1>1. PICK source \in Sources : settings' = [settings EXCEPT !.source = source]
  BY DEF SetSource
<1>2. settings \in SettingsRecs /\ source \in ValidSources
  BY SourcesAssumption DEF SettingsOK, SettingsRecs
<1>3. settings' \in SettingsRecs /\ settings'.thresholds = settings.thresholds
  BY <1>1, <1>2 DEF SettingsRecs
<1>4. SettingsOK'
  BY <1>3, OtherSetting DEF SetSource
<1>. QED
  BY <1>4, CallCounts DEF SetSource

\* The scan floor is in force at once.
LEMMA SetScanFloorKeeps ==
    ASSUME CountsOK, SettingsOK, SetScanFloor PROVE SettingsOK' /\ Counted
<1>1. PICK floor \in Floors : settings' = [settings EXCEPT !.floor = floor]
  BY DEF SetScanFloor
<1>2. settings \in SettingsRecs
  BY DEF SettingsOK, SettingsRecs
<1>3. settings' \in SettingsRecs /\ settings'.thresholds = settings.thresholds
  BY <1>1, <1>2 DEF SettingsRecs
<1>4. SettingsOK'
  BY <1>3, OtherSetting DEF SetScanFloor
<1>. QED
  BY <1>4, CallCounts DEF SetScanFloor

\* Clearing the table leaves the settings alone.
LEMMA ClearPairsKeeps ==
    ASSUME CountsOK, SettingsOK, ClearPairs PROVE SettingsOK' /\ Counted
<1>1. SettingsOK'
  BY DEF SettingsOK, ClearPairs
<1>. QED
  BY <1>1, NothingCounts, FaultCounts DEF ClearPairs

\* The save to come is the only one if there was none before.
LEMMA SetThresholdsKeeps ==
    ASSUME CountsOK, SettingsOK, SetThresholds PROVE SettingsOK' /\ Counted
<1>1. PICK t \in Asked : /\ Valid(t)
                         /\ settings' = [settings EXCEPT !.thresholds = t]
                         /\ saves' = saves \cup {[id |-> calls', thresholds |-> t]}
  BY DEF SetThresholds
<1>2. settings \in SettingsRecs /\ t \in ValidAsked
  BY <1>1 DEF SettingsOK, SettingsRecs, ValidAsked
<1>3. settings' \in SettingsRecs /\ settings'.thresholds = t
  BY <1>1, <1>2 DEF SettingsRecs
<1>4. Counted /\ calls' \in Nat
  BY CallCounts DEF SetThresholds, Call, CountsOK
<1>5. saves' \subseteq [id : Nat, thresholds : ValidAsked]
  BY <1>1, <1>2, <1>4 DEF SettingsOK
<1>6. sure' => saves' = {[id |-> calls', thresholds |-> t]}
  BY <1>1 DEF SetThresholds
<1>7. sure' => \E save \in saves' : saves' = {save} /\ save.thresholds = settings'.thresholds
  <2>. DEFINE save == [id |-> calls', thresholds |-> t]
  <2>1. save.thresholds = t
    OBVIOUS
  <2>2. sure' => saves' = {save} /\ save \in saves'
    BY <1>6
  <2>. HIDE DEF save
  <2>. QED
    BY <1>3, <2>1, <2>2
<1>8. history' = history
  BY DEF SetThresholds
<1>. QED
  BY <1>3, <1>4, <1>5, <1>7, <1>8 DEF SettingsOK, SettingsRecs

\* What is sure is the only save, or nothing is left to save.
LEMMA SaveThresholdsKeeps ==
    ASSUME CountsOK, SettingsOK, SaveThresholds PROVE SettingsOK' /\ Counted
<1>1. PICK save \in saves :
          /\ saves' = saves \ {save}
          /\ \/ /\ history' = Append(history, save.thresholds)
                /\ UNCHANGED <<sure, faults>>
             \/ /\ Fault("db")
                /\ sure' = FALSE
                /\ UNCHANGED history
  BY DEF SaveThresholds
<1>2. settings' = settings /\ calls' = calls
  BY DEF SaveThresholds
<1>3. save.thresholds \in ValidAsked /\ history \in Seq(ValidAsked)
      /\ saves' \subseteq [id : Nat, thresholds : ValidAsked]
  BY <1>1 DEF SettingsOK
<1>4. CASE history' = Append(history, save.thresholds) /\ UNCHANGED <<sure, faults>>
  <2>1. /\ history' \in Seq(ValidAsked)
        /\ history' # <<>> /\ Last(history') = save.thresholds
    BY <1>3, <1>4, AppendProperties DEF Last
  <2>2. sure => saves' = {} /\ save.thresholds = settings.thresholds
    BY <1>1 DEF SettingsOK
  <2>3. SettingsOK'
    BY <1>2, <1>3, <1>4, <2>1, <2>2 DEF SettingsOK
  <2>. QED
    BY <1>2, <1>4, <2>3, NothingCounts
<1>5. CASE Fault("db") /\ sure' = FALSE /\ UNCHANGED history
  <2>1. SettingsOK'
    BY <1>2, <1>3, <1>5 DEF SettingsOK
  <2>. QED
    BY <1>2, <1>5, <2>1, FaultCounts
<1>. QED
  BY <1>1, <1>4, <1>5

\* The last row is valid, so it is what a restart puts in force.
LEMMA RestartKeeps ==
    ASSUME CountsOK, SettingsOK, Restart PROVE SettingsOK' /\ Counted /\ faults' > 0
<1>1. Counted /\ faults' > 0
  BY FaultCounts DEF Restart
<1>2. saves' = {} /\ history' = history
  BY DEF Restart
<1>3. CASE settings' = [source |-> EnvSource, floor |-> 0, thresholds |-> EnvThresholds]
           /\ sure' = FALSE
  BY <1>1, <1>2, <1>3, SourcesAssumption DEF SettingsOK, SettingsRecs
<1>4. CASE history # <<>> /\ sure' = TRUE
           /\ settings' = [source |-> EnvSource, floor |-> 0,
                           thresholds |-> Reloaded(Last(history))]
  <2>1. Last(history) \in ValidAsked
    BY <1>4, ElementOfSeq, LenProperties, EmptySeq DEF SettingsOK, Last
  <2>2. Reloaded(Last(history)) = Last(history)
    BY <2>1 DEF Reloaded, ValidAsked
  <2>. QED
    BY <1>1, <1>2, <1>4, <2>1, <2>2, SourcesAssumption DEF SettingsOK, SettingsRecs
<1>. QED
  BY <1>3, <1>4 DEF Restart

\* A clear leaves an empty table of no scan.
LEMMA ClearKeepsTables ==
    ASSUME CountsOK, ScanOK, ClearPairs, Counted PROVE ScanOK'
<1>1. CASE UNCHANGED tables
  BY <1>1, ScanKept DEF ClearPairs
<1>2. CASE tables' = [tables EXCEPT ![DefaultExchange] = Empty]
  <2>1. scan' = scan /\ csv' = csv
    BY DEF ClearPairs, scanVars
  <2>2. tables = [e \in Exchanges |-> tables[e]] /\ DefaultExchange \in Exchanges
    BY DEF ScanOK, Exchanges, DefaultExchange
  <2>3. /\ tables' = [e \in Exchanges |-> tables'[e]]
        /\ \A e \in Exchanges : tables'[e] = IF e = DefaultExchange THEN Empty ELSE tables[e]
    BY <1>2, <2>2
  <2>4. \A e \in Exchanges : TableOK(tables'[e], e)
    BY <2>3, EmptyIsOK DEF ScanOK
  <2>5. AllPairs(scan)' = AllPairs(scan)
    BY <2>1 DEF AllPairs
  <2>6. scan.exchange \in Exchanges /\ (scan.stored => scan.id # 0)
    BY DEF ScanOK, ScanRecs, LocalsOK
  <2>7. scan.stored /\ tables'[scan.exchange].by = scan.id =>
            tables'[scan.exchange].pairs = scan.found
    BY <2>3, <2>6, EmptyIsOK DEF ScanOK
  <2>8. scan.id \in 0 .. calls' /\ csv \in 0 .. calls'
    BY DEF ScanOK, CountsOK, Counted
  <2>. QED
    BY <2>1, <2>3, <2>4, <2>7, <2>8 DEF ScanOK, ScanRecs
<1>. QED
  BY <1>1, <1>2 DEF ClearPairs

\* Every step that changes the settings keeps the invariant.
LEMMA ChangeSettingsKeeps == ASSUME IInv, ChangeSettings PROVE IInv'
<1>1. SettingsOK' /\ Counted
  BY SetSourceKeeps, SetScanFloorKeeps, ClearPairsKeeps, SetThresholdsKeeps, SaveThresholdsKeeps
     DEF IInv, ChangeSettings, SettingsStep
<1>2. ScanOK'
  <2>1. CASE ClearPairs
    BY <1>1, <2>1, ClearKeepsTables DEF IInv
  <2>2. CASE ~ ClearPairs
    <3>1. UNCHANGED scanVars /\ UNCHANGED tables
      BY <2>2 DEF ChangeSettings, SettingsStep, SetSource, SetScanFloor, SetThresholds,
                  SaveThresholds
    <3>. QED
      BY <1>1, <3>1, ScanKept DEF IInv
  <2>. QED
    BY <2>1, <2>2
<1>3. ReplayOK'
  BY <1>1, ReplayKept DEF IInv, ChangeSettings
<1>4. ManualOK'
  BY ManualKept DEF IInv, ChangeSettings
<1>. QED
  BY <1>1, <1>2, <1>3, <1>4 DEF IInv, Counted

(***************************************************************************)
(* The scan.                                                               *)
(***************************************************************************)
\* A step of the scan that leaves the table and the CSV file alone.
LEMMA OnlyScan ==
    ASSUME ScanOK, CountsOK, Counted, UNCHANGED <<tables, csv>>,
           scan' \in ScanRecs, LocalsOK(scan'), scan'.id = scan.id,
           scan'.stored = scan.stored, scan'.exchange = scan.exchange \/ ~ scan.stored,
           scan'.found = scan.found \/ ~ scan.stored
    PROVE  ScanOK'
<1>1. scan.id \in 0 .. calls' /\ csv \in 0 .. calls'
  BY DEF ScanOK, CountsOK, Counted
<1>2. AllPairs(scan)' = AllPairs(scan')
  BY DEF AllPairs
<1>3. LocalsOK(scan)'
  BY <1>2 DEF LocalsOK
<1>. QED
  BY <1>1, <1>3 DEF ScanOK, ScanRecs

\* A scan that starts afresh, with an id of its own or none.
LEMMA FreshScan ==
    ASSUME ScanOK, CountsOK, Counted, UNCHANGED <<tables, csv>>,
           scan' \in ScanRecs, LocalsOK(scan'), ~ scan'.stored,
           scan'.id = 0 \/ (scan'.id = calls' /\ calls' = calls + 1)
    PROVE  ScanOK'
<1>1. scan'.id \in 0 .. calls' /\ csv \in 0 .. calls' /\ (scan'.id # 0 => csv # scan'.id)
  BY DEF ScanOK, CountsOK, Counted
<1>2. AllPairs(scan)' = AllPairs(scan')
  BY DEF AllPairs
<1>3. LocalsOK(scan)'
  BY <1>2 DEF LocalsOK
<1>. QED
  BY <1>1, <1>3 DEF ScanOK, ScanRecs

\* Forgetting a scan leaves the tables.
LEMMA ResetKeeps ==
    ASSUME ScanOK, CountsOK, Counted, UNCHANGED <<tables, csv>>, scan' = NoScan
    PROVE  ScanOK'
<1>1. NoScan \in ScanRecs
  BY NoScanIsOK DEF ScanRecs
<1>. QED
  BY <1>1, NoScanIsOK, FreshScan

\* A scan starts with a new number.
LEMMA StartScanKeeps ==
    ASSUME CountsOK, ScanOK, StartScan PROVE ScanOK' /\ Counted
<1>1. Counted /\ calls' = calls + 1 /\ calls' \in Nat \ {0} /\ UNCHANGED <<tables, csv>>
  BY CallCounts DEF StartScan, Call, CountsOK
<1>. DEFINE r == [NoScan EXCEPT !.pc = "claimed", !.running = TRUE, !.id = calls']
<1>2. NoScan \in ScanRecs
  BY NoScanIsOK DEF ScanRecs
<1>3. r \in ScanRecs /\ r.pc = "claimed" /\ r.running /\ r.id = calls' /\ ~ r.stored
      /\ ~ r.stopRequested /\ ~ r.stopped /\ ~ r.error
      /\ r.markets = {} /\ r.tested = {} /\ r.found = {}
  BY <1>1, <1>2 DEF ScanRecs, PCs, BeforeMatrix, BeforeBegin, NoScan
<1>4. scan' = r
  BY DEF StartScan
<1>. HIDE DEF r
<1>5. Survivors(r.client, {}) = {}
  BY FoundAmongTested
<1>6. LocalsOK(r)
  BY <1>1, <1>3, <1>5 DEF LocalsOK, BeforeMatrix, BeforeBegin
<1>. QED
  BY <1>1, <1>3, <1>4, <1>6, FreshScan

\* A stop is asked of a scan that runs.
LEMMA StopScanKeeps ==
    ASSUME CountsOK, ScanOK, StopScan PROVE ScanOK' /\ Counted
<1>1. Counted /\ UNCHANGED <<tables, csv>>
  BY CallCounts DEF StopScan
<1>. DEFINE r == [scan EXCEPT !.stopRequested = TRUE, !.asked = TRUE]
<1>2. scan \in ScanRecs
  BY DEF ScanOK, ScanRecs
<1>3. /\ r \in ScanRecs /\ r.asked /\ r.pc = scan.pc /\ r.running = scan.running
      /\ r.stopped = scan.stopped /\ r.error = scan.error /\ r.id = scan.id
      /\ r.client = scan.client /\ r.exchange = scan.exchange /\ r.stored = scan.stored
      /\ r.markets = scan.markets /\ r.tested = scan.tested /\ r.found = scan.found
  BY <1>2 DEF ScanRecs
<1>4. scan' = r
  BY DEF StopScan
<1>. HIDE DEF r
<1>5. AllPairs(r) = AllPairs(scan)
  BY <1>3 DEF AllPairs
<1>6. LocalsOK(r)
  BY <1>3, <1>5 DEF LocalsOK, ScanOK
<1>. QED
  BY <1>1, <1>3, <1>4, <1>6, OnlyScan

\* Only a finished scan is forgotten.
LEMMA ResetScanKeeps ==
    ASSUME CountsOK, ScanOK, ResetScan PROVE ScanOK' /\ Counted
<1>1. Counted
  BY CallCounts DEF ResetScan
<1>. QED
  BY <1>1, ResetKeeps DEF ResetScan

\* The scan fixes its source and exchange.
LEMMA ScanBeginsKeeps ==
    ASSUME CountsOK, SettingsOK, ScanOK, ScanBegins PROVE ScanOK' /\ Counted
<1>1. Counted /\ UNCHANGED <<tables, csv>>
  BY NothingCounts DEF ScanBegins, bounds
<1>. DEFINE r == [scan EXCEPT !.pc = "fetching", !.client = settings.source,
                              !.exchange = ActiveExchange(settings.source)]
<1>2. scan \in ScanRecs /\ settings.source \in ValidSources /\ scan.pc = "claimed"
  BY DEF ScanOK, ScanRecs, SettingsOK, ScanBegins, SettingsRecs
<1>3. ActiveExchange(settings.source) \in Exchanges
  BY VenueIsAnExchange
<1>4. /\ r \in ScanRecs /\ r.asked = scan.asked /\ r.pc = "fetching" /\ r.running = scan.running
      /\ r.stopped = scan.stopped /\ r.error = scan.error /\ r.id = scan.id
      /\ r.client = settings.source /\ r.exchange = ActiveExchange(settings.source)
      /\ r.stored = scan.stored /\ r.stopRequested = scan.stopRequested
      /\ r.markets = scan.markets /\ r.tested = scan.tested /\ r.found = scan.found
  BY <1>2, <1>3 DEF ScanRecs, PCs, BeforeMatrix
<1>5. scan' = r
  BY DEF ScanBegins
<1>. HIDE DEF r
<1>6. /\ LocalsOK(scan) /\ scan.markets = {} /\ scan.tested = {} /\ ~ scan.stored
      /\ scan.found = {} /\ Survivors(r.client, {}) = {}
  BY <1>2, FoundAmongTested DEF LocalsOK, ScanOK, BeforeMatrix, BeforeBegin
<1>7. LocalsOK(r)
  BY <1>2, <1>4, <1>6 DEF LocalsOK, BeforeMatrix, BeforeBegin
<1>. QED
  BY <1>1, <1>4, <1>5, <1>6, <1>7, OnlyScan

\* The locals of a scan that tests pairs.
Testing(s) ==
    /\ s \in ScanRecs /\ s.running /\ ~ s.stopped /\ ~ s.error /\ ~ s.stored
    /\ s.client \in ValidSources /\ s.exchange = ActiveExchange(s.client)
    /\ s.markets \subseteq ToSet(Universe[s.client])
    /\ s.tested \subseteq AllPairs(s) /\ s.found = Survivors(s.client, s.tested)
    /\ s.stopRequested => s.asked
    /\ s.id # 0

\* Only the program counter and `stopped' differ after a checkpoint.
LEMMA CheckpointOK ==
    ASSUME NEW s, Testing(s)
    PROVE  /\ Checkpoint(s) \in ScanRecs /\ LocalsOK(Checkpoint(s))
           /\ Checkpoint(s).id = s.id /\ Checkpoint(s).stored = s.stored
<1>. DEFINE r == [s EXCEPT !.pc = "storing"]
            x == [s EXCEPT !.pc = "storing", !.stopped = TRUE]
            y == [s EXCEPT !.pc = "testing"]
            Same(t) == /\ t \in ScanRecs /\ t.asked = s.asked /\ t.running = s.running
                       /\ t.error = s.error /\ t.id = s.id /\ t.client = s.client
                       /\ t.exchange = s.exchange /\ t.stored = s.stored
                       /\ t.stopRequested = s.stopRequested
                       /\ t.markets = s.markets /\ t.tested = s.tested /\ t.found = s.found
<1>1. s \in ScanRecs
  BY DEF Testing
<1>2. Same(r) /\ r.pc = "storing" /\ r.stopped = s.stopped
  BY <1>1 DEF ScanRecs, PCs
<1>3. Same(x) /\ x.pc = "storing" /\ x.stopped
  BY <1>1 DEF ScanRecs, PCs
<1>4. Same(y) /\ y.pc = "testing" /\ y.stopped = s.stopped
  BY <1>1 DEF ScanRecs, PCs
<1>5. Checkpoint(s) = IF s.tested = AllPairs(s) THEN r
                      ELSE IF s.stopRequested THEN x ELSE y
  BY DEF Checkpoint
<1>. HIDE DEF r, x, y
<1>6. AllPairs(r) = AllPairs(s) /\ AllPairs(x) = AllPairs(s) /\ AllPairs(y) = AllPairs(s)
  BY <1>2, <1>3, <1>4 DEF AllPairs
<1>7. CASE s.tested = AllPairs(s)
  <2>1. LocalsOK(r)
    BY <1>2, <1>6, <1>7 DEF LocalsOK, Testing, BeforeMatrix, BeforeBegin
  <2>. QED
    BY <1>2, <1>5, <1>7, <2>1
<1>8. CASE s.tested # AllPairs(s) /\ s.stopRequested
  <2>1. LocalsOK(x)
    BY <1>3, <1>6, <1>8 DEF LocalsOK, Testing, BeforeMatrix, BeforeBegin
  <2>. QED
    BY <1>3, <1>5, <1>8, <2>1
<1>9. CASE s.tested # AllPairs(s) /\ ~ s.stopRequested
  <2>1. LocalsOK(y)
    BY <1>4, <1>6, <1>9 DEF LocalsOK, Testing, BeforeMatrix, BeforeBegin
  <2>. QED
    BY <1>4, <1>5, <1>9, <2>1
<1>. QED
  BY <1>7, <1>8, <1>9

\* A scan that fails keeps its number and what it has found.
LEMMA FailedOK ==
    ASSUME ScanOK, scan.pc \notin BeforeBegin
    PROVE  /\ Failed(scan) \in ScanRecs /\ LocalsOK(Failed(scan))
           /\ Failed(scan).id = scan.id /\ Failed(scan).stored = scan.stored
           /\ Failed(scan).exchange = scan.exchange /\ Failed(scan).found = scan.found
<1>. DEFINE r == Failed(scan)
<1>1. scan \in ScanRecs /\ LocalsOK(scan)
  BY DEF ScanOK, ScanRecs
<1>2. /\ r \in ScanRecs /\ r.pc = "done" /\ ~ r.running /\ r.error /\ ~ r.stopped
      /\ ~ r.stopRequested /\ r.asked = scan.asked /\ r.id = scan.id /\ r.client = scan.client
      /\ r.exchange = scan.exchange /\ r.stored = scan.stored
      /\ r.markets = scan.markets /\ r.tested = scan.tested /\ r.found = scan.found
  BY <1>1 DEF ScanRecs, PCs, Failed
<1>. HIDE DEF r
<1>3. AllPairs(r) = AllPairs(scan)
  BY <1>2 DEF AllPairs
<1>4. LocalsOK(r)
  BY <1>1, <1>2, <1>3 DEF LocalsOK, BeforeMatrix, BeforeBegin
<1>. QED
  BY <1>2, <1>4 DEF r

\* A scan finishes as what its locals say of it.
LEMMA FinishedOK ==
    ASSUME NEW s, s \in ScanRecs, LocalsOK(s), s.pc \notin BeforeBegin, ~ s.error,
           NEW stopped \in BOOLEAN,
           stopped => s.asked /\ (s.markets = {} \/ s.tested # AllPairs(s)),
           ~ stopped => s.tested = AllPairs(s)
    PROVE  /\ Finished(s, stopped) \in ScanRecs /\ LocalsOK(Finished(s, stopped))
           /\ Finished(s, stopped).id = s.id /\ Finished(s, stopped).stored = s.stored
           /\ Finished(s, stopped).exchange = s.exchange
           /\ Finished(s, stopped).found = s.found
<1>. DEFINE r == Finished(s, stopped)
<1>1. /\ r \in ScanRecs /\ r.pc = "done" /\ ~ r.running /\ r.error = s.error
      /\ r.stopped = stopped
      /\ ~ r.stopRequested /\ r.asked = s.asked /\ r.id = s.id /\ r.client = s.client
      /\ r.exchange = s.exchange /\ r.stored = s.stored
      /\ r.markets = s.markets /\ r.tested = s.tested /\ r.found = s.found
  BY DEF ScanRecs, PCs, Finished
<1>. HIDE DEF r
<1>2. AllPairs(r) = AllPairs(s)
  BY <1>1 DEF AllPairs
<1>3. LocalsOK(r)
  BY <1>1, <1>2 DEF LocalsOK, BeforeMatrix, BeforeBegin
<1>. QED
  BY <1>1, <1>3 DEF r

\* The matrix discards the scan, ends it, or leaves it to its first checkpoint.
LEMMA FetchedOK ==
    ASSUME ScanOK, scan.pc = "fetching",
           NEW markets \in SUBSET ToSet(Universe[scan.client]), NEW lost
    PROVE  /\ Fetched(markets, lost) \in ScanRecs /\ LocalsOK(Fetched(markets, lost))
           /\ Fetched(markets, lost).id = scan.id
           /\ Fetched(markets, lost).stored = scan.stored /\ ~ scan.stored
<1>. DEFINE columns == Columns(scan.client, markets, lost)
            left == markets \ columns
            told == [scan EXCEPT !.dropped = left]
            begun == [told EXCEPT !.markets = columns]
            e == [scan EXCEPT !.pc = "emptying"]
<1>1. /\ scan \in ScanRecs /\ LocalsOK(scan) /\ ~ scan.stored /\ ~ scan.stopped /\ ~ scan.error
      /\ scan.client \in ValidSources /\ scan.exchange = ActiveExchange(scan.client)
      /\ scan.markets = {} /\ scan.tested = {} /\ scan.running /\ scan.id # 0
  BY DEF ScanOK, ScanRecs, LocalsOK, BeforeMatrix, BeforeBegin
<1>2. columns \subseteq markets /\ markets \subseteq Listed
  BY <1>1, ColumnsOfMarkets DEF Listed
<1>3. Fetched(markets, lost) = IF scan.stopRequested THEN e
                               ELSE IF columns = {} THEN Finished(told, FALSE)
                               ELSE Checkpoint(begun)
  BY DEF Fetched
<1>4. columns \in SUBSET Listed /\ left \in SUBSET Listed
  BY <1>2
<1>. HIDE DEF left
<1>5. /\ e \in ScanRecs /\ e.pc = "emptying" /\ e.asked = scan.asked /\ e.running = scan.running
      /\ e.stopped = scan.stopped /\ e.error = scan.error /\ e.id = scan.id
      /\ e.client = scan.client /\ e.exchange = scan.exchange /\ e.stored = scan.stored
      /\ e.stopRequested = scan.stopRequested
      /\ e.markets = scan.markets /\ e.tested = scan.tested /\ e.found = scan.found
  BY <1>1 DEF ScanRecs, PCs, BeforeMatrix
<1>. HIDE DEF e, columns
<1>6. /\ told \in ScanRecs /\ told.pc = scan.pc /\ told.asked = scan.asked
      /\ told.running = scan.running /\ told.stopRequested = scan.stopRequested
      /\ told.stopped = scan.stopped /\ told.error = scan.error /\ told.id = scan.id
      /\ told.client = scan.client /\ told.exchange = scan.exchange /\ told.stored = scan.stored
      /\ told.markets = scan.markets /\ told.tested = scan.tested /\ told.found = scan.found
  BY <1>1, <1>4 DEF ScanRecs
<1>. HIDE DEF told
<1>7. /\ begun \in ScanRecs /\ begun.pc = told.pc /\ begun.asked = told.asked
      /\ begun.running = told.running /\ begun.stopRequested = told.stopRequested
      /\ begun.stopped = told.stopped /\ begun.error = told.error /\ begun.id = told.id
      /\ begun.client = told.client /\ begun.exchange = told.exchange
      /\ begun.stored = told.stored
      /\ begun.markets = columns /\ begun.tested = told.tested /\ begun.found = told.found
  BY <1>4, <1>6 DEF ScanRecs
<1>. HIDE DEF begun
<1>8. CASE scan.stopRequested
  <2>1. AllPairs(e) = AllPairs(scan)
    BY <1>5 DEF AllPairs
  <2>2. LocalsOK(e)
    BY <1>1, <1>5, <1>8, <2>1 DEF LocalsOK, BeforeMatrix, BeforeBegin
  <2>. QED
    BY <1>1, <1>3, <1>5, <1>8, <2>2
<1>9. CASE ~ scan.stopRequested /\ columns = {}
  <2>1. AllPairs(told) = AllPairs(scan)
    BY <1>6 DEF AllPairs
  <2>2. LocalsOK(told)
    BY <1>1, <1>6, <2>1 DEF LocalsOK
  <2>3. told.tested = AllPairs(told)
    BY <1>1, <1>6, PairsOfColumns DEF AllPairs
  <2>4. told.pc \notin BeforeBegin /\ ~ told.error
    BY <1>1, <1>6 DEF BeforeBegin
  <2>. QED
    BY <1>1, <1>3, <1>6, <1>9, <2>2, <2>3, <2>4, FinishedOK
<1>10. CASE ~ scan.stopRequested /\ columns # {}
  <2>1. begun.tested = {} /\ begun.found = Survivors(begun.client, begun.tested)
    BY <1>1, <1>6, <1>7 DEF LocalsOK
  <2>2. begun.markets \subseteq ToSet(Universe[begun.client])
    BY <1>2, <1>6, <1>7 DEF columns
  <2>3. Testing(begun)
    BY <1>1, <1>6, <1>7, <1>10, <2>1, <2>2 DEF Testing
  <2>4. Fetched(markets, lost) = Checkpoint(begun)
    BY <1>3, <1>10
  <2>. QED
    BY <1>1, <1>6, <1>7, <2>3, <2>4, CheckpointOK
<1>. QED
  BY <1>8, <1>9, <1>10

\* What is left to test are pairs of fetched markets.
LEMMA FetchMatrixKeeps ==
    ASSUME CountsOK, ScanOK, FetchMatrix PROVE ScanOK' /\ Counted
<1>1. Counted
  BY NothingCounts, FaultCounts DEF FetchMatrix
<1>2. UNCHANGED <<tables, csv>> /\ scan.pc = "fetching"
  BY DEF FetchMatrix
<1>3. Eligible(scan.client) \subseteq ToSet(Universe[scan.client])
  BY DEF Eligible
<1>4. CASE scan' = Fetched(Eligible(scan.client), {})
  BY <1>1, <1>2, <1>3, <1>4, FetchedOK, OnlyScan
<1>5. CASE scan' = Failed(scan)
  BY <1>1, <1>2, <1>5, FailedOK, OnlyScan DEF BeforeBegin
<1>6. CASE \E m \in Eligible(scan.client) : scan' = Fetched(Eligible(scan.client), {m})
  BY <1>1, <1>2, <1>3, <1>6, FetchedOK, OnlyScan
<1>7. CASE scan' = Fetched({}, {})
  BY <1>1, <1>2, <1>7, FetchedOK, OnlyScan
<1>. QED
  BY <1>1, <1>4, <1>5, <1>6, <1>7 DEF FetchMatrix

\* Every pair of the chunk is counted, and the survivors of both are found.
LEMMA TestChunkKeeps ==
    ASSUME CountsOK, ScanOK, TestChunk PROVE ScanOK' /\ Counted
<1>1. Counted /\ UNCHANGED <<tables, csv>> /\ scan.pc = "testing"
  BY NothingCounts DEF TestChunk, bounds
<1>2. PICK chunk \in SUBSET Untested :
          scan' = Checkpoint([scan EXCEPT !.tested = @ \cup chunk,
                                          !.found = @ \cup Survivors(scan.client, chunk)])
  BY DEF TestChunk
<1>. DEFINE tested == scan.tested \cup chunk
            found == scan.found \cup Survivors(scan.client, chunk)
            s == [scan EXCEPT !.tested = tested, !.found = found]
<1>3. /\ scan \in ScanRecs /\ ~ scan.stored /\ ~ scan.stopped /\ ~ scan.error
      /\ scan.client \in ValidSources /\ scan.exchange = ActiveExchange(scan.client)
      /\ scan.markets \subseteq ToSet(Universe[scan.client]) /\ scan.running
      /\ scan.tested \subseteq AllPairs(scan) /\ scan.found = Survivors(scan.client, scan.tested)
      /\ (scan.stopRequested => scan.asked) /\ scan.id # 0
  BY <1>1 DEF ScanOK, ScanRecs, LocalsOK, BeforeMatrix, BeforeBegin
<1>4. tested \subseteq AllPairs(scan) /\ found = Survivors(scan.client, tested)
  BY <1>3 DEF Untested, Survivors
<1>5. AllPairs(scan) \subseteq Pairs
  <2>1. scan.markets \subseteq Listed
    BY <1>3 DEF Listed
  <2>. QED
    BY <2>1, PairsOfColumns DEF AllPairs, Pairs
<1>6. tested \in SUBSET Pairs /\ found \in SUBSET Pairs
  BY <1>4, <1>5, FoundAmongTested
<1>. HIDE DEF tested, found
<1>7. /\ s \in ScanRecs /\ s.asked = scan.asked /\ s.running = scan.running
      /\ s.stopped = scan.stopped /\ s.error = scan.error /\ s.id = scan.id
      /\ s.client = scan.client /\ s.exchange = scan.exchange /\ s.stored = scan.stored
      /\ s.stopRequested = scan.stopRequested
      /\ s.markets = scan.markets /\ s.tested = tested /\ s.found = found
  BY <1>3, <1>6 DEF ScanRecs
<1>8. scan' = Checkpoint(s)
  BY <1>2 DEF s, tested, found
<1>. HIDE DEF s
<1>9. AllPairs(s) = AllPairs(scan)
  BY <1>7 DEF AllPairs
<1>10. Testing(s)
  BY <1>3, <1>4, <1>7, <1>9 DEF Testing
<1>. QED
  BY <1>1, <1>3, <1>7, <1>8, <1>10, CheckpointOK, OnlyScan

\* A step of the scan that writes the table of its exchange.
LEMMA WritesTable ==
    ASSUME ScanOK, CountsOK, Counted, csv' = csv, NEW table, TableOK(table, scan.exchange),
           tables' = [tables EXCEPT ![scan.exchange] = table],
           scan' \in ScanRecs, LocalsOK(scan'), scan'.id = scan.id,
           scan'.exchange = scan.exchange, scan'.found = scan.found,
           scan.stored => scan'.stored,
           scan'.stored => table.pairs = scan.found
    PROVE  ScanOK'
<1>1. scan.id \in 0 .. calls' /\ csv \in 0 .. calls'
  BY DEF ScanOK, CountsOK, Counted
<1>2. AllPairs(scan)' = AllPairs(scan')
  BY DEF AllPairs
<1>3. LocalsOK(scan)'
  BY <1>2 DEF LocalsOK
<1>4. tables = [e \in Exchanges |-> tables[e]] /\ scan.exchange \in Exchanges
  BY DEF ScanOK, ScanRecs
<1>5. /\ tables' = [e \in Exchanges |-> tables'[e]]
      /\ \A e \in Exchanges : tables'[e] = IF e = scan.exchange THEN table ELSE tables[e]
  BY <1>4
<1>6. \A e \in Exchanges : TableOK(tables'[e], e)
  BY <1>5 DEF ScanOK
<1>7. tables'[scan'.exchange] = table
  BY <1>4, <1>5
<1>. QED
  BY <1>1, <1>3, <1>5, <1>6, <1>7 DEF ScanOK, ScanRecs

\* A scan with nothing to store empties its exchange's table, or cannot.
LEMMA EmptyTableKeeps ==
    ASSUME CountsOK, ScanOK, EmptyTable PROVE ScanOK' /\ Counted
<1>1. Counted /\ csv' = csv /\ scan.pc = "emptying" /\ scan' = Finished(scan, TRUE)
  BY NothingCounts, FaultCounts DEF EmptyTable
<1>2. scan \in ScanRecs /\ LocalsOK(scan) /\ ~ scan.stored /\ ~ scan.error
      /\ scan.asked /\ scan.markets = {} /\ scan.pc \notin BeforeBegin
  BY <1>1 DEF ScanOK, ScanRecs, LocalsOK, BeforeMatrix, BeforeBegin
<1>3. /\ scan' \in ScanRecs /\ LocalsOK(scan') /\ scan'.id = scan.id
      /\ scan'.stored = scan.stored /\ scan'.exchange = scan.exchange
      /\ scan'.found = scan.found
  BY <1>1, <1>2, FinishedOK
<1>4. CASE UNCHANGED tables
  BY <1>1, <1>3, <1>4, OnlyScan
<1>5. CASE tables' = [tables EXCEPT ![scan.exchange] = [Empty EXCEPT !.by = scan.id]]
  <2>1. TableOK([Empty EXCEPT !.by = scan.id], scan.exchange)
    BY <1>2, EmptyIsOK DEF ScanRecs
  <2>. QED
    BY <1>1, <1>2, <1>3, <1>5, <2>1, WritesTable
<1>. QED
  BY <1>4, <1>5 DEF EmptyTable

\* The pairs found are those of a source of the exchange they are stored under.
LEMMA StoreRowsKeeps ==
    ASSUME CountsOK, ScanOK, StoreRows PROVE ScanOK' /\ Counted
<1>1. Counted /\ csv' = csv /\ scan.pc = "storing"
  BY NothingCounts, FaultCounts DEF StoreRows
<1>2. scan \in ScanRecs /\ LocalsOK(scan) /\ ~ scan.stored /\ scan.pc \notin BeforeBegin
      /\ scan.client \in ValidSources /\ scan.exchange = ActiveExchange(scan.client)
  BY <1>1 DEF ScanOK, ScanRecs, LocalsOK, BeforeMatrix, BeforeBegin
<1>3. CASE scan' = Failed(scan) /\ UNCHANGED tables
  BY <1>1, <1>2, <1>3, FailedOK, OnlyScan
<1>4. CASE /\ tables' = [tables EXCEPT ![scan.exchange] =
                  [pairs |-> scan.found, from |-> scan.client, by |-> scan.id]]
           /\ scan' = [scan EXCEPT !.pc = "csv", !.stored = TRUE]
  <2>. DEFINE table == [pairs |-> scan.found, from |-> scan.client, by |-> scan.id]
              r == [scan EXCEPT !.pc = "csv", !.stored = TRUE]
  <2>1. scan.found \subseteq ToSet(Universe[scan.client]) \X ToSet(Universe[scan.client])
    <3>1. scan.found \subseteq AllPairs(scan)
      BY <1>2, FoundAmongTested DEF LocalsOK
    <3>2. scan.markets \subseteq ToSet(Universe[scan.client])
      BY <1>2 DEF LocalsOK
    <3>. QED
      BY <3>1, <3>2, PairsOfColumns DEF AllPairs
  <2>2. scan.id \in Nat
    BY <1>2 DEF ScanRecs
  <2>3. TableOK(table, scan.exchange) /\ table.pairs = scan.found
    BY <1>2, <2>1, <2>2, FoundIsOK
  <2>4. /\ r \in ScanRecs /\ r.pc = "csv" /\ r.running = scan.running /\ r.error = scan.error
        /\ r.stopped = scan.stopped /\ r.stopRequested = scan.stopRequested
        /\ r.asked = scan.asked /\ r.id = scan.id /\ r.client = scan.client
        /\ r.exchange = scan.exchange /\ r.stored
        /\ r.markets = scan.markets /\ r.tested = scan.tested /\ r.found = scan.found
    BY <1>2 DEF ScanRecs, PCs
  <2>5. scan' = r /\ tables' = [tables EXCEPT ![scan.exchange] = table]
    BY <1>4
  <2>. HIDE DEF r, table
  <2>6. AllPairs(r) = AllPairs(scan)
    BY <2>4 DEF AllPairs
  <2>7. scan.id # 0
    BY <1>1 DEF ScanOK, LocalsOK, BeforeMatrix, BeforeBegin
  <2>8. LocalsOK(r)
    BY <1>1, <1>2, <2>4, <2>6, <2>7 DEF LocalsOK, BeforeMatrix, BeforeBegin
  <2>. QED
    BY <1>1, <1>2, <2>3, <2>4, <2>5, <2>8, WritesTable
<1>. QED
  BY <1>1, <1>3, <1>4 DEF StoreRows

\* The file is written after the table, and the scan ends.
LEMMA WriteCsvKeeps ==
    ASSUME CountsOK, ScanOK, WriteCsv PROVE ScanOK' /\ Counted
<1>1. Counted /\ tables' = tables /\ scan.pc = "csv" /\ scan' = Finished(scan, scan.stopped)
  BY NothingCounts, FaultCounts DEF WriteCsv
<1>2. scan \in ScanRecs /\ LocalsOK(scan) /\ scan.stored /\ ~ scan.error
      /\ scan.pc \notin BeforeBegin
  BY <1>1 DEF ScanOK, ScanRecs, LocalsOK, BeforeMatrix, BeforeBegin
<1>3. /\ scan.stopped \in BOOLEAN
      /\ scan.stopped => scan.asked /\ (scan.markets = {} \/ scan.tested # AllPairs(scan))
      /\ ~ scan.stopped => scan.tested = AllPairs(scan)
  BY <1>1, <1>2 DEF ScanRecs, LocalsOK
<1>4. /\ scan' \in ScanRecs /\ LocalsOK(scan') /\ scan'.id = scan.id
      /\ scan'.stored = scan.stored /\ scan'.exchange = scan.exchange
      /\ scan'.found = scan.found
  BY <1>1, <1>2, <1>3, FinishedOK
<1>5. CASE csv' = csv
  BY <1>1, <1>4, <1>5, OnlyScan
<1>6. CASE csv' = scan.id
  <2>1. scan.id \in 0 .. calls'
    BY <1>1 DEF ScanOK, CountsOK, Counted
  <2>2. AllPairs(scan)' = AllPairs(scan')
    BY DEF AllPairs
  <2>3. LocalsOK(scan)'
    BY <1>4, <2>2 DEF LocalsOK
  <2>. QED
    BY <1>1, <1>2, <1>4, <1>6, <2>1, <2>3 DEF ScanOK, ScanRecs
<1>. QED
  BY <1>1, <1>5, <1>6 DEF WriteCsv

\* Every step of the scan keeps the invariant.
LEMMA ScanningKeeps == ASSUME IInv, Scanning PROVE IInv'
<1>1. ScanOK' /\ Counted
  BY StartScanKeeps, StopScanKeeps, ResetScanKeeps, ScanBeginsKeeps, FetchMatrixKeeps,
     EmptyTableKeeps, TestChunkKeeps, StoreRowsKeeps, WriteCsvKeeps
     DEF IInv, Scanning, ScanStep, ScanTask
<1>2. UNCHANGED settingVars
  BY DEF Scanning, ScanStep, ScanTask, StartScan, StopScan, ResetScan, ScanBegins, FetchMatrix,
         EmptyTable, TestChunk, StoreRows, WriteCsv
<1>3. SettingsOK'
  BY <1>2, SettingsKept DEF IInv
<1>4. ReplayOK' /\ ManualOK'
  BY <1>1, <1>2, ReplayKept, ManualKept DEF IInv, Scanning, settingVars
<1>. QED
  BY <1>1, <1>3, <1>4 DEF IInv, Counted

(***************************************************************************)
(* Fast-forward runs.                                                      *)
(***************************************************************************)
LEMMA SeqOfItsOwn ==
    ASSUME NEW S, NEW s \in Seq(S) PROVE s \in Seq(ToSet(s))
<1>1. s \in [1 .. Len(s) -> S] /\ Len(s) \in Nat /\ DOMAIN s = 1 .. Len(s)
  BY LenProperties
<1>2. s \in [1 .. Len(s) -> ToSet(s)]
  BY <1>1 DEF ToSet
<1>. QED
  BY <1>1, <1>2, SeqDef

\* A sequence over a set is one over any larger set.
LEMMA SeqOfMore ==
    ASSUME NEW S, NEW T, S \subseteq T, NEW s \in Seq(S) PROVE s \in Seq(T)
<1>1. s \in [1 .. Len(s) -> S] /\ Len(s) \in Nat
  BY LenProperties
<1>2. s \in [1 .. Len(s) -> T]
  BY <1>1
<1>. QED
  BY <1>1, <1>2, SeqDef

\* What a sequence of any values becomes.
LEMMA SeqUpdated ==
    ASSUME NEW s, s \in Seq(ToSet(s)), NEW i \in 1 .. Len(s), NEW e
    PROVE  /\ [s EXCEPT ![i] = e] \in Seq(ToSet([s EXCEPT ![i] = e]))
           /\ Len([s EXCEPT ![i] = e]) = Len(s)
           /\ \A j \in 1 .. Len(s) : [s EXCEPT ![i] = e][j] = IF j = i THEN e ELSE s[j]
<1>. DEFINE T == ToSet(s) \cup {e}
            x == [s EXCEPT ![i] = e]
<1>1. s \in Seq(T) /\ e \in T
  BY SeqOfMore
<1>. HIDE DEF T
<1>2. /\ x \in Seq(T) /\ Len(x) = Len(s)
      /\ \A j \in 1 .. Len(s) : x[j] = IF j = i THEN e ELSE s[j]
  BY <1>1, ExceptSeq
<1>. HIDE DEF x
<1>3. x \in Seq(ToSet(x))
  BY <1>2, SeqOfItsOwn
<1>. QED
  BY <1>2, <1>3 DEF x

\* Appending keeps the old entries and adds the new one.
LEMMA SeqAppended ==
    ASSUME NEW s, s \in Seq(ToSet(s)), NEW e
    PROVE  /\ Append(s, e) \in Seq(ToSet(Append(s, e)))
           /\ Len(Append(s, e)) = Len(s) + 1
           /\ \A i \in 1 .. Len(s) : Append(s, e)[i] = s[i]
           /\ Append(s, e)[Len(s) + 1] = e
<1>. DEFINE T == ToSet(s) \cup {e}
            x == Append(s, e)
<1>1. s \in Seq(T) /\ e \in T
  BY SeqOfMore
<1>. HIDE DEF T
<1>2. /\ x \in Seq(T) /\ Len(x) = Len(s) + 1
      /\ \A i \in 1 .. Len(s) : x[i] = s[i]
      /\ x[Len(s) + 1] = e
  BY <1>1, AppendProperties
<1>. HIDE DEF x
<1>3. x \in Seq(ToSet(x))
  BY <1>2, SeqOfItsOwn
<1>. QED
  BY <1>2, <1>3 DEF x

\* Rows and tasks of the replays are numbered alike.
LEMMA DomainOfRuns ==
    ASSUME ReplayOK
    PROVE  /\ Len(runs) \in Nat /\ DOMAIN runs = 1 .. Len(runs)
           /\ DOMAIN tasks = 1 .. Len(runs)
BY LenProperties DEF ReplayOK

\* One run steps.
LEMMA OneRun ==
    ASSUME ReplayOK, NEW r \in 1 .. Len(runs), NEW row, NEW task, RowOK(row, task),
           runs' = [runs EXCEPT ![r] = row], tasks' = [tasks EXCEPT ![r] = task],
           stops' \subseteq stops \cup {r}, cancelled' \subseteq cancelled \cup stops,
           runs[r].asked => row.asked, r \in stops' => row.asked,
           row.status = "RUNNING" => task.pc # "done" \/ faults' > 0,
           faults' = faults \/ faults' > 0
    PROVE  ReplayOK'
<1>1. /\ runs' \in Seq(ToSet(runs')) /\ Len(runs') = Len(runs)
      /\ \A i \in 1 .. Len(runs) : runs'[i] = IF i = r THEN row ELSE runs[i]
  <2>. DEFINE x == [runs EXCEPT ![r] = row]
  <2>1. /\ x \in Seq(ToSet(x)) /\ Len(x) = Len(runs)
        /\ \A i \in 1 .. Len(runs) : x[i] = IF i = r THEN row ELSE runs[i]
    BY SeqUpdated DEF ReplayOK
  <2>2. runs' = x
    OBVIOUS
  <2>. HIDE DEF x
  <2>. QED
    BY <2>1, <2>2
<1>2. r \in 1 .. Len(tasks)
  BY DEF ReplayOK
<1>3. /\ tasks' \in Seq(ToSet(tasks')) /\ Len(tasks') = Len(tasks)
      /\ \A i \in 1 .. Len(tasks) : tasks'[i] = IF i = r THEN task ELSE tasks[i]
  <2>. DEFINE x == [tasks EXCEPT ![r] = task]
  <2>1. /\ x \in Seq(ToSet(x)) /\ Len(x) = Len(tasks)
        /\ \A i \in 1 .. Len(tasks) : x[i] = IF i = r THEN task ELSE tasks[i]
    BY <1>2, SeqUpdated DEF ReplayOK
  <2>2. tasks' = x
    OBVIOUS
  <2>. HIDE DEF x
  <2>. QED
    BY <2>1, <2>2
<1>4. \A i \in stops' \cup cancelled' : runs'[i].asked
  <2>1. \A i \in stops \cup cancelled : i \in 1 .. Len(runs) /\ runs[i].asked
    BY DEF ReplayOK
  <2>. QED
    BY <1>1, <2>1
<1>5. \A i \in 1 .. Len(runs') : RowOK(runs'[i], tasks'[i])
  BY <1>1, <1>3 DEF ReplayOK
<1>6. \A i \in 1 .. Len(runs') :
          runs'[i].status = "RUNNING" => tasks'[i].pc # "done" \/ faults' > 0
  BY <1>1, <1>3 DEF ReplayOK
<1>7. stops' \subseteq 1 .. Len(runs') /\ cancelled' \subseteq 1 .. Len(runs')
  BY <1>1 DEF ReplayOK
<1>8. \A i \in 1 .. Len(runs') : RowOK(runs[i], tasks[i])'
  BY <1>5 DEF RowOK
<1>. QED
  BY <1>1, <1>3, <1>4, <1>6, <1>7, <1>8 DEF ReplayOK

\* A new replay is the last row, with a task that has read nothing.
LEMMA CreateReplayKeeps ==
    ASSUME CountsOK, ReplayOK, CreateReplay PROVE ReplayOK' /\ Counted
<1>1. Counted /\ faults' = faults
  BY CallCounts DEF CreateReplay
<1>2. PICK exchange \in Exchanges,
           window \in Windows \cup (IF settings.source = "fake" THEN {DemoWindow} ELSE {}) :
          /\ runs' = Append(runs, Row)
          /\ tasks' = Append(tasks, [Task EXCEPT !.exchange = exchange,
                                         !.start = window[1], !.end = window[2]])
  BY DEF CreateReplay
<1>. DEFINE start == window[1]
            end == window[2]
            task == [Task EXCEPT !.exchange = exchange, !.start = start, !.end = end]
<1>3. start \in Nat /\ end \in Nat
  <2>1. window \in Windows \cup {DemoWindow}
    BY <1>2
  <2>. QED
    BY <2>1, WindowsAssumption
<1>. HIDE DEF start, end
<1>4. /\ IsTask(task)
      /\ task.pc = "start" /\ task.bar = 0
  BY <1>3 DEF IsTask, Task, TaskPCs
<1>5. /\ IsRow(Row)
      /\ Row.status = "RUNNING" /\ Row.total = 0 /\ Row.processed = 0
  BY DEF IsRow, Row, Statuses
<1>6. tasks' = Append(tasks, task) /\ runs' = Append(runs, Row)
  BY <1>2 DEF start, end
<1>. HIDE DEF task
<1>7. RowOK(Row, task)
  BY <1>4, <1>5 DEF RowOK
<1>8. Len(runs) \in Nat /\ Len(tasks) = Len(runs)
  BY DomainOfRuns DEF ReplayOK
<1>9. /\ runs' \in Seq(ToSet(runs')) /\ Len(runs') = Len(runs) + 1
      /\ \A i \in 1 .. Len(runs) : runs'[i] = runs[i]
      /\ runs'[Len(runs) + 1] = Row
  BY <1>6, SeqAppended DEF ReplayOK
<1>10. /\ tasks' \in Seq(ToSet(tasks')) /\ Len(tasks') = Len(runs) + 1
       /\ \A i \in 1 .. Len(runs) : tasks'[i] = tasks[i]
       /\ tasks'[Len(runs) + 1] = task
  BY <1>6, <1>8, SeqAppended DEF ReplayOK
<1>11. \A i \in 1 .. Len(runs') : i \in 1 .. Len(runs) \/ i = Len(runs) + 1
  BY <1>8, <1>9
<1>12. \A i \in 1 .. Len(runs') : RowOK(runs'[i], tasks'[i])
  BY <1>7, <1>9, <1>10, <1>11 DEF ReplayOK
<1>13. \A i \in 1 .. Len(runs') : RowOK(runs[i], tasks[i])'
  BY <1>12 DEF RowOK
<1>14. \A i \in 1 .. Len(runs') :
           runs'[i].status = "RUNNING" => tasks'[i].pc # "done" \/ faults' > 0
  BY <1>1, <1>4, <1>9, <1>10, <1>11 DEF ReplayOK
<1>15. stops' = stops /\ cancelled' = cancelled
  BY DEF CreateReplay
<1>16. /\ stops' \subseteq 1 .. Len(runs') /\ cancelled' \subseteq 1 .. Len(runs')
       /\ \A i \in stops' \cup cancelled' : runs'[i].asked
  BY <1>8, <1>9, <1>15 DEF ReplayOK
<1>. QED
  BY <1>1, <1>9, <1>10, <1>13, <1>14, <1>16 DEF ReplayOK

\* A stop is noted on the row, and its flag set when the read returns.
LEMMA StopReplayKeeps ==
    ASSUME CountsOK, ReplayOK, StopReplay PROVE ReplayOK' /\ Counted
<1>1. Counted /\ faults' = faults
  BY CallCounts DEF StopReplay
<1>2. PICK r \in 1 .. Len(runs) :
          IF runs[r].status = "RUNNING"
          THEN stops' = stops \cup {r} /\ runs' = [runs EXCEPT ![r].asked = TRUE]
          ELSE UNCHANGED <<stops, runs>>
  BY DomainOfRuns DEF StopReplay
<1>3. tasks' = tasks /\ cancelled' = cancelled
  BY DEF StopReplay
<1>4. CASE runs[r].status # "RUNNING"
  <2>1. UNCHANGED replayVars
    BY <1>2, <1>3, <1>4 DEF replayVars
  <2>. QED
    BY <1>1, <2>1, ReplayKept
<1>5. CASE runs[r].status = "RUNNING"
  <2>. DEFINE row == [runs[r] EXCEPT !.asked = TRUE]
              old == runs[r]
  <2>1. RowOK(old, tasks[r])
    BY DEF ReplayOK
  <2>2. /\ IsRow(row)
        /\ row.asked /\ row.status = old.status /\ row.total = old.total
        /\ row.processed = old.processed
    BY <2>1 DEF RowOK, IsRow
  <2>3. runs' = [runs EXCEPT ![r] = row] /\ stops' = stops \cup {r}
    BY <1>2, <1>5
  <2>. HIDE DEF row
  <2>4. RowOK(row, tasks[r])
    BY <2>1, <2>2 DEF RowOK
  <2>5. tasks' = [tasks EXCEPT ![r] = tasks[r]]
    BY <1>3, LenProperties DEF ReplayOK
  <2>6. row.status = "RUNNING" => tasks[r].pc # "done" \/ faults' > 0
    BY <1>1, <2>2 DEF ReplayOK
  <2>. QED
    BY <1>1, <1>3, <2>2, <2>3, <2>4, <2>5, <2>6, OneRun
<1>. QED
  BY <1>4, <1>5

\* A stop sets the flag of a replay.
LEMMA SetFlagKeeps ==
    ASSUME CountsOK, ReplayOK, SetFlag PROVE ReplayOK' /\ Counted
<1>1. Counted /\ faults' = faults
  BY NothingCounts DEF SetFlag, bounds
<1>2. runs' = runs /\ tasks' = tasks /\ stops' \subseteq stops
      /\ cancelled' \subseteq cancelled \cup stops
  BY DEF SetFlag
<1>3. \A i \in 1 .. Len(runs) : RowOK(runs[i], tasks[i])'
  BY <1>2 DEF ReplayOK, RowOK
<1>. QED
  BY <1>1, <1>2, <1>3 DEF ReplayOK

\* A multiple of any step comes soon.
LEMMA Multiples ==
    ASSUME NEW n \in Nat, NEW p \in Nat \ {0} PROVE (p * n) % p = 0
OBVIOUS

\* Division with remainder.
LEMMA DivMod ==
    ASSUME NEW b \in Nat, NEW p \in Nat \ {0}
    PROVE  b = p * (b \div p) + (b % p) /\ b % p \in 0 .. (p - 1) /\ b \div p \in Nat
OBVIOUS

\* Among p numbers in a row there is a multiple of p.
LEMMA MultipleComes ==
    ASSUME NEW b \in Nat, NEW p \in Nat \ {0} PROVE \E i \in b .. b + p - 1 : i % p = 0
<1>. DEFINE c == b + p - 1
            n == c \div p
            k == c % p
            m == p * n
<1>1. c \in Nat
  OBVIOUS
<1>2. n \in Nat /\ c = m + k /\ k \in 0 .. (p - 1)
  BY <1>1, DivMod
<1>3. m \in Nat
  BY <1>2
<1>4. m % p = 0
  BY <1>2, Multiples
<1>. HIDE DEF n, k, m
<1>5. m \in b .. (b + p - 1)
  BY <1>2, <1>3
<1>. QED
  BY <1>4, <1>5

\* The next progress write is not behind the bar the loop is at.
LEMMA ReportIsAhead ==
    ASSUME NEW r, runs[r].total \in Nat, tasks[r].bar \in Nat
    PROVE  NextReport(r) \in Nat /\ NextReport(r) >= tasks[r].bar
<1>1. ProgressEvery(r) \in Nat \ {0}
  BY ProgressAssumption DEF ProgressEvery
<1>2. \E i \in tasks[r].bar .. tasks[r].bar + ProgressEvery(r) - 1 : i % ProgressEvery(r) = 0
  BY <1>1, MultipleComes
<1>3. NextReport(r) \in tasks[r].bar .. tasks[r].bar + ProgressEvery(r) - 1
  BY <1>2 DEF NextReport
<1>. QED
  BY <1>1, <1>3

\* A window has finitely many hours.
LEMMA HoursAreCounted ==
    ASSUME NEW task, task.start \in Nat, task.end \in Nat
    PROVE  Cardinality(TimelineHours(Feed(task))) \in Nat
<1>1. IsFiniteSet(task.start .. task.end)
  BY FS_Interval
<1>2. TimelineHours(Feed(task)) \subseteq task.start .. task.end
  BY DEF TimelineHours, Feed
<1>. QED
  BY <1>1, <1>2, FS_Subset, FS_CardinalityType

\* The task at work of a row, and where it may go with the row as it is.
Working(r) == r \in 1 .. Len(runs) /\ RowOK(runs[r], tasks[r]) /\ tasks[r].pc # "done"

\* A task at one of its awaits is at work on its row.
LEMMA AtWork ==
    ASSUME ReplayOK, NEW r \in DOMAIN runs, NEW pc \in {"start", "load", "walk", "failing"},
           At(r, pc)
    PROVE  Working(r) /\ tasks[r].pc = pc
BY DomainOfRuns DEF ReplayOK, At, Working

\* A task may go on to its walk, its failure or its end.
LEMMA TaskGoes ==
    ASSUME NEW r, Working(r), NEW pc \in {"walk", "failing", "done"}
    PROVE  RowOK(runs[r], Goes(r, pc)) /\ Goes(r, pc).pc = pc
<1>. DEFINE t == tasks[r]
            task == [t EXCEPT !.pc = pc]
<1>1. RowOK(runs[r], t) /\ t.pc # "done"
  BY DEF Working
<1>2. /\ IsTask(task)
      /\ task.pc = pc /\ task.bar = t.bar
  BY <1>1 DEF RowOK, IsTask, TaskPCs
<1>3. Goes(r, pc) = task
  BY DEF Goes
<1>. HIDE DEF task
<1>4. RowOK(runs[r], task)
  BY <1>1, <1>2 DEF RowOK
<1>. QED
  BY <1>2, <1>3, <1>4

\* A database error sends the task to the write of FAILED.
LEMMA DbFailsKeeps ==
    ASSUME CountsOK, ReplayOK, NEW r, Working(r), DbFails(r) PROVE ReplayOK' /\ Counted
<1>1. Counted /\ faults' > 0
  BY FaultCounts DEF DbFails, Step
<1>2. RowOK(runs[r], Goes(r, "failing"))
  BY TaskGoes
<1>. DEFINE task == Goes(r, "failing")
            row == runs[r]
<1>3. runs' = [runs EXCEPT ![r] = row] /\ tasks' = [tasks EXCEPT ![r] = task]
      /\ stops' = stops /\ cancelled' = cancelled
  BY DEF DbFails, Step
<1>4. r \in stops => row.asked
  BY DEF ReplayOK
<1>5. RowOK(row, task) /\ r \in 1 .. Len(runs)
  BY <1>2 DEF Working
<1>. HIDE DEF task, row
<1>. QED
  BY <1>1, <1>3, <1>4, <1>5, OneRun DEF row

\* A run that steps without a fault.
LEMMA RunSteps ==
    ASSUME CountsOK, ReplayOK, NEW r, Working(r), UNCHANGED faults, NEW row, NEW task,
           Step(r, row, task), RowOK(row, task), row.asked = runs[r].asked,
           row.status = "RUNNING" => task.pc # "done",
           cancelled' \subseteq cancelled
    PROVE  ReplayOK' /\ Counted
<1>1. Counted
  BY NothingCounts DEF Step
<1>2. runs' = [runs EXCEPT ![r] = row] /\ tasks' = [tasks EXCEPT ![r] = task]
      /\ stops' = stops /\ r \in 1 .. Len(runs)
  BY DEF Step, Working
<1>3. r \in stops => row.asked
  BY DEF ReplayOK
<1>. QED
  BY <1>1, <1>2, <1>3, OneRun

\* The task reads the latest pairs, or has none and fails.
LEMMA ReadPairsKeeps ==
    ASSUME CountsOK, ReplayOK, NEW r \in DOMAIN runs, ReadPairs(r) PROVE ReplayOK' /\ Counted
<1>1. Working(r) /\ tasks[r].pc = "start"
  BY AtWork DEF ReadPairs
<1>2. CASE DbFails(r)
  BY <1>1, <1>2, DbFailsKeeps
<1>3. CASE ~ DbFails(r)
  <2>. DEFINE pairs == LatestPairs(tasks[r].exchange)
              pc == IF pairs = {} THEN "failing" ELSE "load"
              t == tasks[r]
              from == tables[t.exchange].from
              source == CandleSource(t.exchange)
              task == [t EXCEPT !.pc = pc, !.pairs = pairs, !.from = from, !.source = source]
  <2>1. Step(r, runs[r], task) /\ UNCHANGED <<cancelled, faults>>
    BY <1>3 DEF ReadPairs
  <2>2. pc \in {"failing", "load"} /\ RowOK(runs[r], t) /\ runs[r].total = 0
    BY <1>1 DEF Working, RowOK
  <2>. HIDE DEF pairs, pc, from, source
  <2>3. /\ IsTask(task)
        /\ task.pc = pc /\ task.bar = t.bar
    BY <2>2 DEF RowOK, IsTask, TaskPCs
  <2>. HIDE DEF task
  <2>4. RowOK(runs[r], task) /\ task.pc # "done"
    BY <1>1, <2>2, <2>3 DEF RowOK
  <2>. QED
    BY <1>1, <2>1, <2>4, RunSteps
<1>. QED
  BY <1>2, <1>3

\* The task reads the bars of its window, or has none and fails.
LEMMA LoadHistoryKeeps ==
    ASSUME CountsOK, ReplayOK, NEW r \in DOMAIN runs, LoadHistory(r)
    PROVE  ReplayOK' /\ Counted
<1>1. Working(r) /\ tasks[r].pc = "load" /\ runs[r].status = "RUNNING"
  BY AtWork DEF LoadHistory, Working, RowOK
<1>2. CASE DbFails(r)
  BY <1>1, <1>2, DbFailsKeeps
<1>3. CASE UNCHANGED <<cancelled, faults>> /\ Step(r, runs[r], Goes(r, "failing"))
  BY <1>1, <1>3, TaskGoes, RunSteps
<1>4. CASE /\ UNCHANGED <<cancelled, faults>>
           /\ Step(r, [runs[r] EXCEPT !.total = Cardinality(TimelineHours(Feed(tasks[r])))],
                   Goes(r, "walk"))
  <2>. DEFINE total == Cardinality(TimelineHours(Feed(tasks[r])))
              old == runs[r]
              row == [old EXCEPT !.total = total]
              task == Goes(r, "walk")
  <2>1. RowOK(old, task) /\ task.pc = "walk" /\ RowOK(old, tasks[r])
    BY <1>1, TaskGoes DEF Working
  <2>2. tasks[r].start \in Nat /\ tasks[r].end \in Nat
    BY <2>1 DEF RowOK, IsTask
  <2>3. total \in Nat
    BY <2>2, HoursAreCounted
  <2>4. old.total = 0 /\ tasks[r].bar = 0 /\ task.bar = 0 /\ old.processed = 0
    <3>1. task.bar = tasks[r].bar
      <4>1. IsTask(tasks[r])
        BY <2>1 DEF RowOK, IsTask
      <4>. QED
        BY <4>1 DEF Goes
    <3>. QED
      BY <1>1, <2>1, <3>1 DEF RowOK, IsRow, IsTask
  <2>. HIDE DEF total, task
  <2>5. /\ IsRow(row)
        /\ row.status = old.status /\ row.total = total /\ row.processed = old.processed
        /\ row.asked = old.asked
    BY <2>1, <2>3 DEF RowOK, IsRow
  <2>6. Step(r, row, task) /\ cancelled' = cancelled /\ faults' = faults
    BY <1>4 DEF total, task
  <2>. HIDE DEF row
  <2>7. RowOK(row, task)
    BY <1>1, <2>1, <2>3, <2>4, <2>5 DEF RowOK
  <2>. QED
    BY <1>1, <2>1, <2>5, <2>6, <2>7, RunSteps
<1>. QED
  BY <1>2, <1>3, <1>4 DEF LoadHistory

\* The cursor goes to the bar after the next report, or to the end.
LEMMA WalkKeeps ==
    ASSUME CountsOK, ReplayOK, NEW r \in DOMAIN runs, Walk(r) PROVE ReplayOK' /\ Counted
<1>1. Working(r) /\ tasks[r].pc = "walk" /\ runs[r].status = "RUNNING"
  BY AtWork DEF Walk, Working, RowOK
<1>2. CASE DbFails(r)
  BY <1>1, <1>2, DbFailsKeeps
<1>3. CASE ~ DbFails(r)
  <2>. DEFINE next == IF NextReport(r) + 1 < runs[r].total THEN NextReport(r) + 1
                      ELSE runs[r].total
              old == runs[r]
              t == tasks[r]
              processed == IF NextReport(r) < runs[r].total THEN next ELSE old.processed
              ledger == Ticks(Feed(t), t.ledger, t.bar + 1, next)
              row == [old EXCEPT !.processed = processed]
              task == [t EXCEPT !.bar = next, !.ledger = ledger]
  <2>1. RowOK(old, t)
    BY <1>1 DEF Working
  <2>2. NextReport(r) \in Nat /\ old.total \in Nat /\ old.processed \in 0 .. old.total
    BY <2>1, ReportIsAhead DEF RowOK, IsRow, IsTask
  <2>3. next \in 0 .. old.total /\ processed \in 0 .. old.total
    BY <2>2
  <2>4. Step(r, row, task) /\ cancelled' = cancelled /\ faults' = faults
    <3>1. [runs[r] EXCEPT !.processed = IF NextReport(r) < runs[r].total THEN next ELSE @] = row
      OBVIOUS
    <3>2. [tasks[r] EXCEPT !.bar = next,
                           !.ledger = Ticks(Feed(tasks[r]), @, tasks[r].bar + 1, next)] = task
      OBVIOUS
    <3>. QED
      BY <1>3, <3>1, <3>2 DEF Walk
  <2>. HIDE DEF next, processed, ledger
  <2>5. /\ IsRow(row)
        /\ row.status = old.status /\ row.total = old.total /\ row.processed = processed
        /\ row.asked = old.asked
    BY <2>1, <2>3 DEF RowOK, IsRow
  <2>6. /\ IsTask(task)
        /\ task.pc = t.pc /\ task.bar = next
    <3>1. /\ IsTask(t)
          /\ next \in Nat
      BY <2>1, <2>2, <2>3 DEF RowOK, IsTask
    <3>. QED
      BY <3>1 DEF IsTask
  <2>. HIDE DEF row, task
  <2>7. RowOK(row, task)
    BY <1>1, <2>1, <2>3, <2>5, <2>6 DEF RowOK
  <2>. QED
    BY <1>1, <2>4, <2>5, <2>6, <2>7, RunSteps
<1>. QED
  BY <1>2, <1>3

\* Who was not asked to stop has come to the last bar.
LEMMA FinaliseKeeps ==
    ASSUME CountsOK, ReplayOK, NEW r \in DOMAIN runs, Finalise(r)
    PROVE  ReplayOK' /\ Counted
<1>1. Working(r) /\ tasks[r].pc = "walk" /\ runs[r].status = "RUNNING"
  BY AtWork DEF Finalise, Working, RowOK
<1>2. CASE DbFails(r)
  BY <1>1, <1>2, DbFailsKeeps
<1>3. CASE ~ DbFails(r)
  <2>. DEFINE old == runs[r]
              task == Goes(r, "done")
              ledger == CloseRemaining(tasks[r].ledger)
              trades_ == ledger.trades
              capital == ledger.capital
              bar == tasks[r].bar
              status == IF bar < old.total THEN "STOPPED" ELSE "COMPLETED"
              row == [old EXCEPT !.status = status, !.processed = bar,
                                 !.trades = trades_, !.final = capital]
  <2>1. RowOK(old, tasks[r]) /\ RowOK(old, task) /\ task.pc = "done"
    BY <1>1, TaskGoes DEF Working
  <2>2. bar \in 0 .. old.total /\ old.total \in Nat
    BY <2>1 DEF RowOK, IsRow, IsTask
  <2>3. status \in Statuses /\ status # "RUNNING"
    BY DEF Statuses
  <2>4. bar < old.total => old.asked
    <3>1. r \in cancelled \/ bar = old.total
      BY DEF Finalise
    <3>. QED
      BY <2>2, <3>1 DEF ReplayOK
  <2>5. Step(r, row, task) /\ cancelled' \subseteq cancelled /\ faults' = faults
    BY <1>3 DEF Finalise, Processed
  <2>6. status = "STOPPED" <=> bar < old.total
    OBVIOUS
  <2>7. status = "COMPLETED" => bar = old.total
    BY <2>2
  <2>. HIDE DEF status, task, bar, trades_, capital
  <2>8. /\ IsRow(row)
        /\ row.status = status /\ row.total = old.total /\ row.processed = bar
        /\ row.asked = old.asked
    <3>1. /\ IsRow(old)
          /\ bar \in Nat
      BY <2>1, <2>2 DEF RowOK, IsRow
    <3>. QED
      BY <2>3, <3>1 DEF IsRow
  <2>. HIDE DEF row
  <2>9. RowOK(row, task)
    BY <2>1, <2>2, <2>4, <2>6, <2>7, <2>8 DEF RowOK
  <2>. QED
    BY <1>1, <2>3, <2>5, <2>8, <2>9, RunSteps
<1>. QED
  BY <1>2, <1>3

\* The task writes FAILED, or cannot.
LEMMA FailKeeps ==
    ASSUME CountsOK, ReplayOK, NEW r \in DOMAIN runs, Fail(r) PROVE ReplayOK' /\ Counted
<1>1. Working(r) /\ cancelled' \subseteq cancelled
  BY AtWork DEF Fail
<1>2. CASE Step(r, [runs[r] EXCEPT !.status = "FAILED"], Goes(r, "done")) /\ UNCHANGED faults
  <2>. DEFINE old == runs[r]
              row == [old EXCEPT !.status = "FAILED"]
              task == Goes(r, "done")
  <2>1. RowOK(old, tasks[r]) /\ RowOK(old, task) /\ task.pc = "done"
    BY <1>1, TaskGoes DEF Working
  <2>2. /\ IsRow(row)
        /\ row.status = "FAILED" /\ row.total = old.total /\ row.processed = old.processed
        /\ row.asked = old.asked
    BY <2>1 DEF RowOK, Statuses, IsRow
  <2>3. Step(r, row, task)
    BY <1>2
  <2>. HIDE DEF row, task
  <2>4. RowOK(row, task)
    BY <2>1, <2>2 DEF RowOK
  <2>. QED
    BY <1>1, <1>2, <2>2, <2>3, <2>4, RunSteps
<1>3. CASE Fault("db") /\ Step(r, runs[r], Goes(r, "done"))
  <2>. DEFINE row == runs[r]
              task == Goes(r, "done")
  <2>1. Counted /\ faults' > 0
    BY <1>3, FaultCounts DEF Step
  <2>2. RowOK(row, task) /\ r \in 1 .. Len(runs)
    BY <1>1, TaskGoes DEF Working
  <2>3. runs' = [runs EXCEPT ![r] = row] /\ tasks' = [tasks EXCEPT ![r] = task]
        /\ stops' = stops
    BY <1>3 DEF Step
  <2>4. r \in stops => row.asked
    BY DEF ReplayOK
  <2>. HIDE DEF task, row
  <2>. QED
    BY <1>1, <2>1, <2>2, <2>3, <2>4, OneRun DEF row
<1>. QED
  BY <1>2, <1>3 DEF Fail

\* A restart leaves the rows as they are, and no task.
LEMMA ReplayRestartKeeps ==
    ASSUME ReplayOK, ReplayRestart, faults' > 0 PROVE ReplayOK'
<1>1. /\ tasks' = [r \in DOMAIN tasks |-> Goes(r, "done")]
      /\ stops' = {} /\ cancelled' = {} /\ runs' = runs
  BY DEF ReplayRestart
<1>2. DOMAIN tasks = 1 .. Len(runs) /\ Len(runs) \in Nat /\ Len(tasks) = Len(runs)
  BY DomainOfRuns DEF ReplayOK
<1>3. tasks' \in Seq({Goes(r, "done") : r \in DOMAIN tasks}) /\ Len(tasks') = Len(runs)
  BY <1>1, <1>2
<1>4. tasks' \in Seq(ToSet(tasks'))
  BY <1>3, SeqOfItsOwn
<1>5. ASSUME NEW r \in 1 .. Len(runs) PROVE RowOK(runs[r], Goes(r, "done"))
  <2>1. CASE tasks[r].pc # "done"
    BY <2>1, TaskGoes DEF Working, ReplayOK
  <2>2. CASE tasks[r].pc = "done"
    <3>1. IsTask(tasks[r])
      BY DEF ReplayOK, RowOK, IsTask
    <3>2. Goes(r, "done") = tasks[r]
      BY <2>2, <3>1 DEF Goes, IsTask
    <3>. QED
      BY <3>2 DEF ReplayOK
  <2>. QED
    BY <2>1, <2>2
<1>6. \A r \in 1 .. Len(runs) : RowOK(runs'[r], tasks'[r])
  BY <1>1, <1>2, <1>5
<1>7. \A r \in 1 .. Len(runs) : RowOK(runs[r], tasks[r])'
  BY <1>6 DEF RowOK
<1>. QED
  BY <1>1, <1>2, <1>3, <1>4, <1>7 DEF ReplayOK

\* Every step of a replay keeps the invariant.
LEMMA ReplayingKeeps == ASSUME IInv, Replaying PROVE IInv'
<1>1. ReplayOK' /\ Counted
  <2>1. ASSUME NEW r \in DOMAIN runs, ReplayTask(r) PROVE ReplayOK' /\ Counted
    BY <2>1, ReadPairsKeeps, LoadHistoryKeeps, WalkKeeps, FinaliseKeeps, FailKeeps
       DEF IInv, ReplayTask
  <2>. QED
    BY <2>1, CreateReplayKeeps, StopReplayKeeps, SetFlagKeeps DEF IInv, Replaying, ReplayStep
<1>2. UNCHANGED <<settingVars, scanVars, tables>>
  BY DEF Replaying, ReplayStep, ReplayTask, CreateReplay, StopReplay, SetFlag, ReadPairs,
         LoadHistory, Walk, Finalise, Fail, DbFails, Step
<1>3. SettingsOK' /\ ScanOK'
  BY <1>1, <1>2, SettingsKept, ScanKept DEF IInv
<1>4. ManualOK'
  BY <1>2, ManualKept DEF IInv, Replaying
<1>. QED
  BY <1>1, <1>3, <1>4 DEF IInv, Counted

(***************************************************************************)
(* Manual trades.                                                          *)
(***************************************************************************)

\* A stored pair is of two markets.
LEMMA PairsOfTables ==
    ASSUME ScanOK, NEW e \in Exchanges, NEW pair \in tables[e].pairs PROVE pair \in Pairs
BY DEF ScanOK, TableOK

\* The trades stay as they are, and the new requests about them are sound.
LEMMA OnlyRequests ==
    ASSUME ManualOK, UNCHANGED trades, requests' \subseteq Requests,
           \A q \in requests' : q \in requests \/
               (IF q.kind = "record" THEN RecordOK(q) ELSE CloseOK(q))
    PROVE  ManualOK'
<1>1. ASSUME NEW q \in requests', q.kind = "record" PROVE RecordOK(q)'
  BY <1>1 DEF ManualOK, RecordOK
<1>2. ASSUME NEW q \in requests', q.kind # "record" PROVE CloseOK(q)'
  BY <1>2 DEF ManualOK, CloseOK
<1>. QED
  BY <1>1, <1>2 DEF ManualOK

\* A request to record a trade has read nothing.
LEMMA RecordAskedKeeps ==
    ASSUME CountsOK, ScanOK, ManualOK, RecordAsked PROVE ManualOK' /\ Counted
<1>1. Counted /\ calls' \in Nat
  BY CallCounts DEF RecordAsked, recorded, Call, CountsOK
<1>2. PICK exchange \in Exchanges, pair \in UNION {tables[e].pairs : e \in Exchanges} :
          requests' = requests \cup
              {[id |-> calls', kind |-> "record", pc |-> "asked", pair |-> pair,
                exchange |-> exchange, client |-> "none", trade |-> 0]}
  BY DEF RecordAsked
<1>. DEFINE new == [id |-> calls', kind |-> "record", pc |-> "asked", pair |-> pair,
                    exchange |-> exchange, client |-> "none", trade |-> 0]
<1>3. exchange \in Exchanges /\ pair \in Pairs
  BY <1>2, PairsOfTables
<1>4. new \in Requests /\ new.kind = "record" /\ new.pc = "asked"
  BY <1>1, <1>3 DEF Requests
<1>5. requests' = requests \cup {new} /\ trades' = trades
  BY <1>2 DEF RecordAsked
<1>. HIDE DEF new
<1>6. RecordOK(new)
  BY <1>4 DEF RecordOK
<1>. QED
  BY <1>1, <1>4, <1>5, <1>6, OnlyRequests DEF ManualOK

\* A recording reads a pair of a stored table and its source.
LEMMA RecordReadsKeeps ==
    ASSUME CountsOK, SettingsOK, ManualOK, RecordReads PROVE ManualOK' /\ Counted
<1>1. Counted
  BY NothingCounts DEF RecordReads, recorded
<1>2. PICK q \in requests :
          /\ q.kind = "record" /\ q.pc = "asked"
          /\ requests' = (requests \ {q}) \cup
                (IF q.pair \in tables[q.exchange].pairs
                 THEN {[q EXCEPT !.pc = "checking", !.client = settings.source]} ELSE {})
  BY DEF RecordReads
<1>. DEFINE source == settings.source
            new == [q EXCEPT !.pc = "checking", !.client = source]
<1>3. q \in Requests /\ source \in ValidSources
  BY <1>2 DEF ManualOK, SettingsOK, SettingsRecs
<1>4. trades' = trades /\ requests' \subseteq requests \cup {new}
  BY <1>2 DEF RecordReads
<1>. HIDE DEF source
<1>5. new \in Requests /\ new.kind = q.kind /\ new.client = source
  BY <1>3 DEF Requests
<1>. HIDE DEF new
<1>6. RecordOK(new)
  BY <1>3, <1>5 DEF RecordOK
<1>. QED
  BY <1>1, <1>2, <1>4, <1>5, <1>6, OnlyRequests DEF ManualOK

\* What is recorded passed on the client that priced it, and has no exit.
LEMMA RecordCreatesKeeps ==
    ASSUME CountsOK, SettingsOK, ManualOK, RecordCreates PROVE ManualOK' /\ Counted
<1>1. Counted
  BY NothingCounts DEF RecordCreates, recorded
<1>2. PICK q \in requests :
          /\ q.kind = "record" /\ q.pc = "checking"
          /\ requests' = requests \ {q}
          /\ \/ UNCHANGED trades
             \/ /\ Revalidated(q.client, q.pair)
                /\ trades' = Append(trades, Recorded(q, settings.source))
  BY DEF RecordCreates
<1>3. requests' \subseteq requests
  BY <1>2
<1>4. CASE UNCHANGED trades
  BY <1>1, <1>3, <1>4, OnlyRequests DEF ManualOK
<1>5. CASE /\ Revalidated(q.client, q.pair)
           /\ trades' = Append(trades, Recorded(q, settings.source))
  <2>. DEFINE new == Recorded(q, settings.source)
  <2>1. q \in Requests /\ q.client \in ValidSources /\ settings.source \in ValidSources
    BY <1>2 DEF ManualOK, RecordOK, SettingsOK, SettingsRecs
  <2>2. new \in Trades /\ TradeOK(new)
    BY <1>5, <2>1 DEF Recorded, Unpriced, Revalidated, Trades, Requests, TradeOK
  <2>3. trades' = Append(trades, new)
    BY <1>5
  <2>. HIDE DEF new
  <2>4. trades \in Seq(Trades) /\ Len(trades) \in Nat
    BY LenProperties DEF ManualOK
  <2>5. /\ trades' \in Seq(Trades) /\ Len(trades') = Len(trades) + 1
        /\ \A t \in 1 .. Len(trades) : trades'[t] = trades[t]
        /\ trades'[Len(trades) + 1] = new
    BY <2>2, <2>3, <2>4, AppendProperties
  <2>6. \A t \in 1 .. Len(trades') : t \in 1 .. Len(trades) \/ t = Len(trades) + 1
    BY <2>4, <2>5
  <2>7. \A t \in 1 .. Len(trades') : TradeOK(trades'[t])
    BY <2>2, <2>5, <2>6 DEF ManualOK
  <2>8. ASSUME NEW p \in requests' PROVE (IF p.kind = "record" THEN RecordOK(p) ELSE CloseOK(p))'
    <3>1. IF p.kind = "record" THEN RecordOK(p) ELSE CloseOK(p)
      BY <1>3 DEF ManualOK
    <3>2. \A t \in 1 .. Len(trades) : t \in 1 .. Len(trades') /\ trades'[t] = trades[t]
      BY <2>4, <2>5
    <3>. QED
      BY <3>1, <3>2 DEF RecordOK, CloseOK
  <2>. QED
    BY <1>1, <1>3, <2>5, <2>7, <2>8 DEF ManualOK, TradeOK
<1>. QED
  BY <1>2, <1>4, <1>5

\* A recorded trade is well formed.
LEMMA TradeAt ==
    ASSUME ManualOK, NEW t \in 1 .. Len(trades)
    PROVE  trades[t] \in Trades /\ TradeOK(trades[t])
BY ElementOfSeq, LenProperties DEF ManualOK

\* Trades are numbered from one.
LEMMA DomainOfTrades ==
    ASSUME ManualOK PROVE DOMAIN trades = 1 .. Len(trades)
BY LenProperties DEF ManualOK

\* A request to close a trade names its pair and the source of now.
LEMMA CloseReadsKeeps ==
    ASSUME CountsOK, SettingsOK, ManualOK, CloseReads PROVE ManualOK' /\ Counted
<1>1. Counted /\ calls' \in Nat
  BY CallCounts DEF CloseReads, recorded, Call, CountsOK
<1>2. trades' = trades
  BY DEF CloseReads
<1>3. PICK t \in 1 .. Len(trades) :
          \/ requests' = requests
          \/ requests' = requests \cup
                 {[id |-> calls', kind |-> "close", pc |-> "pricing",
                   pair |-> trades[t].pair, exchange |-> trades[t].exchange,
                   client |-> settings.source, trade |-> t]}
  BY DomainOfTrades DEF CloseReads
<1>. DEFINE new == [id |-> calls', kind |-> "close", pc |-> "pricing",
                    pair |-> trades[t].pair, exchange |-> trades[t].exchange,
                    client |-> settings.source, trade |-> t]
<1>4. trades[t] \in Trades /\ t \in Nat /\ settings.source \in ValidSources
  BY TradeAt DEF SettingsOK, SettingsRecs
<1>5. new \in Requests /\ new.kind = "close" /\ CloseOK(new)
  BY <1>1, <1>4 DEF Trades, Requests, CloseOK
<1>6. requests' \subseteq requests \cup {new}
  BY <1>3
<1>. HIDE DEF new
<1>. QED
  BY <1>1, <1>2, <1>5, <1>6, OnlyRequests DEF ManualOK

\* What stays of the requests when one trade changes, but for its pair.
LEMMA OneTrade ==
    ASSUME ManualOK, NEW t \in 1 .. Len(trades), NEW trade \in Trades, TradeOK(trade),
           trades' = [trades EXCEPT ![t] = trade], requests' \subseteq requests,
           trade.pair = trades[t].pair
    PROVE  ManualOK'
<1>1. /\ trades' \in Seq(Trades) /\ Len(trades') = Len(trades)
      /\ \A i \in 1 .. Len(trades) : trades'[i] = IF i = t THEN trade ELSE trades[i]
  BY ExceptSeq DEF ManualOK
<1>2. \A i \in 1 .. Len(trades') : TradeOK(trades'[i])
  BY <1>1 DEF ManualOK
<1>3. ASSUME NEW p \in requests' PROVE (IF p.kind = "record" THEN RecordOK(p) ELSE CloseOK(p))'
  <2>1. IF p.kind = "record" THEN RecordOK(p) ELSE CloseOK(p)
    BY DEF ManualOK
  <2>2. \A i \in 1 .. Len(trades) : trades'[i].pair = trades[i].pair
    BY <1>1
  <2>. QED
    BY <1>1, <2>1, <2>2 DEF RecordOK, CloseOK
<1>. QED
  BY <1>1, <1>2, <1>3 DEF ManualOK, TradeOK

\* A leg is priced at the exit by a client that lists it, or not at all.
LEMMA CloseWritesKeeps ==
    ASSUME CountsOK, ManualOK, CloseWrites PROVE ManualOK' /\ Counted
<1>1. Counted
  BY NothingCounts DEF CloseWrites, recorded
<1>2. PICK q \in requests :
          /\ q.kind = "close"
          /\ requests' = requests \ {q}
          /\ IF trades[q.trade].status = "DELETED" THEN UNCHANGED trades
             ELSE \E priced \in SUBSET Priced(q) :
                     trades' = [trades EXCEPT
                         ![q.trade].status = "CLOSED",
                         ![q.trade].exit =
                             [leg \in 1 .. 2 |-> IF leg \in priced THEN q.client ELSE @[leg]]]
  BY DEF CloseWrites
<1>3. requests' \subseteq requests
  BY <1>2
<1>4. CASE UNCHANGED trades
  BY <1>1, <1>3, <1>4, OnlyRequests DEF ManualOK
<1>5. CASE ~ UNCHANGED trades
  <2>. DEFINE t == q.trade
              old == trades[t]
  <2>1. q.client \in ValidSources /\ t \in 1 .. Len(trades) /\ q.pair = old.pair
    BY <1>2 DEF ManualOK, CloseOK
  <2>2. old \in Trades /\ TradeOK(old)
    BY <2>1, TradeAt
  <2>3. PICK priced \in SUBSET Priced(q) :
            trades' = [trades EXCEPT
                ![q.trade].status = "CLOSED",
                ![q.trade].exit =
                    [leg \in 1 .. 2 |-> IF leg \in priced THEN q.client ELSE @[leg]]]
    BY <1>2, <1>5
  <2>. DEFINE exit == [leg \in 1 .. 2 |-> IF leg \in priced THEN q.client ELSE old.exit[leg]]
              trade == [old EXCEPT !.status = "CLOSED", !.exit = exit]
  <2>4. trades' = [trades EXCEPT ![t] = trade]
    <3>1. trades \in [1 .. Len(trades) -> Trades]
      BY LenProperties DEF ManualOK
    <3>. QED
      BY <2>1, <2>3, <3>1
  <2>5. exit \in [1 .. 2 -> ValidSources \cup {"none"}]
    BY <2>1, <2>2 DEF Trades
  <2>6. \A leg \in 1 .. 2 : exit[leg] # "none" => old.pair[leg] \in ToSet(Universe[exit[leg]])
    BY <2>1, <2>2 DEF TradeOK, Priced
  <2>. HIDE DEF exit
  <2>7. trade \in Trades /\ trade.pair = old.pair /\ trade.client = old.client /\ trade.exit = exit
    BY <2>2, <2>5 DEF Trades
  <2>. HIDE DEF trade
  <2>8. TradeOK(trade)
    BY <2>2, <2>6, <2>7 DEF TradeOK
  <2>. QED
    BY <1>1, <1>3, <2>1, <2>4, <2>7, <2>8, OneTrade
<1>. QED
  BY <1>4, <1>5

\* Deleting a trade leaves the others.
LEMMA DeleteTradeKeeps ==
    ASSUME CountsOK, ManualOK, DeleteTrade PROVE ManualOK' /\ Counted
<1>1. Counted
  BY CallCounts DEF DeleteTrade, recorded
<1>2. PICK t \in 1 .. Len(trades) : trades' = [trades EXCEPT ![t].status = "DELETED"]
  BY DomainOfTrades DEF DeleteTrade
<1>. DEFINE old == trades[t]
            trade == [old EXCEPT !.status = "DELETED"]
<1>3. old \in Trades /\ TradeOK(old)
  BY TradeAt
<1>4. trades' = [trades EXCEPT ![t] = trade] /\ requests' = requests
  BY <1>2 DEF DeleteTrade
<1>5. trade \in Trades /\ trade.pair = old.pair /\ trade.client = old.client
      /\ trade.exit = old.exit
  BY <1>3 DEF Trades
<1>. HIDE DEF trade
<1>6. TradeOK(trade)
  BY <1>3, <1>5 DEF TradeOK
<1>. QED
  BY <1>1, <1>4, <1>5, <1>6, OneTrade

\* Every step of a manual trade keeps the invariant.
LEMMA ManualTradingKeeps == ASSUME IInv, ManualTrading PROVE IInv'
<1>1. ManualOK' /\ Counted
  BY RecordAskedKeeps, RecordReadsKeeps, RecordCreatesKeeps, CloseReadsKeeps, CloseWritesKeeps,
     DeleteTradeKeeps DEF IInv, ManualTrading, ManualStep, ManualTask
<1>2. UNCHANGED <<settingVars, scanVars, tables>>
  BY DEF ManualTrading, ManualStep, ManualTask, RecordAsked, RecordReads, RecordCreates,
         CloseReads, CloseWrites, DeleteTrade, recorded
<1>3. SettingsOK' /\ ScanOK'
  BY <1>1, <1>2, SettingsKept, ScanKept DEF IInv
<1>4. ReplayOK'
  BY <1>1, ReplayKept DEF IInv, ManualTrading
<1>. QED
  BY <1>1, <1>3, <1>4 DEF IInv, Counted

\* A restart drops the tasks and keeps the rows.
LEMMA RestartingKeeps == ASSUME IInv, Restarting PROVE IInv'
<1>1. SettingsOK' /\ Counted /\ faults' > 0
  BY RestartKeeps DEF IInv, Restarting
<1>2. ScanOK'
  BY <1>1, ResetKeeps DEF IInv, Restarting, Restart
<1>3. ReplayOK'
  BY <1>1, ReplayRestartKeeps DEF IInv, Restarting
<1>4. ManualOK'
  <2>1. requests' = {} /\ trades' = trades
    BY DEF Restarting, ManualRestart
  <2>. QED
    BY <2>1 DEF ManualOK, IInv
<1>. QED
  BY <1>1, <1>2, <1>3, <1>4 DEF IInv, Counted

\* A stuttering step keeps the invariant.
LEMMA StutterKeeps == ASSUME IInv, UNCHANGED deskVars PROVE IInv'
<1>1. Counted
  BY NothingCounts DEF IInv, deskVars, bounds
<1>2. SettingsOK' /\ ScanOK' /\ ReplayOK' /\ ManualOK'
  BY <1>1, SettingsKept, ScanKept, ReplayKept, ManualKept
     DEF IInv, deskVars
<1>. QED
  BY <1>1, <1>2 DEF IInv, Counted

(***************************************************************************)
(* The theorems.                                                           *)
(***************************************************************************)

\* The invariant holds in every reachable state.
THEOREM Invariance == Spec => []IInv
<1>1. Init => IInv
  BY InitSettings, InitScan, InitRest DEF IInv
<1>2. IInv /\ [Next]_deskVars => IInv'
  BY ChangeSettingsKeeps, ScanningKeeps, ReplayingKeeps, ManualTradingKeeps, RestartingKeeps,
     StutterKeeps DEF Next
<1>. QED
  BY <1>1, <1>2, PTL DEF Spec

\* Every variable has its type, and the thresholds in force their order, if
\* the environment's thresholds are valid (set_signal_thresholds,
\* load_persisted_thresholds).
THEOREM TypeCorrect == ASSUME Valid(EnvThresholds) PROVE Spec => []TypeOK
<1>1. IInv => TypeOK
  <2>. SUFFICES ASSUME IInv PROVE TypeOK
    OBVIOUS
  <2>1. /\ settings.source \in ValidSources /\ settings.floor \in Floors \cup {0}
        /\ settings.thresholds.exit < settings.thresholds.entry
        /\ settings.thresholds.entry < settings.thresholds.stop
    BY DEF IInv, SettingsOK, ValidAsked, Valid, SettingsRecs
  <2>2. /\ scan.pc \in PCs
        /\ scan.running <=> scan.pc \notin {"idle", "done"}
        /\ \A e \in Exchanges : tables[e].from \in ValidSources \cup {"none"}
    BY DEF IInv, ScanOK, ScanRecs, LocalsOK, TableOK
  <2>3. ReplayOK
    BY DEF IInv
  <2>4. /\ \A r \in DOMAIN runs :
              /\ runs[r].status \in {"RUNNING", "COMPLETED", "STOPPED", "FAILED"}
              /\ runs[r].processed \in 0 .. runs[r].total
        /\ DOMAIN tasks = DOMAIN runs /\ stops \subseteq DOMAIN runs
    BY <2>3, DomainOfRuns DEF ReplayOK, RowOK, Statuses, IsRow
  <2>5. \A t \in DOMAIN trades : trades[t].status \in {"OPEN", "CLOSED", "DELETED"}
    BY DomainOfTrades, TradeAt DEF IInv, Trades
  <2>6. calls \in 0 .. MaxCalls /\ faults \in 0 .. MaxFaults
    BY DEF IInv, CountsOK
  <2>. QED
    BY <2>1, <2>2, <2>4, <2>5, <2>6
       DEF TypeOK, PCs, BeforeMatrix, BeforeBegin
<1>. QED
  BY <1>1, Invariance, PTL

\* The thresholds in force are the ones saved last, also after a restart,
\* unless a save failed or overlapped with another one (set_thresholds).
THEOREM Survives == Spec => []ThresholdsSurvive
<1>1. IInv => ThresholdsSurvive
  BY DEF IInv, SettingsOK, ThresholdsSurvive
<1>. QED
  BY <1>1, Invariance, PTL

\* A scan that ended was stopped on request or tested every pair, and what it
\* stored is what it found, under the venue of its source (run_scan).
THEOREM Honest == Spec => []ScanIsHonest
<1>1. IInv => ScanIsHonest
  <2>. SUFFICES ASSUME IInv PROVE ScanIsHonest
    OBVIOUS
  <2>1. LocalsOK(scan) /\ scan \in ScanRecs
    BY DEF IInv, ScanOK, ScanRecs
  <2>2. /\ scan.pc = "done" /\ scan.stopped =>
               scan.asked /\ (scan.markets = {} \/ scan.tested # AllPairs(scan))
        /\ scan.pc = "done" /\ ~ scan.stopped /\ ~ scan.error => scan.tested = AllPairs(scan)
    BY <2>1 DEF LocalsOK
  <2>3. scan.stored /\ tables[scan.exchange].by = scan.id =>
            tables[scan.exchange].pairs = Survivors(scan.client, scan.tested)
    BY <2>1 DEF LocalsOK, IInv, ScanOK
  <2>4. /\ \A e \in Exchanges : tables[e].from # "none" => ActiveExchange(tables[e].from) = e
        /\ scan.id # 0 /\ csv = scan.id => scan.stored
    BY DEF IInv, ScanOK, TableOK
  <2>. QED
    BY <2>2, <2>3, <2>4 DEF ScanIsHonest
<1>. QED
  BY <1>1, Invariance, PTL

\* A run is COMPLETED only at its last bar, STOPPED only on request and before
\* it, and RUNNING only while its task lives, a failure apart (_finalise).
THEOREM Ended == Spec => []StatusIsHonest
<1>1. IInv => StatusIsHonest
  <2>. SUFFICES ASSUME IInv PROVE StatusIsHonest
    OBVIOUS
  <2>1. ReplayOK
    BY DEF IInv
  <2>. QED
    BY <2>1, DomainOfRuns DEF ReplayOK, RowOK, StatusIsHonest
<1>. QED
  BY <1>1, Invariance, PTL

\* Demo prices and prices of a venue never meet in a trade, and its pair passed
\* the filter on the client that priced its entry, whatever is switched in
\* between (record_manual_trade, close_manual_trade). The venues may share
\* names; the demo's are its own.
THEOREM Apart == Spec => []DemoStaysApart
<1>1. ManualOK => DemoStaysApart
  <2>. SUFFICES ASSUME ManualOK, NEW t \in 1 .. Len(trades)
                PROVE  /\ trades[t].pair \in Cointegrated(trades[t].client)
                       /\ \A leg \in 1 .. 2 : trades[t].exit[leg] # "none" =>
                              (trades[t].exit[leg] = "fake" <=> trades[t].client = "fake")
    BY DomainOfTrades DEF DemoStaysApart
  <2>1. trades[t] \in Trades /\ TradeOK(trades[t])
    BY TradeAt
  <2>2. ASSUME NEW leg \in 1 .. 2, trades[t].exit[leg] # "none"
        PROVE  trades[t].exit[leg] = "fake" <=> trades[t].client = "fake"
    <3>. DEFINE m == trades[t].pair[leg]
                s == trades[t].client
                e == trades[t].exit[leg]
    <3>1. s \in {"fake"} \cup Exchanges /\ e \in {"fake"} \cup Exchanges
      BY <2>1, <2>2 DEF Trades, ValidSources, Exchanges
    <3>2. m \in ToSet(Universe[s]) /\ m \in ToSet(Universe[e])
      BY <2>1, <2>2 DEF TradeOK
    <3>. HIDE DEF m, s, e
    <3>3. e = "fake" <=> s = "fake"
      BY <3>1, <3>2, DemoAssumption
    <3>. QED BY <3>3 DEF s, e
  <2>. QED
    BY <2>1, <2>2 DEF TradeOK
<1>. QED
  BY <1>1, Invariance, PTL DEF IInv

(***************************************************************************)
(* Scans and runs come nearer to their end with every step of theirs.      *)
(***************************************************************************)
ScanStage == [idle |-> 0, done |-> 0, csv |-> 1, storing |-> 2, testing |-> 3,
              emptying |-> 3, fetching |-> 4, claimed |-> 5]
RunStage == [done |-> 0, failing |-> 1, walk |-> 2, load |-> 3, start |-> 4]

\* To a later stage, or to fewer pairs that are still to be tested.
ScanAdvances ==
    ScanLives /\ (scan'.pc # scan.pc \/ scan'.tested # scan.tested) =>
        \/ ScanStage[scan'.pc] < ScanStage[scan.pc]
        \/ /\ scan.pc = "testing" /\ scan'.pc = "testing"
           /\ AllPairs(scan') = AllPairs(scan)
           /\ Untested' \subseteq Untested /\ Untested' # Untested

\* To a later stage, or to a later bar of a timeline that stays as long.
RunAdvances(r) ==
    tasks'[r] # tasks[r] =>
        \/ RunStage[tasks'[r].pc] < RunStage[tasks[r].pc]
        \/ /\ tasks[r].pc = "walk" /\ tasks'[r].pc = "walk"
           /\ runs'[r].total = runs[r].total
           /\ tasks[r].bar < tasks'[r].bar /\ tasks'[r].bar <= runs'[r].total

\* No run walks past its last bar.
WithinTimeline == \A r \in DOMAIN tasks : tasks[r].bar <= runs[r].total
WorkAdvances == ScanAdvances /\ \A r \in DOMAIN tasks : RunAdvances(r)

\* A checkpoint tests nothing, and goes on testing or to the writes.
LEMMA CheckpointMoves ==
    ASSUME NEW s \in ScanRecs
    PROVE  /\ Checkpoint(s).pc \in {"testing", "storing"}
           /\ Checkpoint(s).tested = s.tested /\ Checkpoint(s).markets = s.markets
           /\ Checkpoint(s).client = s.client
<1>. DEFINE r == [s EXCEPT !.pc = "storing"]
            x == [s EXCEPT !.pc = "storing", !.stopped = TRUE]
            y == [s EXCEPT !.pc = "testing"]
            Same(t) == t.tested = s.tested /\ t.markets = s.markets /\ t.client = s.client
<1>1. Same(r) /\ r.pc = "storing" /\ Same(x) /\ x.pc = "storing" /\ Same(y) /\ y.pc = "testing"
  BY DEF ScanRecs
<1>2. Checkpoint(s) = IF s.tested = AllPairs(s) THEN r
                      ELSE IF s.stopRequested THEN x ELSE y
  BY DEF Checkpoint
<1>. HIDE DEF r, x, y
<1>. QED BY <1>1, <1>2

\* A chunk is of pairs not tested yet, and of one at least.
LEMMA ChunkAdvances == ASSUME ScanOK, TestChunk PROVE ScanAdvances
<1>1. PICK chunk \in SUBSET Untested :
          /\ Cardinality(chunk) = ChunkSize \/ chunk = Untested
          /\ scan' = Checkpoint([scan EXCEPT !.tested = @ \cup chunk,
                                             !.found = @ \cup Survivors(scan.client, chunk)])
  BY DEF TestChunk
<1>. DEFINE s == [scan EXCEPT !.tested = scan.tested \cup chunk,
                              !.found = scan.found \cup Survivors(scan.client, chunk)]
<1>2. /\ scan \in ScanRecs /\ scan.pc = "testing" /\ scan.client \in ValidSources
      /\ scan.markets \subseteq ToSet(Universe[scan.client])
      /\ scan.tested \subseteq AllPairs(scan) /\ scan.tested # AllPairs(scan)
  BY DEF TestChunk, ScanOK, ScanRecs, LocalsOK, BeforeBegin
<1>3. chunk # {} /\ chunk \cap scan.tested = {}
  BY <1>1, <1>2, FS_EmptySet, CountsAssumption DEF Untested
<1>4. chunk \subseteq Pairs
  BY <1>2, PairsOfColumns DEF Untested, AllPairs, Pairs, Listed
<1>5. s \in ScanRecs /\ s.tested = scan.tested \cup chunk /\ s.markets = scan.markets
      /\ s.client = scan.client
  BY <1>2, <1>4, FoundAmongTested DEF ScanRecs
<1>6. scan' = Checkpoint(s)
  BY <1>1
<1>. HIDE DEF s
<1>7. scan'.pc \in {"testing", "storing"} /\ scan'.tested = scan.tested \cup chunk
      /\ AllPairs(scan') = AllPairs(scan)
  BY <1>5, <1>6, CheckpointMoves DEF AllPairs
<1>8. Untested' = Untested \ chunk
  BY <1>7 DEF Untested
<1>9. Untested' \subseteq Untested /\ Untested' # Untested
  BY <1>1, <1>3, <1>8
<1>. QED BY <1>2, <1>7, <1>9 DEF ScanAdvances, ScanStage

\* Every step moves the scan forward, or leaves it where it is.
LEMMA ScanMoves == ASSUME ScanOK, [Next]_deskVars PROVE ScanAdvances
<1>1. /\ scan \in ScanRecs /\ scan.pc \in PCs
      /\ (scan.running <=> scan.pc \notin {"idle", "done"})
  BY DEF ScanOK, ScanRecs, LocalsOK
<1>2. CASE StartScan \/ ResetScan
  BY <1>1, <1>2 DEF StartScan, ResetScan, ScanAdvances, ScanLives
<1>3. CASE StopScan
  BY <1>1, <1>3 DEF StopScan, ScanAdvances, ScanRecs
<1>4. CASE ScanBegins
  <2>1. scan.pc = "claimed" /\ scan'.pc = "fetching"
    BY <1>1, <1>4 DEF ScanBegins, ScanRecs
  <2>. QED BY <2>1 DEF ScanAdvances, ScanStage
<1>5. CASE FetchMatrix
  <2>1. ASSUME NEW markets, NEW lost, markets \subseteq ToSet(Universe[scan.client]),
               scan.client \in ValidSources
        PROVE  Fetched(markets, lost).pc \in {"emptying", "done", "testing", "storing"}
    <3>. DEFINE columns == Columns(scan.client, markets, lost)
                told == [scan EXCEPT !.dropped = markets \ columns]
                e == [scan EXCEPT !.pc = "emptying"]
                f == Finished(told, FALSE)
                c == [told EXCEPT !.markets = columns]
    <3>1. markets \subseteq Listed /\ columns \subseteq Listed
      BY <2>1, ColumnsOfMarkets DEF Listed
    <3>. HIDE DEF columns
    <3>2. told \in ScanRecs
      BY <1>1, <3>1 DEF ScanRecs
    <3>3. c \in ScanRecs
      <4>. HIDE DEF told
      <4>. QED BY <3>1, <3>2 DEF ScanRecs
    <3>4. e.pc = "emptying"
      BY <1>1 DEF ScanRecs
    <3>5. f.pc = "done"
      <4>. HIDE DEF told
      <4>. QED BY <3>2 DEF Finished, ScanRecs
    <3>6. Fetched(markets, lost) = IF scan.stopRequested THEN e
                                   ELSE IF columns = {} THEN f ELSE Checkpoint(c)
      BY DEF Fetched, columns
    <3>. HIDE DEF told, e, f, c
    <3>. QED BY <3>3, <3>4, <3>5, <3>6, CheckpointMoves
  <2>2. scan.pc = "fetching" /\ scan.client \in ValidSources
    BY <1>5 DEF FetchMatrix, ScanOK, LocalsOK, BeforeBegin
  <2>3. Failed(scan).pc = "done"
    BY <1>1 DEF Failed, ScanRecs
  <2>4. Eligible(scan.client) \subseteq ToSet(Universe[scan.client])
    BY DEF Eligible
  <2>5. scan'.pc \in {"emptying", "done", "testing", "storing"}
    BY <1>5, <2>1, <2>2, <2>3, <2>4 DEF FetchMatrix
  <2>. QED BY <2>2, <2>5 DEF ScanAdvances, ScanStage
<1>6. CASE EmptyTable \/ StoreRows \/ WriteCsv
  <2>1. \A stopped : Finished(scan, stopped).pc = "done"
    BY <1>1 DEF Finished, ScanRecs
  <2>2. Failed(scan).pc = "done"
    BY <1>1 DEF Failed, ScanRecs
  <2>3. [scan EXCEPT !.pc = "csv", !.stored = TRUE].pc = "csv"
    BY <1>1 DEF ScanRecs
  <2>4. \/ scan.pc = "emptying" /\ scan'.pc = "done"
        \/ scan.pc = "storing" /\ scan'.pc \in {"csv", "done"}
        \/ scan.pc = "csv" /\ scan'.pc = "done"
    BY <1>6, <2>1, <2>2, <2>3 DEF EmptyTable, StoreRows, WriteCsv
  <2>. QED BY <2>4 DEF ScanAdvances, ScanStage
<1>7. CASE Restarting
  <2>1. scan'.pc = "idle"
    BY <1>7 DEF Restarting, Restart, NoScan
  <2>. QED BY <1>1, <2>1
           DEF ScanAdvances, ScanLives, ScanStage, PCs, BeforeMatrix, BeforeBegin
<1>8. ASSUME UNCHANGED scan PROVE ScanAdvances
  BY <1>8 DEF ScanAdvances
<1>9. CASE ChangeSettings \/ Replaying \/ ManualTrading \/ UNCHANGED deskVars
  <2>1. ASSUME SettingsStep PROVE UNCHANGED scanVars
    BY <2>1 DEF SettingsStep, SetSource, ClearPairs, SetScanFloor, SetThresholds, SaveThresholds
  <2>2. ASSUME ReplayStep PROVE UNCHANGED scanVars
    BY <2>2 DEF ReplayStep, ReplayTask, CreateReplay, StopReplay, SetFlag, ReadPairs,
       LoadHistory, Walk, Finalise, Fail, DbFails, Step
  <2>3. ASSUME ManualStep PROVE UNCHANGED scanVars
    BY <2>3 DEF ManualStep, ManualTask, RecordAsked, RecordReads, RecordCreates, CloseReads,
       CloseWrites, DeleteTrade, recorded
  <2>4. UNCHANGED scanVars
    BY <1>9, <2>1, <2>2, <2>3 DEF ChangeSettings, Replaying, ManualTrading, deskVars
  <2>. QED BY <1>8, <2>4 DEF scanVars
<1>. QED BY <1>2, <1>3, <1>4, <1>5, <1>6, <1>7, <1>9, ChunkAdvances
         DEF Next, Scanning, ScanStep, ScanTask

\* Every step of a run moves its task forward.
LEMMA TaskMoves ==
    ASSUME ReplayOK, NEW r \in DOMAIN runs, ReplayTask(r) PROVE RunAdvances(r)
<1>. DEFINE old == runs[r]
            t == tasks[r]
<1>1. /\ r \in DOMAIN tasks /\ r \in DOMAIN runs
      /\ IsRow(old) /\ IsTask(t)
  BY DomainOfRuns DEF ReplayOK, RowOK
<1>2. ASSUME NEW row, NEW task, Step(r, row, task) PROVE runs'[r] = row /\ tasks'[r] = task
  BY <1>1, <1>2 DEF Step
<1>3. \A pc : Goes(r, pc).pc = pc
  BY <1>1 DEF Goes, IsTask
<1>4. ASSUME NEW pc, DbFails(r), At(r, pc), pc \in {"start", "load", "walk"}
      PROVE  RunAdvances(r)
  <2>1. tasks'[r].pc = "failing"
    BY <1>2, <1>3, <1>4 DEF DbFails
  <2>. QED BY <1>4, <2>1 DEF RunAdvances, RunStage, At
<1>5. CASE ReadPairs(r) /\ ~ DbFails(r)
  <2>. DEFINE pairs == LatestPairs(t.exchange)
              from == tables[t.exchange].from
              source == CandleSource(t.exchange)
              pc == IF pairs = {} THEN "failing" ELSE "load"
              task == [t EXCEPT !.pc = pc, !.pairs = pairs, !.from = from, !.source = source]
  <2>1. tasks'[r] = task /\ pc \in {"failing", "load"}
    BY <1>2, <1>5 DEF ReadPairs
  <2>. HIDE DEF pairs, from, source, pc
  <2>2. tasks'[r].pc \in {"failing", "load"}
    BY <1>1, <2>1 DEF IsTask
  <2>. QED BY <1>5, <2>2 DEF RunAdvances, RunStage, ReadPairs, At
<1>6. CASE LoadHistory(r) /\ ~ DbFails(r)
  <2>1. tasks'[r].pc \in {"failing", "walk"}
    BY <1>2, <1>3, <1>6 DEF LoadHistory
  <2>. QED BY <1>6, <2>1 DEF RunAdvances, RunStage, LoadHistory, At
<1>7. CASE Walk(r) /\ ~ DbFails(r)
  <2>. DEFINE next == IF NextReport(r) + 1 < old.total THEN NextReport(r) + 1 ELSE old.total
              processed == IF NextReport(r) < old.total THEN next ELSE old.processed
              ledger == Ticks(Feed(t), t.ledger, t.bar + 1, next)
              row == [old EXCEPT !.processed = processed]
              task == [t EXCEPT !.bar = next, !.ledger = ledger]
  <2>1. NextReport(r) \in Nat /\ NextReport(r) >= t.bar /\ old.total \in Nat /\ t.bar \in Nat
    BY <1>1, ReportIsAhead DEF IsRow, IsTask
  <2>2. t.pc = "walk" /\ t.bar < old.total
    BY <1>7 DEF Walk, At
  <2>3. next > t.bar /\ next <= old.total
    BY <2>1, <2>2
  <2>4. Step(r, row, task)
    <3>1. [runs[r] EXCEPT !.processed = IF NextReport(r) < runs[r].total THEN next ELSE @] = row
      OBVIOUS
    <3>2. [tasks[r] EXCEPT !.bar = next,
                           !.ledger = Ticks(Feed(tasks[r]), @, tasks[r].bar + 1, next)] = task
      OBVIOUS
    <3>. QED BY <1>7, <3>1, <3>2 DEF Walk
  <2>. HIDE DEF next, processed, ledger
  <2>5. row.total = old.total /\ task.bar = next /\ task.pc = t.pc
    BY <1>1 DEF IsRow, IsTask
  <2>6. runs'[r] = row /\ tasks'[r] = task
    <3>. HIDE DEF row, task
    <3>. QED BY <1>2, <2>4
  <2>. HIDE DEF row, task
  <2>. QED BY <2>2, <2>3, <2>5, <2>6 DEF RunAdvances
<1>8. CASE Finalise(r) /\ ~ DbFails(r)
  <2>1. tasks'[r].pc = "done"
    BY <1>2, <1>3, <1>8 DEF Finalise
  <2>. QED BY <1>8, <2>1 DEF RunAdvances, RunStage, Finalise, At
<1>9. CASE Fail(r)
  <2>1. tasks'[r].pc = "done"
    BY <1>2, <1>3, <1>9 DEF Fail
  <2>. QED BY <1>9, <2>1 DEF RunAdvances, RunStage, Fail, At
<1>. QED BY <1>4, <1>5, <1>6, <1>7, <1>8, <1>9
         DEF ReplayTask, ReadPairs, LoadHistory, Walk, Finalise

\* Every step moves each of the runs forward, or leaves it where it is.
LEMMA RunsMove ==
    ASSUME ReplayOK, [Next]_deskVars, NEW r \in DOMAIN tasks PROVE RunAdvances(r)
<1>1. r \in 1 .. Len(runs) /\ DOMAIN runs = 1 .. Len(runs) /\ DOMAIN tasks = 1 .. Len(runs)
  BY DomainOfRuns
<1>2. IsTask(tasks[r])
  BY <1>1 DEF ReplayOK, RowOK
<1>3. ASSUME NEW i \in DOMAIN runs, ReplayTask(i) PROVE RunAdvances(r)
  <2>1. i = r => RunAdvances(r)
    BY <1>3, TaskMoves
  <2>2. \E row, task : Step(i, row, task)
    BY <1>3 DEF ReplayTask, ReadPairs, LoadHistory, Walk, Finalise, Fail, DbFails
  <2>3. i # r => tasks'[r] = tasks[r]
    BY <1>1, <2>2 DEF Step
  <2>. QED BY <2>1, <2>3 DEF RunAdvances
<1>4. CASE CreateReplay
  <2>1. PICK task : tasks' = Append(tasks, task)
    BY <1>4 DEF CreateReplay
  <2>2. tasks'[r] = tasks[r]
    BY <1>1, <2>1, AppendProperties DEF ReplayOK
  <2>. QED BY <2>2 DEF RunAdvances
<1>5. CASE Restarting
  <2>1. tasks'[r] = Goes(r, "done")
    BY <1>5 DEF Restarting, ReplayRestart
  <2>2. tasks[r].pc = "done" => tasks'[r] = tasks[r]
    BY <1>2, <2>1 DEF Goes, IsTask
  <2>3. tasks'[r].pc = "done"
    BY <1>2, <2>1 DEF Goes, IsTask
  <2>. QED BY <1>2, <2>2, <2>3 DEF RunAdvances, RunStage, IsTask, TaskPCs
<1>6. CASE StopReplay \/ SetFlag \/ ChangeSettings \/ Scanning \/ ManualTrading
           \/ UNCHANGED deskVars
  <2>1. UNCHANGED tasks
    BY <1>6 DEF StopReplay, SetFlag, ChangeSettings, Scanning, ManualTrading, deskVars, replayVars
  <2>. QED BY <2>1 DEF RunAdvances
<1>. QED BY <1>3, <1>4, <1>5, <1>6 DEF Next, Replaying, ReplayStep

\* A scan and a replay end by themselves: each step of theirs, a failure, a
\* stop or a restart brings them to a later stage, and within a stage a scan
\* has fewer pairs left to test and a replay, which never walks past its last
\* bar, fewer bars left to walk (run_scan, run_replay).
THEOREM WorkEnds == Spec => []WithinTimeline /\ [][WorkAdvances]_deskVars
<1>1. IInv => WithinTimeline
  BY DomainOfRuns DEF IInv, ReplayOK, RowOK, WithinTimeline
<1>2. IInv /\ [Next]_deskVars => WorkAdvances
  BY ScanMoves, RunsMove DEF IInv, WorkAdvances
<1>. QED BY <1>1, <1>2, Invariance, PTL DEF Spec

=============================================================================
