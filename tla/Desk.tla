-------------------------------- MODULE Desk --------------------------------
(***************************************************************************)
(* The operator's desk: settings, scans, fast-forward runs and manual      *)
(* trades in one process. They share the settings, which every one of them *)
(* reads again at each step, and the table of the latest scan.             *)
(***************************************************************************)
EXTENDS Replay, Manual

deskVars == <<settingVars, scanVars, tables, bounds, replayVars, manualVars>>

ChangeSettings == SettingsStep /\ UNCHANGED <<replayVars, manualVars>>
Scanning == ScanStep /\ UNCHANGED <<replayVars, manualVars>>
Replaying == ReplayStep /\ UNCHANGED manualVars
ManualTrading == ManualStep /\ UNCHANGED replayVars
Restarting == Restart /\ ReplayRestart /\ ManualRestart

Init == ScanInit /\ ReplayInit /\ ManualInit
Next == ChangeSettings \/ Scanning \/ Replaying \/ ManualTrading \/ Restarting

Spec == Init /\ [][Next]_deskVars

ScanLives == scan.pc \notin {"idle", "done"}
ReplayLives(r) == r \in DOMAIN tasks /\ tasks[r].pc # "done"

\* What a coroutine has begun, the event loop goes on with. A step of a scan
\* or of a replay is possible exactly while its task lives: its weak fairness
\* is written out, for ENABLED would compute the step.
Fairness ==
    /\ WF_deskVars((ClearPairs \/ SaveThresholds) /\ UNCHANGED <<replayVars, manualVars>>)
    /\ []<>(~ ScanLives) \/ []<><<scan' # scan>>_deskVars
    /\ WF_deskVars(SetFlag /\ UNCHANGED manualVars)
    /\ \A r \in 1 .. MaxCalls :
          []<>(~ ReplayLives(r)) \/ []<><<tasks'[r] # tasks[r]>>_deskVars
    /\ WF_deskVars(ManualTask /\ UNCHANGED replayVars)

FairSpec == Spec /\ Fairness

(***************************************************************************)
(* Properties.                                                             *)
(***************************************************************************)

\* Every variable has its type. The thresholds in force keep the order that
\* the signals need, whatever is asked for or read back after a restart.
TypeOK ==
    /\ settings.source \in ValidSources /\ settings.floor \in Floors \cup {0}
    /\ settings.thresholds.exit < settings.thresholds.entry
    /\ settings.thresholds.entry < settings.thresholds.stop
    /\ scan.pc \in {"idle", "claimed", "fetching", "emptying", "testing",
                    "storing", "csv", "done"}
    /\ scan.running <=> scan.pc \notin {"idle", "done"}
    /\ \A e \in Exchanges : tables[e].from \in ValidSources \cup {"none"}
    /\ \A r \in DOMAIN runs :
          /\ runs[r].status \in {"RUNNING", "COMPLETED", "STOPPED", "FAILED"}
          /\ runs[r].processed \in 0 .. runs[r].total
    /\ DOMAIN tasks = DOMAIN runs /\ stops \subseteq DOMAIN runs
    /\ \A t \in DOMAIN trades : trades[t].status \in {"OPEN", "CLOSED", "DELETED"}
    /\ calls \in 0 .. MaxCalls /\ faults \in 0 .. MaxFaults

\* The thresholds in force are those of the last row that was saved, also
\* after a restart, unless a save failed or two of them overlapped
\* (set_thresholds, load_persisted_thresholds).
ThresholdsSurvive ==
    sure /\ saves = {} => history # <<>> /\ Last(history) = settings.thresholds

\* What the state of a scan says of it is true: it was stopped only if that
\* was asked for and left something out; else every pair was tested. What it
\* stored are the pairs found, under the venue they were found on, and the
\* CSV file is of a scan that was stored (run_scan).
ScanIsHonest ==
    /\ scan.pc = "done" /\ scan.stopped =>
           scan.asked /\ (scan.markets = {} \/ scan.tested # AllPairs(scan))
    /\ scan.pc = "done" /\ ~ scan.stopped /\ ~ scan.error => scan.tested = AllPairs(scan)
    /\ scan.stored /\ tables[scan.exchange].by = scan.id =>
           tables[scan.exchange].pairs = Survivors(scan.client, scan.tested)
    /\ \A e \in Exchanges : tables[e].from # "none" => ActiveExchange(tables[e].from) = e
    /\ scan.id # 0 /\ csv = scan.id => scan.stored

\* A run is COMPLETED only after its last bar, STOPPED only on request and
\* before it, and RUNNING only while its task lives, a crash apart.
StatusIsHonest ==
    \A r \in DOMAIN runs :
        /\ runs[r].status = "COMPLETED" => runs[r].processed = runs[r].total
        /\ runs[r].status = "STOPPED" => runs[r].asked /\ runs[r].processed < runs[r].total
        /\ runs[r].status = "RUNNING" => tasks[r].pc # "done" \/ faults > 0

\* What trades earned, and the forced closes of what a ledger has open.
Earned(closed) == FoldLeft(LAMBDA sum, trade : sum + Earns[trade.reason], 0, closed)
Forced(ledger) ==
    [i \in DOMAIN ledger.open |->
        [pair |-> ledger.open[i].pair, reason |-> "END_OF_REPLAY"]]

\* The row of a fast-forward run tells what its first `processed' bars did:
\* their trades, then one forced close for each position left open, and the
\* capital is what they earned; and its status is true (run_replay, _finalise).
ReplayIsHonest ==
    /\ StatusIsHonest
    /\ \A r \in DOMAIN runs :
          LET row == runs[r]
              before == Ticks(Feed(tasks[r]), Flat, 1, row.processed)
          IN  row.status \in {"COMPLETED", "STOPPED"} =>
                  /\ row.trades = before.trades \o Forced(before)
                  /\ row.final = Starting + Earned(row.trades)

\* Demo prices and prices of a venue never meet in a trade, whatever the source
\* is switched to between the scan, the entry and the exit: the pair of a trade
\* passes the filter on the client that priced its entry, and a reference
\* price of the exit is of the demo exactly if the entry is
\* (record_manual_trade, close_manual_trade).
DemoStaysApart ==
    \A t \in DOMAIN trades :
        LET trade == trades[t]
        IN  /\ trade.pair \in Cointegrated(trade.client)
            /\ \A leg \in 1 .. 2 : trade.exit[leg] # "none" =>
                   (trade.exit[leg] = "fake" <=> trade.client = "fake")

\* Once the operator asks no more, everything comes to an end: the scan, the
\* runs, the requests and the writes left behind by the settings.
DeskSettles ==
    <>[](/\ ~ scan.running
         /\ \A r \in DOMAIN tasks : tasks[r].pc = "done"
         /\ requests = {} /\ saves = {} /\ clears = {} /\ stops = {})

\* What set_data_source promises: the pairs of the venue in force were found
\* under the source in force, once the switch has cleared the older ones.
PairsOfTheSource ==
    LET table == tables[ActiveExchange(settings.source)]
    IN  clears = {} /\ table.pairs # {} => table.from = settings.source

\* What the venues share is their names: a trade is priced at its entry and its
\* exit by the source of the exchange it is recorded under, as make_data_client
\* asks of a caller that owns a venue, and is stamped with that source.
TradeIsOfOneSource ==
    \A t \in DOMAIN trades :
        /\ trades[t].exchange = ActiveExchange(trades[t].client)
        /\ trades[t].stamp = trades[t].client
        /\ \A leg \in 1 .. 2 : trades[t].exit[leg] \in {"none", trades[t].client}

=============================================================================
