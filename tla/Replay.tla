------------------------------- MODULE Replay -------------------------------
(***************************************************************************)
(* Fast-forward runs: replay/engine.py over db/ff_repository.py, started   *)
(* and stopped by routers/ff.py, fed by replay/historical_feed.py and      *)
(* replay/candle_source.py. simulation/engine.py's run_tick trades on the  *)
(* ledger of replay/working_repo.py.                                       *)
(*                                                                         *)
(* Capital is counted in units of usd_per_trade; a close earns what its    *)
(* reason earns here. Funding, slippage and the equity curve are left out. *)
(***************************************************************************)
EXTENDS Scan

CONSTANTS
    Windows,       \* the windows asked for: <<start, end>>
    DemoWindow,    \* demo_window: the window of a fake run that gives no dates
    CachedBars,    \* OhlcvCache: the hours of each market of an exchange
    ZScore,        \* of each pair of a source, at each hour
    ZWindow,       \* zscore_window
    HalfLife, TimeStopMult, \* of every pair; TIME_STOP_HALF_LIFE_MULT
    Thresholds,    \* of a run: entry, exit, stop
    Starting, MaxActive, \* starting_capital, max_active_pairs
    Earns,         \* the net P&L of a close, by its reason
    ProgressSteps  \* _PROGRESS_STEPS

ASSUME ProgressAssumption == ProgressSteps \in Nat \ {0}
ASSUME WindowsAssumption == {DemoWindow} \cup Windows \subseteq Nat \X Nat

Reasons == {"STOP_LOSS_ZSCORE", "TAKE_PROFIT", "STOP_LOSS_TIME", "END_OF_REPLAY"}
ASSUME MoneyAssumption == Starting \in Int /\ Earns \in [Reasons -> Int]

VARIABLES
    runs,     \* SavedFFSimulation: the rows, in order of creation
    tasks,    \* the locals of run_replay of each row
    stops,    \* stop requests that have read their row and not set the flag
    cancelled \* _cancelled: the runs to be stopped

replayVars == <<runs, tasks, stops, cancelled>>

(***************************************************************************)
(* The feed.                                                               *)
(***************************************************************************)

\* make_candle_source: in fake mode the demo series, whatever the exchange.
CandleSource(exchange) == IF settings.source = "fake" THEN "fake" ELSE exchange
SeriesOf(source, m) ==
    IF source # "fake" THEN CachedBars[source][m]
    ELSE IF m \in ToSet(Universe["fake"]) THEN Bars["fake"][m] ELSE {}

\* What the candles of a run are read for, and its bars follow from.
Feed(task) ==
    [pairs |-> task.pairs, from |-> task.from, source |-> task.source,
     start |-> task.start, end |-> task.end]

\* align_pairs: the shared hours of the legs, warm-up included.
Shared(feed, pair) ==
    SeriesOf(feed.source, pair[1]) \cap SeriesOf(feed.source, pair[2])
        \cap (feed.start - (ZWindow + 2) .. feed.end)
Aligned(feed) == {pair \in feed.pairs : Cardinality(Shared(feed, pair)) >= 2}

\* replay_timeline: every hour of the window that some pair has a bar in.
TimelineHours(feed) ==
    (UNION {Shared(feed, pair) : pair \in Aligned(feed)}) \cap (feed.start .. feed.end)
Timeline(feed) == SetToSortSeq(TimelineHours(feed), <)

\* tick_at: the pairs with a bar at the cursor and a window of them up to it.
Snapshots(feed, cursor) ==
    {pair \in Aligned(feed) :
        /\ cursor \in Shared(feed, pair)
        /\ Cardinality({h \in Shared(feed, pair) : h <= cursor}) >= ZWindow}

(***************************************************************************)
(* run_tick: the exits, then the entries in the order of the scan.         *)
(***************************************************************************)
Size(z) == IF z < 0 THEN -z ELSE z

\* evaluate_exit, most urgent first.
ExitReason(z, age) ==
    IF Size(z) >= Thresholds.stop THEN "STOP_LOSS_ZSCORE"
    ELSE IF Size(z) < Thresholds.exit THEN "TAKE_PROFIT"
    ELSE IF age > TimeStopMult * HalfLife THEN "STOP_LOSS_TIME"
    ELSE "HOLD"

\* A ledger: positions in order of entry, trades in order of exit.
Flat == [open |-> <<>>, trades |-> <<>>, capital |-> Starting]
Unvisited(ledger) == [ledger EXCEPT !.open = <<>>]
Held(ledger) == {p.pair : p \in ToSet(ledger.open)}

Closed(ledger, p, reason) ==
    [ledger EXCEPT !.trades = Append(@, [pair |-> p.pair, reason |-> reason]),
                   !.capital = @ + Earns[reason]]

\* A pair without a snapshot is held until there is one.
Visited(feed, cursor, ledger, p) ==
    LET reason == IF p.pair \in Snapshots(feed, cursor)
                  THEN ExitReason(ZScore[feed.source][p.pair][cursor], cursor - p.since)
                  ELSE "HOLD"
    IN  IF reason = "HOLD" THEN [ledger EXCEPT !.open = Append(@, p)]
        ELSE Closed(ledger, p, reason)

\* A pair that was held at the start of the tick is not entered in it.
Entered(feed, cursor, before, ledger, row) ==
    IF /\ row.source = feed.from
       /\ row.pair \in Snapshots(feed, cursor) \ (Held(before) \cup Held(ledger))
       /\ Len(ledger.open) < MaxActive
       /\ Size(ZScore[feed.source][row.pair][cursor]) >= Thresholds.entry
       /\ Len(ledger.open) + 1 <= ledger.capital
    THEN [ledger EXCEPT !.open = Append(@, [pair |-> row.pair, since |-> cursor])]
    ELSE ledger

Exits(feed, cursor, ledger) ==
    FoldLeft(LAMBDA book, p : Visited(feed, cursor, book, p), Unvisited(ledger), ledger.open)

Entries(feed, cursor, before, ledger) ==
    FoldLeft(LAMBDA book, row : Entered(feed, cursor, before, book, row), ledger, Quality)

RunTick(feed, ledger, cursor) ==
    Entries(feed, cursor, ledger, Exits(feed, cursor, ledger))

\* The bars first .. last of the timeline, one after the other.
Ticks(feed, ledger, first, last) ==
    FoldLeft(LAMBDA book, cursor : RunTick(feed, book, cursor),
             ledger, SubSeq(Timeline(feed), first, last))

\* _close_remaining: at the last bar, or flat if the pair has none there.
LeaveOpen(ledger) == ledger  \* mutant: what is open is not closed
CloseRemaining(ledger) ==
    FoldLeft(LAMBDA book, p : Closed(book, p, "END_OF_REPLAY"),
             Unvisited(ledger), ledger.open)

(***************************************************************************)
(* Requests.                                                               *)
(***************************************************************************)
Task == [pc |-> "start", pairs |-> {}, from |-> "none", source |-> "none",
         exchange |-> DefaultExchange, start |-> 0, end |-> 0, bar |-> 0, ledger |-> Flat]
Row == [status |-> "RUNNING", total |-> 0, processed |-> 0, trades |-> <<>>,
        final |-> 0, asked |-> FALSE]

\* A window may be omitted in fake mode only; the table must not be empty.
CreateReplay ==
    /\ Call
    /\ \E exchange \in Exchanges,
          window \in Windows \cup (IF settings.source = "fake" THEN {DemoWindow} ELSE {}) :
          /\ tables[exchange].pairs # {}
          /\ window[1] < window[2]
          /\ runs' = Append(runs, Row)
          /\ tasks' = Append(tasks, [Task EXCEPT !.exchange = exchange,
                                         !.start = window[1], !.end = window[2]])
    /\ UNCHANGED <<stops, cancelled, settingVars, scanVars, tables, faults>>

\* request_stop reads the row, and sets the flag when the read returns.
StopReplay ==
    /\ Call
    /\ \E r \in DOMAIN runs :
          IF runs[r].status = "RUNNING"
          THEN stops' = stops \cup {r} /\ runs' = [runs EXCEPT ![r].asked = TRUE]
          ELSE UNCHANGED <<stops, runs>>
    /\ UNCHANGED <<tasks, cancelled, settingVars, scanVars, tables, faults>>

SetFlag ==
    /\ \E r \in stops :
          /\ stops' = stops \ {r}
          /\ cancelled' = cancelled \cup {r}
    /\ UNCHANGED <<runs, tasks, settingVars, scanVars, tables, bounds>>

(***************************************************************************)
(* The run. A write that fails ends it FAILED, unless that fails too.      *)
(***************************************************************************)
At(r, pc) == r \in DOMAIN runs /\ tasks[r].pc = pc

Step(r, row, task) ==
    /\ runs' = [runs EXCEPT ![r] = row]
    /\ tasks' = [tasks EXCEPT ![r] = task]
    /\ UNCHANGED <<stops, settingVars, scanVars, tables, calls>>

Goes(r, pc) == [tasks[r] EXCEPT !.pc = pc]

DbFails(r) ==
    /\ Fault("db")
    /\ Step(r, runs[r], Goes(r, "failing"))
    /\ UNCHANGED cancelled

\* The pairs of the latest scan by now, and a source by the setting of now.
ReadPairs(r) ==
    /\ At(r, "start")
    /\ \/ /\ LET exchange == tasks[r].exchange
                 pairs == LatestPairs(exchange)
             IN  Step(r, runs[r],
                      [tasks[r] EXCEPT !.pc = IF pairs = {} THEN "failing" ELSE "load",
                                       !.pairs = pairs, !.from = tables[exchange].from,
                                       !.source = CandleSource(exchange)])
          /\ UNCHANGED <<cancelled, faults>>
       \/ DbFails(r)

\* Candles, funding and volumes; without a bar in the window it fails.
LoadHistory(r) ==
    /\ At(r, "load")
    /\ \/ /\ IF TimelineHours(Feed(tasks[r])) = {} THEN Step(r, runs[r], Goes(r, "failing"))
             ELSE Step(r, [runs[r] EXCEPT !.total = Cardinality(TimelineHours(Feed(tasks[r])))],
                       Goes(r, "walk"))
          /\ UNCHANGED <<cancelled, faults>>
       \/ DbFails(r)

ProgressEvery(r) ==
    IF runs[r].total < ProgressSteps THEN 1 ELSE runs[r].total \div ProgressSteps

\* The bar, at or after the next one, after which the loop writes its progress.
NextReport(r) ==
    CHOOSE i \in tasks[r].bar .. tasks[r].bar + ProgressEvery(r) - 1 :
        i % ProgressEvery(r) = 0

\* The loop does not give way between two writes; it checks the flag there.
Walk(r) ==
    /\ At(r, "walk")
    /\ r \notin cancelled
    /\ tasks[r].bar < runs[r].total
    /\ \/ /\ LET next == IF NextReport(r) + 1 < runs[r].total THEN NextReport(r) + 1
                         ELSE runs[r].total
             IN  Step(r, [runs[r] EXCEPT !.processed =
                              IF NextReport(r) < runs[r].total THEN next ELSE @],
                      [tasks[r] EXCEPT !.bar = next,
                                       !.ledger =
                                           Ticks(Feed(tasks[r]), @, tasks[r].bar + 1, next)])
          /\ UNCHANGED <<cancelled, faults>>
       \/ DbFails(r)

ForgetsWhere(r) == runs[r].total  \* mutant: a stopped run reports every bar
Processed(r) == tasks[r].bar

\* A stop that comes after the last bar is not seen any more.
Finalise(r) ==
    /\ At(r, "walk")
    /\ r \in cancelled \/ tasks[r].bar = runs[r].total
    /\ \/ /\ LET ledger == CloseRemaining(tasks[r].ledger)
             IN  Step(r, [runs[r] EXCEPT
                              !.status = IF tasks[r].bar < runs[r].total THEN "STOPPED"
                                         ELSE "COMPLETED",
                              !.processed = Processed(r),
                              !.trades = ledger.trades, !.final = ledger.capital],
                      Goes(r, "done"))
          /\ cancelled' = cancelled \ {r}
          /\ UNCHANGED faults
       \/ DbFails(r)

Fail(r) ==
    /\ At(r, "failing")
    /\ \/ /\ Step(r, [runs[r] EXCEPT !.status = "FAILED"], Goes(r, "done"))
          /\ UNCHANGED faults
       \/ /\ Fault("db")
          /\ Step(r, runs[r], Goes(r, "done"))
    /\ cancelled' = cancelled \ {r}

ReplayTask(r) == ReadPairs(r) \/ LoadHistory(r) \/ Walk(r) \/ Finalise(r) \/ Fail(r)

\* A restart ends the tasks; their rows stay as they are.
ReplayRestart ==
    /\ tasks' = [r \in DOMAIN tasks |-> Goes(r, "done")]
    /\ stops' = {} /\ cancelled' = {}
    /\ UNCHANGED runs

ReplayStep == CreateReplay \/ StopReplay \/ SetFlag \/ \E r \in DOMAIN runs : ReplayTask(r)

ReplayInit == runs = <<>> /\ tasks = <<>> /\ stops = {} /\ cancelled = {}

=============================================================================
