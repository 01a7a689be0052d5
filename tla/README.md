# Verification of statsArbBot

TLA+ models of the parts of statsArbBot that hold state and run concurrently,
TLC configurations that check them on small instances, and proofs that TLAPS
checks for every value of the constants. Every definition is translated from
the Python under `backend/`; `PROJECT.json` maps each one to its lines.

## 1. The system

statsArbBot trades the spread of cointegrated pairs of perpetual futures. One
FastAPI process (`backend/app.py`) runs everything on one asyncio event loop:
the engines are process-wide singletons, the state that must survive a restart
is in PostgreSQL (`backend/db/`, docs/adr/0003), and the exchange holds the
positions.

| Component | State | Operations | Talks to |
|---|---|---|---|
| Live engine (`trading/engine.py`, `entry.py`, `exit.py`, `bot_agent.py`, `close.py`) | one `asyncio.Lock`; the locals of the pass that holds it | entry scan, exit management, abort, `/cancel`, session start and stop | live rows, trade client, gate, alerter |
| Live rows (`db/live_repository.py`) | `live_trade`, `live_session` | create, close by id, list open | PostgreSQL |
| Trade clients (`exchanges/*/trade_client.py`, `demo.py`) | none; the account is the exchange's | place a market order, cancel all, read positions | dYdX, Hyperliquid |
| Approval gate (`telegrambot/gate.py`, `runtime.py`, `commands.py`) | tokens and their futures; PTB's update loop | request, resolve, timeout; `/cancel` and other commands | Telegram, live engine |
| Simulation (`simulation/engine.py`, `scheduler.py`) | one lock; session, position and trade rows; APScheduler jobs | tick, pause, resume, top up, stop | scan rows, price feed |
| Fast-forward replay (`replay/`) | background tasks, a set of cancelled ids, `SavedFFSimulation` | create, run, stop | scan rows, candle cache, data source |
| Backtest (`backtest/engine.py`) | control flags, the set of running sweeps, strategy rows | run, pause, resume, stop, checkpoint | candle cache, simulation core |
| Campaigns (`backtest/campaign_runner.py`) | control flags, global cost flags, campaign rows | start, drive, pause, stop, finalise | backtest engine |
| Scan (`scan/orchestrator.py`, `state.py`) | the single-flight state; the latest result in a table and a CSV file | start, stop, reset, fetch, test, store | market data, scan rows, data source |
| Signals and statistics (`statcore/`) | none | entry and exit decisions, regressions | - |
| Ingest (`ingest/`, `routers/data.py`, `scripts/`) | candle and funding cache, CSV files, the fetch job | fetch, cancel, merge, replace, refresh, gap fill | exchanges, PostgreSQL |
| Market data (`marketdata/`, `exchanges/*/client.py`) | none | walks over a range, price matrix, fresh closes | exchanges |
| Manual trades (`routers/manual.py`, `manual/`) | manual trades | record, close, delete | scan rows, market data, data source |
| Configuration (`config.py`, `routers/system.py`) | data source, scan floor, thresholds and their saved history | set, save, reload at start-up | everything that reads them |
| Authentication, statistics reports, UI | - | - | - |

### What is hard

- *Interleaving at awaits.* Coroutines of HTTP handlers, Telegram handlers and
  scheduled jobs alternate at every `await`. The locks of the live engine and
  the simulation serialise the passes; the session calls, the gate's `resolve`,
  the backtest's control flags and the router's scheduler calls are outside.
- *The exchange.* An answer to an order means acceptance on dYdX and a fill on
  Hyperliquid, and there perhaps of a part only. Reads fail and then look like
  an empty account. An order can take effect while its reply is lost. Positions
  close without the bot.
- *Two stores.* Rows and positions are written one after the other; nothing
  reconciles them at start-up. Trade row, position row and capital of a
  simulation are three writes.
- *People.* The operator taps late, twice, on an old message, or not at all,
  and sends `/cancel` while a prompt is open.
- *Settings that change under long work.* The data source may be switched while
  a scan, a replay or a manual trade is between two of its reads.
- *Long work in pieces.* A fetch is hundreds of pages, a scan many chunks, a
  replay many bars. Any page may fail, a stop may come between any two, and the
  cache is rewritten by scripts of another process meanwhile.
- *Restarts.* Locks, futures, control flags and jobs are lost; rows, messages
  and positions stay.

### What each component must keep

- Live engine: passes never interleave; one OPEN row per pair; a closed row is
  final; no leg is on the account that no row, entry, pending order or alarm
  accounts for; RECONCILED means gone; every pass ends.
- Gate: only what the operator approved executes; one request outstanding;
  nothing waits for ever.
- Simulation: money is conserved; no P&L or funding is counted twice; limits
  and margin; STOPPED is final; the job follows the status.
- Backtest and campaigns: a resumed sweep equals an uninterrupted one; no
  window or trade twice; the global cost flags are restored; a control request
  is not lost; no row stays RUNNING without a task.
- Scan and replay: the final status agrees with what was done and stored; a stop
  is reported only if it left something out; pairs stand under the venue they
  were found on; everything ends.
- Settings: thresholds in force survive a restart; a switch of the source leaves
  no pairs of the old one.
- Manual trades: a trade's prices, exchange and source belong together; demo
  prices and prices of a venue never meet in one.
- Ingest: only clean bars are cached; a walk has no holes; a fetch touches its
  window only and loses no cached bar; the job reports what it did.
- Signals: exit reasons in the order stop-loss, take-profit, time stop.

`PROJECT.json` lists the hazards, each at the line where it bites.

## 2. Modules

| Module | Models | Runs |
|---|---|---|
| `TradeAccount` | the account behind `TradeClient`, for both kinds of client | with `LiveTrading` |
| `LiveTrading` (extends `TradeAccount`) | the four passes, the sessions, the rows, crashes and database errors | `live_*` |
| `MCLiveTrading` | two pairs that share a market; one pair; symmetry | `live_*` |
| `LiveTradingProofs` | theorems on `LiveTrading`: lock, queue and rows | TLAPS |
| `LiveTradingLegsProofs` (extends `LiveTradingProofs`) | theorems on `LiveTrading`: the account | TLAPS |
| `ApprovalGate` | tokens, futures, the timeout, the update loop, `/cancel` | `gate` |
| `ApprovalGateProofs` | theorems on `ApprovalGate` | TLAPS |
| `SimSession` | a paper-trading session, its controls, its job | `sim`, `sim_ledger` |
| `SimLedger` | what a session promises, without rows, ticks and locks | `sim_ledger` |
| `MCSimSession` | instances of `SimSession` | `sim`, `sim_ledger` |
| `SimSessionProofs` | theorems on `SimSession`, and its refinement of `SimLedger` | TLAPS |
| `Backtest` | sweeps of strategies: claim, control flags, writes, failures | with `Campaign` |
| `Campaign` (extends `Backtest`) | the drivers of campaigns over the same engine | `campaign` |
| `MCCampaign` | one campaign of two members; two campaigns; symmetry | `campaign` |
| `CampaignProofs` | theorems on `Backtest` and `Campaign`, composed | TLAPS |
| `DataClient` | page-by-page walks over a range of candles, cleaning rules | with `Ingest` |
| `Ingest` (extends `DataClient`) | the fetch job, the scripts, the cache and the CSV files | `ingest`, `ingest_loss` |
| `MCIngest` | two markets with gaps and dirty bars | `ingest`, `ingest_loss` |
| `IngestProofs` | theorems on `DataClient` and `Ingest` | TLAPS |
| `Scan` | the run-time settings and the cointegration scan | with `Desk` |
| `Replay` (extends `Scan`) | fast-forward runs over the cached bars | with `Desk` |
| `Manual` (extends `Scan`) | manual trades: record, close, delete | with `Desk` |
| `Desk` (extends `Replay`, `Manual`) | their composition in one process, restarts | `desk`, `scan_switch` |
| `MCDesk` | three sources, six market names, two of them listed by both venues, six bars | `desk`, `scan_switch` |
| `DeskProofs` | theorems on `Scan`, `Replay`, `Manual` and `Desk` | TLAPS |
| `ReplayProofs` (extends `DeskProofs`) | theorems on the books of the replays | TLAPS |

### TradeAccount and LiveTrading

A handler is a process with a record of locals, `pass[p]`; `pc` names the await
it is at, and `waiting` is the queue of the engine lock with its holder first.
An action is what the coroutine does from one await that matters to the next.
A read whose answer nobody else can change meanwhile is joined to the step
after it: rows are written only by the holder of the lock.

- Entry: `EntryStart` takes the two snapshots of `scan_for_entries` (positions,
  open pairs); `EntrySkip` and `EntryApproved` decide one pair; `PlaceLeg1`,
  `AwaitLeg1`, `PlaceLeg2`, `AwaitLeg2` and `Failsafe` are
  `BotAgent.open_trades`; `RecordLive` and `RecordError` write the row.
- Exit: `ExitReconcile`, `ExitOrphan`, `ExitHold`, `ExitApproved`, the two
  closes, and then `ExitPersist` or `ExitKeepOpen`.
- Abort: `AbortStart` (cancel orders, read positions), `AbortClose`,
  `AbortEscalate`, `AbortMark`. `/cancel`: `CancelStart`, its legs, and
  `CancelPersist` or `CancelEscalate`.
- The account: `Accepted` and `Refused` are the two answers of
  `place_market_order`. With `Deferred` an accepted order is `inflight` until it
  fills or expires; without, it executes at once. A refused order may have taken
  effect ("lost").
- Fills in part ("partial"): Hyperliquid's orders are immediate-or-cancel,
  `_parse_fill` returns the size that was filled, and
  `OrderResult(size=filled_sz)` says so (`trade_client.py:117-134`, `164-175`). No
  caller looks at that size: the bot polls for a position, `manage_exits`, abort and
  `/cancel` ask only whether the answer is None. So any positive part of an order
  counts as done (`FilledLots`), the rest is dropped, and an entry that was filled
  in part is closed like a whole one. The auxiliary `shortfall` counts, for each
  market, the lots still held that closes taken for done did not close.

Abstractions. Every leg has the same notional, `LegLots` lots. Prices,
P&L, Z-scores and formatting are left out: a signal fires or not. The gate
answers yes or no. A read of the positions gives the account as it is or, when
it fails, nothing; it never gives an older account. `alarmed` records the
markets a CODE RED has named while they are exposed. `ConnectFails` ends a pass
of any kind at its start. `BotAgent.mark_error` has no caller. The demo client
answers as the Hyperliquid one does; that its openings replace a position and its
closes remove the whole of it, whatever the size (`exchanges/demo.py`), is left
out.

### ApprovalGate

`prompts` has one record per `request`: token, future, what Telegram shows, the
answer. `pending` is the gate's registry. `Ask`, `SendReturns`, `SendFails`,
`Timeout`, `Expire`, `Decide` and `Return` are the awaits of `request`. In
Python 3.12 the timer of `wait_for` may win against a future that has a result
which the waiting task has not seen, so `Timeout` does not ask for an open
future. `HandleTap` is `_on_callback` with `resolve`; `HandleCancel` takes up a
`/cancel`, which then queues for the engine lock, and PTB takes up no further
update before it is done (`concurrent_updates` is not set). A posted message
whose edit failed keeps its buttons. A restart empties the registry; the inbox
survives or is lost. A timeout of zero rejects without a step and is left out.

### SimSession and SimLedger

One session: sessions share nothing but the lock. The rows are `status`,
`capital`, `lastTick`, `positions` (each with the number of its trade rows) and
`realised`, the sum of `net_pnl` over the trade rows (the aggregate of
`list_sessions`), and `stoppedAt`. A stop is not refused for a STOPPED session: it
writes status and `stopped_at` again (`simulation/engine.py:538-540`). A tick accrues funding, walks the open positions oldest
first, opens new ones and writes the capital last; every write is a step. Money
is in units of `usd_per_trade`, and a close realises any member of `PnLs`. The
router's scheduler call shares a step with the release of the lock: no await
lies between them. Tick counts are left out.

`SimLedger` has a fund, a book of open pairs and a phase; `SimSession` maps to
it with the fund as starting capital, top-ups and realised P&L, and a position
in the book until it has its trade row.

### Backtest and Campaign

A window is its index. The rows of a strategy are `status`, `processed` (the
resume cursor), `recorded` (the windows in its aggregates, written in one update
with the cursor and the carried capital) and `blotter` (the batches of trades by
window, a separate insert). `sweep[s]` has the locals of `run`: its pc is the
database call or fetch it is at. `Claim` is the check and add of `_running`;
`ReadRow` decides between resuming and a fresh start; `TradeWindow` is the end of
the scan, the replay (which never gives way: `WorkingSimRepository` is in memory)
and the insert; `Checkpoint`, `Finalise` and `Fail` write the row; `Ranked` is what
follows the status of a finished sweep (`recompute_ranks` and the read of the row),
whose exception leads to `Fail` like any other; `End` is the `finally`. A request reads the row (`Request`) and sets the flag later
(`SetFlag`). `Load` fails when the cursor is past the last window, as
`windows[cursor_idx]` does.

`driver[c]` has the locals of `_drive`. `Begin` takes over the process-global
cost flags, `Mark` writes RUNNING, `ListRunning` and `Normalise` repair members,
`Launch` and `PassOver` are `run_one` with its slot, `Decide` and `WriteVerdict`
are `_finalise`, `DriverEnd` is the `finally`. The router may run, pause and stop
the members of a campaign by themselves, and does so in the runs. `signal[c]` is
a pause or stop on its way through the members; a campaign has one at a time
here. After a restart campaigns left RUNNING are driven again, or not (best
effort). The error of a sweep may come at any of its awaits.

A strategy is deleted in two steps (`Delete` reads the status, `DeleteRow`
deletes the row and its trades), so a sweep may go on over a row that is gone: its
updates have no effect, and an insert of trades raises. A campaign is deleted in
one call; its members are detached, and a driver it has goes on without them.
Strategies are not edited.

### DataClient and Ingest

A bar is its hour and the cleaning rules it breaks; the exchange's history is a
constant. A walk is `[cursor, got]`; one page advances it, backwards on dYdX and
forwards in chunks on Hyperliquid (`fetch_ohlcv_range` of the two clients). Whether
the indexer includes the end of a range is left open, and a Hyperliquid snapshot
is taken to answer from the oldest bar of its chunk. A page that fails on every
retry is an empty page, as in the code.

`job` is `_state` of `historical_fetch` with the locals of `_run`: `Discover`,
`NextMarket` (the loop with its cancel), `FetchPage`, `MergeCandles`,
`MergeFunding`. `script` is a process beside it: `GapPlan`, `GapFill`, `GapJudge`
are `gapfill_cache.py`; `Ingest*` are `pipeline.py`; `Refresh*` are
`refresh_dydx_data.py`. Each write of the cache is one transaction
(`cache_repository.py`). The markets still to do are a set, taken in listing order
(`First`). Abstractions: one script at a time; a funding walk, and
the walk of a refresh, is one step with all the results it may have; the two data
directories of the scripts are one set of files; funding ingest is on.

### Scan, Replay, Manual and Desk

The four share the settings, which the code reads again at each step, and the
table of the latest scan. `settings` is `config.py`'s process state, `history`
the saved thresholds; a request that writes a row after an await leaves an entry
in `saves` or `clears` until the write. Z-scores and thresholds are twice the
code's values, so that halves are integers.

- Scan: `scan` is `SCAN_STATE` with the locals of `run_scan`. `ScanBegins` reads
  the source and the exchange, `FetchMatrix` is discovery, fetch and
  `build_price_matrix` (only markets with every hour stay), `TestChunk` one chunk
  with the checkpoint after it, `StoreRows` and `WriteCsv` the two writes. Which
  pairs of a source are cointegrated, and how good they are (`Quality`, the order in
  which a table is read back and a replay enters pairs), is given; what is tested,
  found and stored are sets. Volumes, bars and Z-scores belong to a source, because
  the venues share names and mean different markets by them.
- Replay: `runs` are the `SavedFFSimulation` rows, `tasks` the locals of
  `_replay`. `ReadPairs` and `LoadHistory` are its reads; `Walk` goes from one
  progress write to the next, as the loop gives way nowhere else; each bar is
  `RunTick` (exits in the order stop-loss, take-profit, time stop, then entries
  within slots and margin); `Finalise` closes what is left. Capital is in units of
  `usd_per_trade`, and a close earns what its reason earns in the instance.
- Manual: `requests` are the handlers under way, `trades` the rows. A recording
  takes the exchange of the body, reads the pair in that exchange's table and makes
  a client of the source in force, whatever the exchange (`RecordReads`); it
  re-validates the pair on that client's closes and writes it with the source of
  that moment as its stamp (`RecordCreates`). A close makes a client of the source in
  force then, prices each leg that this client lists, or fails to, and writes by id;
  `exit` has the source of each leg's reference price. The limits of the filter that
  a request's body may tighten or loosen are taken as the scan's.
- Desk: `Restarting` drops every task, keeps the rows and reloads the thresholds.

Ghosts serve the properties only: `sure` (the last saved thresholds must be those
in force), `asked` (a stop was requested) and `stored`. The
list of manual trades reads the venue in force while the portfolio reads the
default exchange (`routers/manual.py:230`, `246`): a difference met while
modelling, and no property speaks of it.

## 3. Runs

| Run | Instance | Shows |
|---|---|---|
| `live_prompt` | 1 handler, 2 pairs that share a market, 2 rows, legs of 2 lots, prompt fills in full or in part, positions closed outside | `OnlyShortfallsLeak`, `ReconciledMeansGone` |
| `live_faults` | 2 handlers, 1 pair, 2 rows, failing reads, lost replies, closed outside, one crash or database error | `TypeOK`, `SerialPasses`, `OneOpenRowPerPair`, `RowsAreFinal` |
| `live_fair` | 2 handlers, deferred fills, orders that outlive the deadline | `PassesEnd` |
| `live_naked` | deferred fills, no fault | *violated*: `LegsAccountedFor` |
| `gate` | 2 passes, 2 prompts, 2 updates, 1 restart | `TypeOK`, `ExecutedWasApproved`, `OneOutstanding`, `AllServed` |
| `sim` | 2 handlers, 2 pairs, 1 slot, 3 rows, 1 top-up, 1 hour, one crash or database error | `TypeOK`, `CapitalBalances`, `OneTradeEach`, `FundedOnce`, `WithinLimits`, `JobMatchesStatus`, `StoppedIsFinal` |
| `sim_ledger` | 2 handlers, 2 pairs, 2 slots, 3 rows, no failure | `ImplementsLedger`, `StopServed` |
| `campaign` | 1 campaign, 2 members, 1 slot, 2 windows, 3 requests, one crash or exception | `TypeOK`, `RowIsAPrefix`, `BlotterMatchesRow`, `RunningIsDriven`, `HonestCosts`, `FlagsRestored`, `NothingSkipped`, `NobodyWaits` |
| `ingest` | 2 markets, 5 hours with a gap and dirty bars, pages of 2, one fetch, one script, one fault, caches and files empty or filled | `TypeOK`, `OnlyClean`, `WalkIsComplete`, `FetchRefreshes`, `JobIsHonest`, `EverythingEnds` |
| `ingest_loss` | the same, one fetch alone, one lost page | *violated*: `NoDataLoss` |
| `desk` | 3 sources, 6 market names (2 shared by the venues), 6 bars, 3 requests, one fault or restart, tables empty or filled | `TypeOK`, `ThresholdsSurvive`, `ScanIsHonest`, `ReplayIsHonest`, `DemoStaysApart`, `DeskSettles` |
| `scan_switch` | the same, no fault | *violated*: `PairsOfTheSource` |

### Bounds

- Rows, prompts, updates, top-ups and hours count up for ever in the code and
  are capped by a guard of the action that adds one (`MaxTrades`, `MaxPrompts`,
  `MaxUpdates`, `MaxTopUps`, `MaxRows`, `MaxHours`, `MaxSessions`). Two rows let
  a pair be opened, closed and opened again, or two pairs be open together; a
  third row in `sim` lets a pair return while another has its slot.
- Two handlers are enough for every race on a lock: with a first-come queue a
  third only waits longer. The theorems (section 5) have none of these bounds.
- `MaxDowns` = 1: a failure at each point of a pass and all that follows.
- `MaxCalls` = 3 in `campaign`: run, pause, run again, or start, pause, resume,
  or a manual run or a delete inside either. Two windows give a cursor between none and all;
  two members for one slot give a queue.
- `MaxHours` = 1 in `sim`: two ticks in one hour and a tick before it is what a
  double charge needs. In `sim_ledger` time stands still, as the ledger has none.
- `MaxCalls` = 3 in `desk`: start, stop and something beside them; a scan, a
  switch and a trade; two saves of the thresholds and a third request. The
  stored scans of `TablesBefore` put replays and trades first, without a scan.
  Three markets give three pairs and two chunks; six bars give an entry, a
  take-profit, a second entry and a stop-loss; a progress write comes every
  second bar.
- `MaxFetches`, `MaxScripts` = 1 in `ingest`: one fetch beside one script, over
  caches that earlier ones filled (`FilledBefore`, `OnDiskBefore`). Two pages
  make a window, with a hole in it; `MaxSpan` = 3 leaves bars outside it;
  `MaxPasses` = 5 is more than the three equal counts of a plateau. `MaxFaults`
  = 1: a fault at each step.
- `live_prompt` has one handler, because passes are serial (`SerialPasses`,
  proved); its two pairs share a market, which is where legs could be confused.
  `LegLots` = 2 in `live_prompt` and `LivePartial.cfg`: an order is filled whole or
  by half. The others have no fills in part, and one lot.
- Of the names in `desk` two are listed by both venues, as dYdX and Hyperliquid
  share BTC and others; one of them is too small for the scan on Hyperliquid, and
  its Z-scores differ from dYdX's.

The conditions of a property are part of it: `CapitalBalances`, `OneTradeEach`,
`FundedOnce` and `JobMatchesStatus` hold up to the first crash or database error;
section 4 says what a crash does. `BlotterMatchesRow`, `RunningIsDriven` and
`FlagsRestored` hold up to the first failure too: after one, a resumed window may
be inserted twice, a row that no campaign repairs stays RUNNING, and a driver that
fails before its `try` leaves its flags. `HonestCosts` and `FlagsRestored` hold
for one campaign at a time; section 4 shows two. `NobodyWaits` speaks of states in
which the event loop has no step left, and needs no fairness. `OnlyShortfallsLeak`
is checked with prompt fills and without failing reads and lost replies: with
deferred fills `live_naked` shows a naked leg, a failing read makes an abort or
a fill wait leave a leg behind (`trading/bot_agent.py:100`,
`trading/engine.py:140`), and a crash between the fills and the row does too
(`trading/entry.py:163`). It allows what a partly filled close left, because the
code leaves that: `LegsAccountedFor`, which allows nothing, is the promise of
`bot_agent.py`, and section 4 shows it broken with either kind of client.
`NothingElseLeaks` and `Reconciled` prove the two for every instance under the same
kind of hypotheses (section 5). `StoppedIsFinal` lets a second stop write the
status and a later `stopped_at`; no doc says that it is a no-op, and the test of a
terminal session (`tests/test_sim_api.py:155`) asks it of pause, resume and top-up
only. `ThresholdsSurvive` excuses a failed save and two
overlapping saves (`sure`); `ReplayIsHonest` excuses a RUNNING row after a
failure, since nothing at start-up looks at `SavedFFSimulation`: without these
conditions TLC finds a counterexample, and no doc promises more. `FundedOnce`
excuses the tick that follows a failed one, which charges its hours again.
`WalkIsComplete` and `FetchRefreshes` except the bar at the very end of a window,
which an exclusive end or the snapshot's cap may miss, and a walk that lost a page;
what a lost page does to the cache is `NoDataLoss` (section 4). `DemoStaysApart`
does not say that the recorded exchange and stamp are those of the prices, which
`TradeIsOfOneSource` does (section 4).

### Fairness

`live_fair`, `gate` and `sim_ledger` assume weak fairness of each handler's next
step and, in turn, of the end of an order in flight and of the update loop. The
code justifies it: asyncio resumes a coroutine whose await has an answer; each
await of a pass is a call with a client timeout, a sleep, a bounded wait
(`MAX_ORDER_WAIT_SECS`, the approval timeout) or the lock, which is first come
first served; an order fills or passes its good-til block. `ingest` assumes it of
the fetch job and of the running script, whose retries are bounded; `desk` of the
scan, of each replay and of the writes that requests leave behind. A step of a
scan or a replay is enabled exactly while its task lives, and its fairness is
written out so (`[]<>` not alive, or `[]<>` a step), because ENABLED would compute
the step. Nothing is assumed of the operator, of requests, of Telegram's
deliveries or of the clock.

## 4. What the violations say

Three runs check a sentence of the docs and find the code at odds with it; the
`findings` of `PROJECT.json` quote the sentences and tell the traces.

1. *The failsafe is not awaited* (`live_naked`): "guarantees the account is
   never left with a naked single-leg position" (`trading/bot_agent.py:4-5`).
2. *A lost page deletes cached bars* (`ingest_loss`): "a fetch extends/refreshes
   coverage with no data loss" (`ingest/historical_fetch.py:6-8`,
   `routers/data.py:101-102`), yet a page that fails on every retry counts as a page
   without bars, and the merge first deletes the whole window.
3. *Pairs of the old source* (`scan_switch`): a scan in flight stores its pairs
   after the switch has cleared the table (`routers/system.py:76-78`, `93`).

Eight more have a configuration and no run of the project; each gives a
counterexample within a minute by `tlc -config X.cfg M`:

4. *A failsafe filled in part* (`LivePartial.cfg`, `MCLiveTrading`,
   `LegsAccountedFor`): "guarantees the account is never left with a naked single-leg
   position" (`trading/bot_agent.py:4-5`), yet with Hyperliquid's client a close of
   which half is filled returns an `OrderResult`, which every caller takes for the
   whole. The trace: leg 1 fills, leg 2 is refused, the failsafe is filled by half,
   the row is ERROR, no alarm stands, and half a leg is held.
5. *A failed read reconciles* (`LiveReconcile.cfg`, `MCLiveTrading`,
   `ReconciledMeansGone`): a read that fails answers `{}`, and a pair is written
   off as closed outside the bot while both legs are live (`trading/exit.py:88`).
6. *"Recorded." of a tap without effect* (`GateRecorded.cfg`, `ApprovalGate`,
   `RecordedDecides`): a token is known from before its message is sent until after
   its timeout has been announced (`telegrambot/gate.py:94-119`).
7. *A restart loses P&L* (`SimCrash.cfg`, `MCSimSession`,
   `ResumesWhereItLeftOff`): "resumes exactly where it left off"
   (`simulation/engine.py:10-12`), yet the capital is written at the end of a tick.
8. *Overlapping campaigns leak cost flags* (`CampaignFlags.cfg`, `MCCampaign`,
   `FlagsRestored`): "restores them in a finally"
   (`backtest/campaign_runner.py:13-16`).
9. *The gap filler fills nothing* (`IngestGapfill.cfg`, `MCIngest`,
   `PlateauMeansNothingToFill`): "It stops when every active market is current
   (``need=0``) or when the remaining count plateaus across passes (the rest are
   within publish-lag or delisted)" (`scripts/gapfill_cache.py:19-21`), yet
   `_fetch_one` is called without the exchange it requires (line 129), every call
   raises and is logged, and the script stops at a plateau with all of them behind.
10. *A re-run of the ingest drops bars* (`IngestRerun.cfg`, `MCIngest`,
   `RerunIsSafe`): "each call replaces all rows for ``(exchange, market, resolution)``
   so re-running the ingest is safe" (`ingest/cache_repository.py:9-10`), yet the bars
   that a fetch or the gap filler cached after the files were written are replaced
   too (`ingest/pipeline.py:151`).
11. *A trade of two sources* (`DeskSource.cfg`, `MCDesk`, `TradeIsOfOneSource`):
   "**Pass ``exchange`` whenever the caller owns a persisted venue** [...] those legs
   fetch *successfully* from the wrong exchange" (`exchanges/__init__.py:17-23`) and
   "Stamp the active data source so demo trades stay separable from live ones"
   (`routers/manual.py:198-199`), yet record and close call `make_data_client()` of
   the source in force (lines 139, 348). The trace: the source is dydx, a pair of the
   Hyperliquid table with names that dYdX lists too is asked for, and it is priced and
   validated by dYdX and recorded under hyperliquid.

Four disagreements met in `Campaign` have neither: a finished sweep left RUNNING
by a crash becomes FAILED when resumed (`backtest/engine.py:252`); a member
launched a moment before a stop is not stopped, against "in-flight ones stopped"
(`backtest/campaign_runner.py:80`); a window inserted before a crash and its
checkpoint is inserted again (`backtest/engine.py:442`); an exception of the ranks
writes FAILED over a finished sweep (`backtest/engine.py:497`).

## 5. Proofs

Eight modules hold theorems. Each proves the properties its runs check for every
value of the constants: any number of handlers, pairs, markets, windows, hours,
faults and requests. The pattern is the same everywhere. The property alone is
seldom inductive; an invariant `IInv` (or one on top of it) says what the code
relies on between two awaits, each action has a lemma or a step that shows it
kept, theorem `Invariance` puts them together, and the property follows. Every
inductive invariant was first checked by TLC on the instance of its run.

The assumptions are those named in the modules. Most bound nothing but types
(`MaxTrades \in Nat`). The others are facts of the code: a pair has two
different legs (`PairsAssumption`); a leg is at least one lot (`LotsAssumption`); no
venue lists a market of a demo name (`DemoAssumption`: DEMO1-USD, NOISE1-USD; the
venues may share names among themselves); a table stored by an earlier process has pairs of its own venue
(`TablesAssumption`); a window of a replay is a pair of hours
(`WindowsAssumption`); what a replay starts with and what a close earns are
whole amounts (`MoneyAssumption`); the pairs that pass the scan's filter come in
an order of quality, each a pair of listed names of one source
(`QualityAssumption`). A hypothesis that the code does not
justify stands in the theorem itself, where the reader sees it.

### LiveTradingProofs: lock, queue and rows

`TypeCorrect`, `Serial` (`SerialPasses`), `OneRow` (`OneOpenRowPerPair`) and
`Final` (`RowsAreFinal`), for either kind of client and every fault.
`OneOpenRowPerPair` alone is not inductive: a step that records a live pair keeps
it only if the pair is not OPEN already, which the pass decided several awaits
before. `IInv` adds what makes that old answer good: only the head of the queue
is in a pass (so nobody else has written), the open pairs that an entry scan
remembers include all that are OPEN now, the pair it is opening is not among
them, and the rows an exit, an abort or a `/cancel` has in hand are OPEN.

`InTurn` is about progress: every request stands in the queue of the lock, once;
nobody is overtaken; only the head moves, and each of its steps, whatever the
exchange answers, leaves its pass fewer pairs, rows or markets, or brings it nearer
to the head of its loop or to its end (`PassAdvances`). A pass that takes its steps
thus leaves the lock, and then the next in the queue has it.

### LiveTradingLegsProofs: the account

- `PromptFills` and `Reconciled` (`ReconciledMeansGone`), under `Prompt`: the
  client answers with the fill, and reads of the positions do not fail. Lost
  replies, closes from outside, crashes and database errors are allowed.
- `NothingElseLeaks` (`OnlyShortfallsLeak`), under `Safe`: the client answers with
  the fill, and the only faults are fills in part, orders that outlive the deadline
  and closes from outside.

The hypotheses are needed. Without prompt fills `live_naked` breaks
`LegsAccountedFor` with no shortfall at all, with failing reads `LiveReconcile.cfg`
breaks `ReconciledMeansGone`, and section 3 names the lines where a failing read or a
crash leaves a leg behind. The theorem does not say that no leg is left naked:
`LivePartial.cfg` shows one. It says that the rest of a partly filled close is the
only thing the four passes lose, and where orders are filled in full or not at all
(no "partial", so `shortfall` stays 0) that they lose nothing.

`FillsOK` carries `Reconciled`: nothing is in flight, and a market that a closing
pass believes flat is flat, because only passes open positions and it has the
lock. `LegsInv` carries `NothingElseLeaks`. `OnlyShortfallsLeak` counts the claims on
a market (OPEN rows and the entry under way, each for `LegLots`) against what is held
beside its shortfall (`Held`), and is not inductive, since two pairs may share a leg:
a step that ends a claim keeps it only if a leg's lots went too, or into the
shortfall. So `Covered(m, n)` says that a market is covered with n legs to spare, and `Spare` names the markets on which the pass in hand has one: a leg
it claims and has not bought yet, or has closed while its row still claims it. The
rest of `LegsInv` says why an abort and a `/cancel` may mark a row: every leg was
closed, was flat, or is alarmed.

### ApprovalGateProofs

`TypeCorrect`, `Approved` (`ExecutedWasApproved`), `Outstanding`
(`OneOutstanding`). That one request is outstanding is not inductive by itself:
the invariant says that a registered token is that of the lock's holder, and that
a pass outside a request has none. A token names its prompt, on the button as in
a tap in the queue, so a tap on an old message decides nothing; a future that
says "approve" had "approve" as its first tap.

### SimSessionProofs

`TypeCorrect`, `Limits` (`WithinLimits`) and `Final` (`StoppedIsFinal`) hold
whatever fails: never more open positions than slots or two on a pair (the margin at
an entry is part of the refinement below), and a STOPPED session whose books nothing
changes, though another stop stamps it again, with a time that is not earlier. Their invariant: the lock holder alone works, the rows it has
still to visit together with those it holds are all the open rows, the pairs it
knows at the entries are those open, and the hour of its tick is not before the
last one. On top of it, up to the first failure: `Balanced` (`CapitalBalances`:
what a pass carries is the difference between the rows and the capital it has not
written yet), `Realised` (`OneTradeEach`), `Funded` (`FundedOnce`) and `Scheduled`
(`JobMatchesStatus`). `Implements`: with `Faults = {}`, `Spec => ImplementsLedger`,
step by step: every step is a step of `SimLedger` or a stutter.

### CampaignProofs

`TypeCorrect`, `Prefixed` (`RowIsAPrefix`), `Driven` (`RunningIsDriven`),
`Complete` (`NothingSkipped`), `Booked` (`BlotterMatchesRow`). The invariant: from
the first update of a fresh start to its end a sweep owns the row (`Owning`), so
cursor and locals agree; what the row records is the prefix before its cursor,
and a sweep's own list is that prefix, or one longer between insert and
checkpoint; a driver repairs only its own members and its sweeps run only while
it waits for them. `BlotterOK` adds that the inserted batches are those before the
cursor and the one ahead of it. `Honest` (`HonestCosts`) and `Restores`
(`FlagsRestored`) assume `SoleCampaign`: `CampaignFlags.cfg` shows that two
campaigns break it.

`Progress` is `NobodyWaits` with guards in place of ENABLED: `Ready` says that some
step of engine, drivers or signals has its guard, and TLC confirms on the instance
that `Ready` is exactly `ENABLED LoopStep`. When nothing is ready, nobody is left
waiting for a slot or for a member. It needs `Released`: a sweep that is over has no
owner, and a signal that is over is the empty one. `SweepsEnd` gives a sweep a
number of steps to go (`StepsLeft`, at most three for each window and nine more)
that every step of its own lowers and that nobody else changes.

### IngestProofs

`TypeCorrect`, `Walked` (`WalkIsComplete`), `Cleaned` (`OnlyClean`), `Reported`
(`JobIsHonest`) and `Refreshes`, the action property `FetchRefreshes`: a fetch changes
its window only, and after a walk without a lost page the window has every usable
bar but perhaps the last. A walk is
complete because at each page what it has passed is within what it has got
(`WalkOK`), on either venue; the files hold published bars, so every writer cleans
what the exchange has published; the job's counts are those of the markets with a
result (`TallyOK`).

`FetchEnds`: each step of the fetch job, whatever page it gets or loses, ends it,
leaves it fewer markets, or moves the cursor of its walk towards the end of the
range and not past it. Nothing of the kind holds of the scripts: the gap filler
repeats its passes until a plateau or `MaxPasses`.

### DeskProofs

`Survives` (`ThresholdsSurvive`): thresholds that are sure were saved last, or
theirs is the only save to come. `Honest` (`ScanIsHonest`): what a scan has
found are the survivors of what it has tested, at each chunk, and a stored table
is what was found, of markets of one source. `Ended`: the status part of
`ReplayIsHonest`, which `ReplayProofs` proves whole. `Apart`
(`DemoStaysApart`): a pair that was validated on a client is listed by it, a leg is
priced at the exit by a client that lists it, and demo names are the demo's alone, so
a trade is of the demo on all sides or on none, whatever is switched in between.
`TypeCorrect` has the hypothesis `Valid(EnvThresholds)`, because `config.py`
checks the thresholds of a request and not those of the environment.

`WorkEnds`: a scan and a replay go through their stages in one direction (`ScanStage`,
`RunStage`), whatever fails or is stopped; within a stage a scan has fewer pairs left
to test, and a replay fewer bars left to walk, of which it never walks past the last
(`WithinTimeline`).

### ReplayProofs: the books of a replay

`HonestReplays` (`ReplayIsHonest`): the row of a replay that ended or was stopped
tells the trades of exactly its first `processed` bars, one forced close for each
position they left open, and the capital these earned, for any history of prices,
any thresholds and anything a close may earn. Its inductive invariant `BooksOK`
(`Bookkeeping`) says it of a replay that is still walking: the ledger in hand is the
fold of the bars so far, although it was computed in portions between progress
writes. When the replay ends, its row gets the trades of that ledger, a forced close
for each position in it, and the capital of them all, which is the start and what
they earned because every bar keeps that balance.

All of this is folded over bars, positions and pairs. The library's induction
theorems take an operator and cannot be used here, so the module proves induction
for a *set* of naturals (`Induct`, from the well-foundedness of `<`), and with it that
a fold over a sequence is the last value of a *trail*: a function that starts at the
base and makes one step for each element. `TicksCompose` (portions compose),
`TicksBalance` (each bar keeps the balance of capital and trades) and `ClosingBooks`
(the forced closes) are then lemmas about trails.

### Only model-checked

- Liveness: `PassesEnd`, `AllServed`, `StopServed`, `EverythingEnds`,
  `DeskSettles`. TLAPS has no rule here for fairness. `InTurn`, `SweepsEnd`,
  `FetchEnds` and `WorkEnds` prove the part of it that does not need fairness:
  every step of a pass, a sweep, a fetch, a scan or a replay brings it nearer to its
  end.
- `NobodyWaits` as stated, with ENABLED; `Progress` proves it with guards.
- `OnlyShortfallsLeak` and `ReconciledMeansGone` outside `Safe` and `Prompt`, where
  they are false.

## 6. Plan

1. *Done*: `TradeAccount`, `LiveTrading`; `ApprovalGate`; `SimSession` and
   `SimLedger`; `Backtest` and `Campaign`, composed; `DataClient` and `Ingest`;
   `Scan`, `Replay` and `Manual`, composed in `Desk`.
2. *Done*: every safety invariant and action property of the runs proved, under the
   hypotheses that section 5 names, `NobodyWaits` with guards in place of
   ENABLED; the refinement of `SimLedger`; that passes, sweeps, fetches, scans and
   replays get nearer to their end with each step.
3. Open in the proofs: the refinement with failures (a session that loses P&L in a
   crash is no longer a ledger, so it needs a weaker abstract specification); what
   is left of `LegsAccountedFor` with deferred fills (one leg per accepted failsafe
   or close); a bound on the shortfalls that repeated closes leave.
4. Open in the models: an uninterrupted sweep as abstract specification of
   `Backtest`; the windows of the walk-forward against a reference definition; the
   data-source toggle composed with `LiveTrading`.

## 7. Not modelled

- The cost and P&L formulas and the statistics (`simulation/costs.py` and its
  neighbours, `statcore/` except sides and exit reasons, `stats/`): floating-point
  code without state.
- Of market data: the chart series with its markers
  (`marketdata/pair_series.py:342-540`) and the window arithmetic for charts.
- Of the scan: the list view with its tradability ranking and enrichment cache,
  and the read-only routes over pairs.
- Of ingest: inventory queries, the report's figures, gap counts, prices in a bar;
  `ops/hl_deep_backfill.py` and `ops/topup.sh`, which repeat the modelled merge.
- Of the replay and the manual trades: funding, slippage, the equity curve,
  prices and P&L figures, the portfolio summary.
- Of backtests and campaigns: editing strategies (which checks the status and writes
  an await later, as deleting does), the grid, ranks, reports.
- Authentication, parsing of the environment, scan-list filters and the exchange
  registry routes. The UI holds no state of the trading system.
