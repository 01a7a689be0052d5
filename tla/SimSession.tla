----------------------------- MODULE SimSession -----------------------------
(***************************************************************************)
(* A paper-trading session: simulation/engine.py over the rows of          *)
(* db/sim_repository.py, its controls in routers/sim.py and its job in     *)
(* simulation/scheduler.py.                                                *)
(*                                                                         *)
(* Money is counted in units of usd_per_trade; the net P&L of a close is   *)
(* any member of PnLs. Every write to the database is a step of its own,   *)
(* since a restart may come between two of them; a read is joined to the   *)
(* step that uses it, for only the holder of the engine lock writes.       *)
(***************************************************************************)
EXTENDS Integers, Sequences, FiniteSets

CONSTANTS
    Handlers,   \* requests and scheduled ticks under way at once
    SimPairs,   \* pairs of the latest scan that pass the session's quality filter
    Starting,   \* starting_capital
    MaxActive,  \* max_active_pairs
    PnLs,       \* net P&L a close may realise
    Faults,     \* subset of {"crash", "db"}
    MaxRows,    \* bound: simposition rows
    MaxTopUps,  \* bound: top-ups of one unit, before more are asked for
    MaxHours,   \* bound: the clock
    MaxDowns    \* bound: restarts and database errors

ASSUME MoneyAssumption == Starting \in Int /\ PnLs \subseteq Int
ASSUME LimitsAssumption ==
    /\ MaxActive \in Nat
    /\ MaxRows \in Nat
    /\ MaxTopUps \in Nat
    /\ MaxHours \in Nat
    /\ MaxDowns \in Nat

VARIABLES
    status,     \* simsession.status
    capital,    \* simsession.current_capital
    lastTick,   \* simsession.last_tick_at, -1 before the first tick
    positions,  \* the simposition rows, each with its number of simtrade rows
    realised,   \* the sum of net_pnl over the simtrade rows
    topUps,     \* top-ups so far
    stoppedAt,  \* simsession.stopped_at, -1 before the first stop
    job,        \* the scheduler has an interval job for the session
    clock,      \* hours
    lock,       \* asyncio.Lock: its holder, then its waiters in order
    pass,       \* the local state of each handler
    downs       \* restarts and database errors so far

bookVars == <<status, capital, lastTick, positions, realised, topUps>>
rowVars == <<bookVars, stoppedAt>>
vars == <<rowVars, job, clock, lock, pass, downs>>

Statuses == {"RUNNING", "PAUSED", "STOPPED"}
Kinds == {"tick", "pause", "resume", "topup", "stop"}

Positions == [pair: SimPairs, status: {"OPEN", "CLOSED"}, trades: Nat,
              opened: Nat, funded: Nat]

(***************************************************************************)
(* Locals of a tick or a stop: its own `capital' and `now'; the positions  *)
(* still `todo' and those `held'; the pairs with a price (`snaps'), those  *)
(* `exited' and those `fresh' in this tick; the position being closed.     *)
(***************************************************************************)
Idle == [kind |-> "none", pc |-> "idle", capital |-> 0, now |-> 0,
         todo |-> {}, held |-> {}, snaps |-> {}, exited |-> {}, fresh |-> {},
         closing |-> 0]

Locals == [kind: Kinds \cup {"none"},
           pc: {"idle", "start", "fund", "exits", "close", "entries", "stopping"},
           capital: Int, now: Nat, todo: SUBSET Nat, held: SUBSET Nat,
           snaps: SUBSET SimPairs, exited: SUBSET SimPairs,
           fresh: SUBSET SimPairs, closing: Nat]

AllRows == DOMAIN positions  \* mutant: a query without its status
OpenRows == {i \in DOMAIN positions : positions[i].status = "OPEN"}

\* Rows come back ordered by entry_time.
Oldest(rows) == CHOOSE i \in rows : \A j \in rows : i <= j

Holds(h) == lock # <<>> /\ Head(lock) = h
At(h, pc) == Holds(h) /\ pass[h].pc = pc
Begins(h, kind) == At(h, "start") /\ pass[h].kind = kind

Release(h) ==
    /\ lock' = Tail(lock)
    /\ pass' = [pass EXCEPT ![h] = Idle]

Local(h, locals) ==
    /\ pass' = [pass EXCEPT ![h] = locals]
    /\ UNCHANGED lock

\* Anybody may ask for a tick, so the scheduler's own are no special case.
Request(h) ==
    /\ pass[h] = Idle
    /\ \E kind \in Kinds :
          /\ kind = "topup" => topUps < MaxTopUps
          /\ pass' = [pass EXCEPT ![h] = [Idle EXCEPT !.kind = kind, !.pc = "start"]]
    /\ lock' = Append(lock, h)
    /\ UNCHANGED <<rowVars, job, clock, downs>>

(***************************************************************************)
(* Controls. The router adds or removes the job in the same step in which  *)
(* the engine lets go of the lock.                                         *)
(***************************************************************************)
Paused == status = "PAUSED"  \* mutant: the terminal status is mistaken
Terminal == status = "STOPPED"

\* SimSessionTerminal.
Refused(h) ==
    /\ Terminal
    /\ \E kind \in {"pause", "resume", "topup"} : Begins(h, kind)
    /\ Release(h)
    /\ UNCHANGED <<rowVars, job, clock, downs>>

KeepsJob == job  \* mutant: the job is not removed
Unscheduled == FALSE

SetStatus(h, kind, new, scheduled) ==
    /\ Begins(h, kind)
    /\ ~Terminal
    /\ status' = new
    /\ job' = scheduled
    /\ Release(h)
    /\ UNCHANGED <<capital, lastTick, positions, realised, topUps, stoppedAt, clock, downs>>

Pause(h) == SetStatus(h, "pause", "PAUSED", Unscheduled)
Resume(h) == SetStatus(h, "resume", "RUNNING", TRUE)

TopUp(h) ==
    /\ Begins(h, "topup")
    /\ ~Terminal
    /\ capital' = capital + 1
    /\ topUps' = topUps + 1
    /\ Release(h)
    /\ UNCHANGED <<status, lastTick, positions, realised, stoppedAt, job, clock, downs>>

(***************************************************************************)
(* A tick.                                                                 *)
(***************************************************************************)
TickSkip(h) ==
    /\ Begins(h, "tick")
    /\ status # "RUNNING"
    /\ Release(h)
    /\ UNCHANGED <<rowVars, job, clock, downs>>

\* No pair has a usable price: the tick is only counted.
TickEmpty(h) ==
    /\ Begins(h, "tick")
    /\ status = "RUNNING"
    /\ lastTick' = clock
    /\ Release(h)
    /\ UNCHANGED <<status, capital, positions, realised, topUps, stoppedAt, job, clock, downs>>

\* The pairs that get a snapshot: those with enough fresh closes on both legs.
Priced == SUBSET SimPairs \ {{}}

TickStart(h) ==
    /\ Begins(h, "tick")
    /\ status = "RUNNING"
    /\ \E snaps \in Priced, rates \in BOOLEAN :
          Local(h, [pass[h] EXCEPT !.pc = IF rates THEN "fund" ELSE "exits",
                       !.capital = capital, !.now = clock,
                       !.snaps = snaps, !.todo = OpenRows])
    /\ UNCHANGED <<rowVars, job, clock, downs>>

\* Hours since the last tick; none are due on the first.
Elapsed(h) == IF lastTick = -1 THEN 0 ELSE pass[h].now - lastTick

\* One position accrues; a leg without a known rate adds nothing.
Accrue(h) ==
    /\ At(h, "fund")
    /\ pass[h].todo # {}
    /\ LET i == Oldest(pass[h].todo)
       IN /\ \E due \in {0, Elapsed(h)} :
                positions' = [positions EXCEPT ![i].funded = @ + due]
          /\ Local(h, [pass[h] EXCEPT !.todo = @ \ {i}])
    /\ UNCHANGED <<status, capital, lastTick, realised, topUps, stoppedAt, job, clock, downs>>

AccrueDone(h) ==
    /\ At(h, "fund")
    /\ pass[h].todo = {}
    /\ Local(h, [pass[h] EXCEPT !.pc = "exits", !.todo = OpenRows])
    /\ UNCHANGED <<rowVars, job, clock, downs>>

\* No price, or no exit signal.
Hold(h) ==
    /\ At(h, "exits")
    /\ pass[h].kind = "tick"
    /\ pass[h].todo # {}
    /\ LET i == Oldest(pass[h].todo)
       IN Local(h, [pass[h] EXCEPT !.todo = @ \ {i}, !.held = @ \cup {i}])
    /\ UNCHANGED <<rowVars, job, clock, downs>>

OnlyPriced(h, i) == positions[i].pair \in pass[h].snaps  \* mutant: no fallback
\* A tick closes only at a price; a stop closes flat if there is none.
Closable(h, i) == pass[h].kind = "stop" \/ positions[i].pair \in pass[h].snaps

\* _close_position: the trade row comes first ...
CreateTrade(h) ==
    /\ At(h, "exits")
    /\ pass[h].todo # {}
    /\ LET i == Oldest(pass[h].todo)
       IN /\ Closable(h, i)
          /\ positions' = [positions EXCEPT ![i].trades = @ + 1]
          /\ \E pnl \in PnLs :
                /\ realised' = realised + pnl
                /\ Local(h, [pass[h] EXCEPT !.pc = "close", !.closing = i,
                                            !.capital = @ + pnl])
    /\ UNCHANGED <<status, capital, lastTick, topUps, stoppedAt, job, clock, downs>>

StoppedRow(row) == [row EXCEPT !.status = "STOPPED"]  \* mutant: the reason as status
ClosedRow(row) == [row EXCEPT !.status = "CLOSED"]

\* ... and then the position row.
ClosePosition(h) ==
    /\ At(h, "close")
    /\ LET i == pass[h].closing
       IN /\ positions' = [positions EXCEPT ![i] = ClosedRow(@)]
          /\ Local(h, [pass[h] EXCEPT !.pc = "exits", !.closing = 0, !.todo = @ \ {i},
                                      !.exited = @ \cup {positions[i].pair}])
    /\ UNCHANGED <<status, capital, lastTick, realised, topUps, stoppedAt, job, clock, downs>>

ExitsDone(h) ==
    /\ At(h, "exits")
    /\ pass[h].kind = "tick"
    /\ pass[h].todo = {}
    /\ Local(h, [pass[h] EXCEPT !.pc = "entries"])
    /\ UNCHANGED <<rowVars, job, clock, downs>>

\* open_pairs, and the number of positions that commit margin.
HeldPairs(h) == {positions[i].pair : i \in pass[h].held} \cup pass[h].fresh
Committed(h) == Cardinality(pass[h].held) + Cardinality(pass[h].fresh)

FreshOnly(h) == Cardinality(pass[h].fresh) < MaxActive  \* mutant
HasSlot(h) == Cardinality(HeldPairs(h)) < MaxActive
IgnoresHeld(h) == Cardinality(pass[h].fresh) + 1 <= pass[h].capital  \* mutant
HasMargin(h) == Committed(h) + 1 <= pass[h].capital

NewPosition(h, pair) == [pair |-> pair, status |-> "OPEN", trades |-> 0,
                         opened |-> pass[h].now, funded |-> 0]

\* A signal on a pair that is neither open nor just exited, with a slot and
\* margin left. Other snapshots are passed over.
OpenPosition(h, pair) ==
    /\ At(h, "entries")
    /\ pair \in pass[h].snaps \ (HeldPairs(h) \cup pass[h].exited)
    /\ HasSlot(h)
    /\ HasMargin(h)
    /\ Len(positions) < MaxRows
    /\ positions' = Append(positions, NewPosition(h, pair))
    /\ Local(h, [pass[h] EXCEPT !.fresh = @ \cup {pair}])
    /\ UNCHANGED <<status, capital, lastTick, realised, topUps, stoppedAt, job, clock, downs>>

Unstamped(h) == lastTick  \* mutant: last_tick_at is not moved on
Stamped(h) == pass[h].now

RowCapital(h) == capital  \* mutant: the capital read at the start
NewCapital(h) == pass[h].capital

\* The capital and the time of the tick are written last.
TickEnd(h) ==
    /\ At(h, "entries")
    /\ capital' = NewCapital(h)
    /\ lastTick' = Stamped(h)
    /\ Release(h)
    /\ UNCHANGED <<status, positions, realised, topUps, stoppedAt, job, clock, downs>>

(***************************************************************************)
(* Stop: every position is closed, then the capital, then the status and   *)
(* the time. A STOPPED session is not refused: it is stamped again.        *)
(***************************************************************************)
StopStart(h) ==
    /\ Begins(h, "stop")
    /\ Local(h, [pass[h] EXCEPT !.pc = IF OpenRows = {} THEN "stopping" ELSE "exits",
                                !.capital = capital, !.now = clock,
                                !.todo = OpenRows])
    /\ UNCHANGED <<rowVars, job, clock, downs>>

StopCapital(h) ==
    /\ At(h, "exits")
    /\ pass[h].kind = "stop"
    /\ pass[h].todo = {}
    /\ capital' = NewCapital(h)
    /\ Local(h, [pass[h] EXCEPT !.pc = "stopping"])
    /\ UNCHANGED <<status, lastTick, positions, realised, topUps, stoppedAt, job, clock, downs>>

StopStatus(h) ==
    /\ At(h, "stopping")
    /\ status' = "STOPPED"
    /\ stoppedAt' = pass[h].now
    /\ job' = Unscheduled
    /\ Release(h)
    /\ UNCHANGED <<capital, lastTick, positions, realised, topUps, clock, downs>>

(***************************************************************************)
(* Failures and time.                                                      *)
(***************************************************************************)

\* RUNNING sessions are scheduled again at start-up, best effort.
Crash ==
    /\ "crash" \in Faults
    /\ downs < MaxDowns
    /\ downs' = downs + 1
    /\ lock' = <<>>
    /\ pass' = [h \in Handlers |-> Idle]
    /\ job' \in {status = "RUNNING", FALSE}
    /\ UNCHANGED <<rowVars, clock>>

\* A database call raises: the exception ends the pass and frees the lock.
DbError(h) ==
    /\ "db" \in Faults
    /\ downs < MaxDowns
    /\ Holds(h)
    /\ downs' = downs + 1
    /\ Release(h)
    /\ UNCHANGED <<rowVars, job, clock>>

Hour ==
    /\ clock < MaxHours
    /\ clock' = clock + 1
    /\ UNCHANGED <<rowVars, job, lock, pass, downs>>

-----------------------------------------------------------------------------
TickStep(h) ==
    \/ TickSkip(h) \/ TickEmpty(h) \/ TickStart(h) \/ Accrue(h) \/ AccrueDone(h)
    \/ Hold(h) \/ ExitsDone(h) \/ TickEnd(h)
    \/ \E pair \in SimPairs : OpenPosition(h, pair)

HandlerStep(h) ==
    \/ TickStep(h) \/ CreateTrade(h) \/ ClosePosition(h)
    \/ StopStart(h) \/ StopCapital(h) \/ StopStatus(h)
    \/ Refused(h) \/ Pause(h) \/ Resume(h) \/ TopUp(h)

\* POST /sessions: a RUNNING session with its job.
Init ==
    /\ status = "RUNNING"
    /\ capital = Starting
    /\ lastTick = -1
    /\ positions = <<>>
    /\ realised = 0
    /\ topUps = 0
    /\ stoppedAt = -1
    /\ job = TRUE
    /\ clock = 0
    /\ lock = <<>>
    /\ pass = [h \in Handlers |-> Idle]
    /\ downs = 0

Next ==
    \/ \E h \in Handlers : Request(h) \/ HandlerStep(h) \/ DbError(h)
    \/ Crash
    \/ Hour

Spec == Init /\ [][Next]_vars

\* A database call or a price fetch of a pass ends, one way or the other.
FairSpec == Spec /\ \A h \in Handlers : WF_vars(HandlerStep(h))

-----------------------------------------------------------------------------
\* Type invariant: the rows, the job and the locals of every handler.
TypeOK ==
    /\ status \in Statuses
    /\ capital \in Int
    /\ lastTick \in Nat \cup {-1}
    /\ positions \in Seq(Positions)
    /\ realised \in Int
    /\ topUps \in Nat
    /\ stoppedAt \in Nat \cup {-1}
    /\ job \in BOOLEAN
    /\ clock \in Nat
    /\ lock \in Seq(Handlers)
    /\ pass \in [Handlers -> Locals]
    /\ downs \in Nat

\* What the session has earned and been given.
Funds == Starting + topUps + realised

\* A pass has loaded the capital and not yet written it back.
Carries(h) == pass[h].pc \in {"fund", "exits", "close", "entries"}

\* Money is conserved: outside a pass the capital of the session is what it
\* started with, its top-ups and the P&L of its trades, and a pass carries
\* exactly that, whatever top-ups, ticks and stops do at once.
CapitalBalances ==
    downs = 0 =>
        IF \E h \in Handlers : Carries(h)
        THEN \A h \in Handlers : Carries(h) => pass[h].capital = Funds
        ELSE capital = Funds

\* A closed position has exactly one trade, an open one none, except the one
\* a pass is closing: no P&L is realised twice.
OneTradeEach ==
    downs = 0 =>
        \A i \in DOMAIN positions :
            \/ positions[i].trades = (IF positions[i].status = "CLOSED" THEN 1 ELSE 0)
            \/ \E h \in Handlers : pass[h].closing = i /\ positions[i].trades = 1

\* No hour of funding is charged twice on a position, however ticks, empty
\* ticks and pauses alternate.
FundedOnce ==
    downs = 0 =>
        \A i \in DOMAIN positions :
            positions[i].funded <= clock - positions[i].opened

\* Never more than MaxActive open positions nor two on one pair, also after a
\* restart in the middle of a tick.
WithinLimits ==
    /\ Cardinality(OpenRows) <= MaxActive
    /\ \A i, j \in OpenRows : positions[i].pair = positions[j].pair => i = j

\* A stopped session is final: nothing is open, and no later tick, resume,
\* top-up or stop changes its status, capital, positions or trades. A stop is
\* not refused: it stamps stopped_at again, and never with an earlier time.
StoppedIsFinal ==
    [][status = "STOPPED" => /\ OpenRows = {}
                             /\ UNCHANGED bookVars
                             /\ stoppedAt <= stoppedAt']_vars

\* The scheduler ticks a session exactly while it is RUNNING, in whatever
\* order pauses, resumes and stops are served.
JobMatchesStatus == downs = 0 => job = (status = "RUNNING")

\* A stop that was asked for is carried out, however many ticks keep coming.
StopServed ==
    \A h \in Handlers : pass[h].kind = "stop" ~> status = "STOPPED"

\* The session implements SimLedger: its fund is what it started with, its
\* top-ups and its P&L, and a position leaves the book with its trade row.
Ledger == INSTANCE SimLedger WITH
    phase <- status,
    fund <- Funds,
    book <- {positions[i].pair : i \in {j \in OpenRows : positions[j].trades = 0}}

ImplementsLedger == Ledger!Spec

\* A session restored after a restart resumes exactly where it left off
\* (simulation/engine.py:11): once no pass is under way, its capital accounts
\* for every trade.
ResumesWhereItLeftOff == lock = <<>> => capital = Funds

=============================================================================
