---------------------------- MODULE LiveTrading -----------------------------
(***************************************************************************)
(* The live trading engine: trading/engine.py and what its passes run,     *)
(* trading/{entry,bot_agent,exit,close}.py, over the rows of               *)
(* db/live_repository.py and the account of TradeAccount.                  *)
(*                                                                         *)
(* A request handler is a process. Between two awaits a coroutine is       *)
(* atomic, so an action is what a handler does from one await that matters *)
(* to the next; a read whose answer nobody else can change meanwhile is    *)
(* joined to the step that follows it.                                     *)
(***************************************************************************)
EXTENDS TradeAccount, Sequences

CONSTANTS
    Procs,        \* request handlers (HTTP or Telegram) running at once
    Pairs,        \* the cointegrated pairs of the latest scan
    MaxTrades,    \* bound: rows of live_trade
    MaxSessions,  \* bound: active sessions and pending starts
    MaxDowns      \* bound: crashes and database errors

ASSUME PairsAssumption ==
    /\ Pairs \subseteq [base: Markets, quote: Markets]
    /\ \A pair \in Pairs : pair.base # pair.quote
ASSUME BoundsAssumption ==
    /\ MaxTrades \in Nat
    /\ MaxSessions \in Nat
    /\ MaxDowns \in Nat

VARIABLES
    trades,     \* the live_trade rows, oldest first
    sessions,   \* number of active live_session rows
    starting,   \* start_session calls that found no active row
    waiting,    \* the engine lock: its holder, then its waiters in order
    pass,       \* the local state of each handler
    downs       \* crashes and database errors so far

dbVars == <<trades, sessions>>
vars == <<accountVars, trades, sessions, starting, waiting, pass, downs>>

Kinds == {"entry", "exit", "abort", "cancel"}
Statuses == {"OPEN", "CLOSED", "ERROR"}
Reasons == {"none", "SIGNAL", "RECONCILED", "ORPHANED", "ABORTED", "CANCELLED"}

Legs(pair) == {pair.base, pair.quote}

\* base_side and quote_side of an entry: the quote leg is opposite the base.
LegSide(t, m) == IF m = t.pair.base THEN t.side ELSE Opposite(t.side)

\* The side that unwinds leg m of a trade.
CloseSide(t, m) == Opposite(LegSide(t, m))

NoPair == [base |-> "none", quote |-> "none"]

Trades == [pair: Pairs, side: Sides, status: Statuses, reason: Reasons]

(***************************************************************************)
(* The locals of a pass. `cur' is the trade being opened or closed (row 0  *)
(* while it has no row), `acked' the legs whose closing order was accepted *)
(* and `failed' those whose order was refused.                             *)
(***************************************************************************)
Nothing == [pair |-> NoPair, side |-> "BUY", row |-> 0, reason |-> "none"]

Idle == [kind |-> "none", pc |-> "idle", target |-> NoPair, cur |-> Nothing,
         positions |-> Flat, openPairs |-> {}, pairs |-> {}, rows |-> {},
         markets |-> {}, acked |-> {}, failed |-> {}]

\* Where a pass that has begun may be.
PassPcs == {"entry", "leg1", "wait1", "leg2", "wait2", "failsafe", "recordLive",
            "recordError", "exit", "close1", "close2", "judge", "persist",
            "abort", "mark", "cancel1", "cancel2", "cancelled"}

Locals == [kind: Kinds \cup {"none"}, pc: PassPcs \cup {"idle", "start"},
           target: Pairs \cup {NoPair},
           cur: [pair: Pairs \cup {NoPair}, side: Sides, row: Nat, reason: Reasons],
           positions: [Markets -> Int], openPairs: SUBSET Pairs,
           pairs: SUBSET Pairs, rows: SUBSET Nat, markets: SUBSET Markets,
           acked: SUBSET Markets, failed: SUBSET Markets]

OpenRows == {i \in DOMAIN trades : trades[i].status = "OPEN"}
OpenPairs == {trades[i].pair : i \in OpenRows}

(***************************************************************************)
(* asyncio.Lock: first come first served.                                  *)
(***************************************************************************)
HoldsUnserialised(p) == \E k \in DOMAIN waiting : waiting[k] = p  \* mutant
Holds(p) == waiting # <<>> /\ Head(waiting) = p

\* Leaving `async with self._lock', by return or by an exception.
Release(p) ==
    /\ waiting' = Tail(waiting)
    /\ pass' = [pass EXCEPT ![p] = Idle]

At(p, pc) == Holds(p) /\ pass[p].pc = pc

Begins(p, kind) == At(p, "start") /\ pass[p].kind = kind

\* A step that only moves p's locals on.
Local(p, locals) ==
    /\ pass' = [pass EXCEPT ![p] = locals]
    /\ UNCHANGED waiting

NoRowChange == UNCHANGED <<dbVars, starting, downs>>
NoAccountChange == UNCHANGED accountVars

(***************************************************************************)
(* Requests and sessions. The session calls do not take the lock.          *)
(***************************************************************************)
Request(p) ==
    /\ pass[p] = Idle
    /\ \E kind \in Kinds, target \in Pairs :
          pass' = [pass EXCEPT ![p] =
                      [Idle EXCEPT !.kind = kind, !.pc = "start",
                                   !.target = IF kind = "cancel" THEN target ELSE NoPair]]
    /\ waiting' = Append(waiting, p)
    /\ NoAccountChange
    /\ NoRowChange

SessionVars == UNCHANGED <<accountVars, trades, waiting, pass, downs>>

\* start_session: the row is looked up, and created in a later step.
StartSession ==
    /\ sessions = 0
    /\ sessions + starting < MaxSessions
    /\ starting' = starting + 1
    /\ UNCHANGED sessions
    /\ SessionVars

CreateSession ==
    /\ starting > 0
    /\ starting' = starting - 1
    /\ sessions' = sessions + 1
    /\ SessionVars

StopSession ==
    /\ sessions > 0
    /\ sessions' = 0
    /\ UNCHANGED starting
    /\ SessionVars

(***************************************************************************)
(* Entry scan: trading/entry.py.                                           *)
(***************************************************************************)

\* No session, no scanned pair, or free collateral below the minimum.
EntryRefused(p) ==
    /\ Begins(p, "entry")
    /\ Release(p)
    /\ NoAccountChange
    /\ NoRowChange

EntryStart(p) ==
    /\ Begins(p, "entry")
    /\ sessions > 0
    /\ Pairs # {}
    /\ \E positions \in PositionReports :
          Local(p, [pass[p] EXCEPT !.pc = "entry", !.positions = positions,
                                   !.pairs = Pairs, !.openPairs = OpenPairs])
    /\ NoAccountChange
    /\ NoRowChange

\* Already open, no usable snapshot, no signal, a bad price, or rejected.
EntrySkip(p, pair) ==
    /\ At(p, "entry")
    /\ pair \in pass[p].pairs
    /\ Local(p, [pass[p] EXCEPT !.pairs = @ \ {pair}])
    /\ NoAccountChange
    /\ NoRowChange

\* The already-open guard, by row and by position. Both answers are the
\* pass's own: read once when it began.
AlreadyOpenSwapped(p, pair) ==  \* mutant: the key's legs in the other order
    [base |-> pair.quote, quote |-> pair.base] \in pass[p].openPairs
AlreadyOpen(p, pair) == pair \in pass[p].openPairs
LegHeld(p, pair) == Legs(pair) \cap Live(pass[p].positions) # {}

\* The guards hold, the signal fires and the gate approves it.
EntryApproved(p, pair, side) ==
    /\ At(p, "entry")
    /\ pair \in pass[p].pairs
    /\ ~AlreadyOpen(p, pair)
    /\ ~LegHeld(p, pair)
    /\ Len(trades) < MaxTrades
    /\ Local(p, [pass[p] EXCEPT !.pc = "leg1", !.pairs = @ \ {pair},
                    !.cur = [pair |-> pair, side |-> side, row |-> 0, reason |-> "none"]])
    /\ NoAccountChange
    /\ NoRowChange

EntryDone(p) ==
    /\ At(p, "entry")
    /\ pass[p].pairs = {}
    /\ Release(p)
    /\ NoAccountChange
    /\ NoRowChange

(***************************************************************************)
(* BotAgent.open_trades: trading/bot_agent.py.                             *)
(***************************************************************************)
Goto(p, pc) == Local(p, [pass[p] EXCEPT !.pc = pc])

Leg1(p) == pass[p].cur.pair.base
Leg2(p) == pass[p].cur.pair.quote

\* Submit one opening leg and go where its outcome leads.
SubmitLeg(p, m, onAccept, onRefuse) ==
    /\ \/ /\ Accepted(m, LegSide(pass[p].cur, m), LegLots, FALSE)
          /\ Goto(p, onAccept)
       \/ /\ Refused(m, LegSide(pass[p].cur, m), LegLots, FALSE, {})
          /\ Goto(p, onRefuse)
    /\ NoRowChange

PlaceLeg1(p) == At(p, "leg1") /\ SubmitLeg(p, Leg1(p), "wait1", "recordError")

PlaceLeg2(p) == At(p, "leg2") /\ SubmitLeg(p, Leg2(p), "wait2", "failsafe")

\* A poll sees a position on m.
SeesFill(m) == net[m] # 0

\* Every poll until the deadline saw none. An order expires before the
\* deadline does, except under "late".
NeverTimesOut(m) == FALSE  \* mutant: a wait without its deadline
TimesOut(m) ==
    /\ net[m] = 0 \/ "query" \in Faults
    /\ \/ "late" \in Faults
       \/ ~\E o \in inflight : o.market = m /\ ~o.reduceOnly

AwaitFill(p, m, onFill, onTimeout) ==
    /\ \/ SeesFill(m) /\ Goto(p, onFill)
       \/ TimesOut(m) /\ Goto(p, onTimeout)
    /\ NoAccountChange
    /\ NoRowChange

AwaitLeg1(p) == At(p, "wait1") /\ AwaitFill(p, Leg1(p), "leg2", "recordError")

AwaitLeg2(p) == At(p, "wait2") /\ AwaitFill(p, Leg2(p), "recordLive", "failsafe")

\* _failsafe_close_leg1: CODE RED only when the order cannot be placed.
Failsafe(p) ==
    /\ At(p, "failsafe")
    /\ LET side == CloseSide(pass[p].cur, Leg1(p))
       IN \/ Accepted(Leg1(p), side, LegLots, TRUE)
          \/ Refused(Leg1(p), side, LegLots, TRUE, {Leg1(p)})
    /\ Goto(p, "recordError")
    /\ NoRowChange

RowAsAgent(cur, status) ==  \* mutant: the agent's own status is stored
    [pair |-> cur.pair, side |-> cur.side,
     status |-> IF status = "OPEN" THEN "LIVE" ELSE status, reason |-> "none"]
Row(cur, status) == [pair |-> cur.pair, side |-> cur.side,
                     status |-> status, reason |-> "none"]

\* create_trade for a live pair, then the collateral guard: go on or stop.
RecordLive(p) ==
    /\ At(p, "recordLive")
    /\ trades' = Append(trades, Row(pass[p].cur, "OPEN"))
    /\ \/ Local(p, [pass[p] EXCEPT !.pc = "entry", !.cur = Nothing,
                       !.openPairs = @ \cup {pass[p].cur.pair}])
       \/ Release(p)
    /\ NoAccountChange
    /\ UNCHANGED <<sessions, starting, downs>>

RecordError(p) ==
    /\ At(p, "recordError")
    /\ trades' = Append(trades, Row(pass[p].cur, "ERROR"))
    /\ Local(p, [pass[p] EXCEPT !.pc = "entry", !.cur = Nothing])
    /\ NoAccountChange
    /\ UNCHANGED <<sessions, starting, downs>>

(***************************************************************************)
(* Closing a row. close_trade writes by id, whatever the row's status is.  *)
(***************************************************************************)
CloseRowsOfPair(i, reason) ==  \* mutant: update by pair, not by id
    trades' = [k \in DOMAIN trades |->
                  IF trades[k].pair = trades[i].pair
                  THEN [trades[k] EXCEPT !.status = "CLOSED", !.reason = reason]
                  ELSE trades[k]]
CloseRow(i, reason) ==
    trades' = [trades EXCEPT ![i].status = "CLOSED", ![i].reason = reason]

\* A read of the exchange raises where the engine does not catch it: the
\* connection in make_trade_client, or the block height in cancel_all_orders.
ConnectFails(p) ==
    /\ "query" \in Faults
    /\ At(p, "start")
    /\ Release(p)
    /\ NoAccountChange
    /\ NoRowChange

(***************************************************************************)
(* Exit management: trading/exit.py.                                       *)
(***************************************************************************)
ExitNothing(p) ==
    /\ Begins(p, "exit")
    /\ OpenRows = {}
    /\ Release(p)
    /\ NoAccountChange
    /\ NoRowChange

ExitStart(p) ==
    /\ Begins(p, "exit")
    /\ OpenRows # {}
    /\ \E positions \in PositionReports :
          Local(p, [pass[p] EXCEPT !.pc = "exit", !.rows = OpenRows,
                                   !.positions = positions])
    /\ NoAccountChange
    /\ NoRowChange

\* The legs of row i that the pass's positions show.
LegsSeen(p, i) == Legs(trades[i].pair) \cap Live(pass[p].positions)

GoneHalf(p, i) == LegsSeen(p, i) # Legs(trades[i].pair)  \* mutant: `or' for `and'
Gone(p, i) == LegsSeen(p, i) = {}
BothSeen(p, i) == LegsSeen(p, i) = Legs(trades[i].pair)

\* The pass takes up row i, as `cur', with `pc' next.
TakeUp(p, i, pc, reason) ==
    Local(p, [pass[p] EXCEPT !.pc = pc, !.rows = @ \ {i}, !.acked = {},
                 !.cur = [pair |-> trades[i].pair, side |-> trades[i].side,
                          row |-> i, reason |-> reason]])

ExitReconcile(p, i) ==
    /\ At(p, "exit")
    /\ i \in pass[p].rows
    /\ Gone(p, i)
    /\ CloseRow(i, "RECONCILED")
    /\ Local(p, [pass[p] EXCEPT !.rows = @ \ {i}])
    /\ NoAccountChange
    /\ UNCHANGED <<sessions, starting, downs>>

\* One leg is left: close it, or CODE RED and keep the row OPEN.
ExitOrphan(p, i) ==
    /\ At(p, "exit")
    /\ i \in pass[p].rows
    /\ \E m \in Legs(trades[i].pair) :
          /\ LegsSeen(p, i) = {m}
          /\ \/ /\ Accepted(m, CloseSide(trades[i], m), LegLots, TRUE)
                /\ TakeUp(p, i, "persist", "ORPHANED")
             \/ /\ Refused(m, CloseSide(trades[i], m), LegLots, TRUE, {m})
                /\ Local(p, [pass[p] EXCEPT !.rows = @ \ {i}])
    /\ NoRowChange

\* Both legs live, and no price, no exit signal, or the gate rejects it.
ExitHold(p, i) ==
    /\ At(p, "exit")
    /\ i \in pass[p].rows
    /\ BothSeen(p, i)
    /\ Local(p, [pass[p] EXCEPT !.rows = @ \ {i}])
    /\ NoAccountChange
    /\ NoRowChange

ExitApproved(p, i) ==
    /\ At(p, "exit")
    /\ i \in pass[p].rows
    /\ BothSeen(p, i)
    /\ TakeUp(p, i, "close1", "SIGNAL")
    /\ NoAccountChange
    /\ NoRowChange

\* A reduce-only order on leg m of `cur'; its outcome is noted.
CloseLeg(p, m, pc) ==
    /\ LET side == CloseSide(pass[p].cur, m)
       IN \/ /\ Accepted(m, side, LegLots, TRUE)
             /\ Local(p, [pass[p] EXCEPT !.pc = pc, !.acked = @ \cup {m}])
          \/ /\ Refused(m, side, LegLots, TRUE, {})
             /\ Local(p, [pass[p] EXCEPT !.pc = pc, !.failed = @ \cup {m}])
    /\ NoRowChange

ExitClose1(p) == At(p, "close1") /\ CloseLeg(p, Leg1(p), "close2")

ExitClose2(p) == At(p, "close2") /\ CloseLeg(p, Leg2(p), "judge")

EitherClosed(p) == pass[p].acked # {}  \* mutant: one acknowledged close is enough
BothClosed(p) == pass[p].acked = Legs(pass[p].cur.pair)

\* Either order refused: the row stays OPEN for the next pass.
ExitKeepOpen(p) ==
    /\ At(p, "judge")
    /\ ~BothClosed(p)
    /\ Local(p, [pass[p] EXCEPT !.pc = "exit", !.cur = Nothing,
                                !.acked = {}, !.failed = {}])
    /\ NoAccountChange
    /\ NoRowChange

ExitPersist(p) ==
    /\ \/ At(p, "persist")
       \/ At(p, "judge") /\ BothClosed(p)
    /\ CloseRow(pass[p].cur.row, pass[p].cur.reason)
    /\ Local(p, [pass[p] EXCEPT !.pc = "exit", !.cur = Nothing, !.acked = {}])
    /\ NoAccountChange
    /\ UNCHANGED <<sessions, starting, downs>>

ExitDone(p) ==
    /\ At(p, "exit")
    /\ pass[p].rows = {}
    /\ Release(p)
    /\ NoAccountChange
    /\ NoRowChange

(***************************************************************************)
(* abort_all.                                                              *)
(***************************************************************************)

\* cancel_all_orders, then the positions to close.
AbortStart(p) ==
    /\ Begins(p, "abort")
    /\ \E left \in SUBSET inflight : OrdersCancelled(left)
    /\ \E positions \in PositionReports :
          Local(p, [pass[p] EXCEPT !.pc = "abort", !.positions = positions,
                                   !.markets = Live(positions)])
    /\ NoRowChange

AbortClose(p, m) ==
    /\ At(p, "abort")
    /\ m \in pass[p].markets
    /\ LET n == pass[p].positions[m]
           side == IF n > 0 THEN "SELL" ELSE "BUY"
           rest == [pass[p] EXCEPT !.markets = @ \ {m}]
       IN \/ Accepted(m, side, Size(n), TRUE) /\ Local(p, rest)
          \/ /\ Refused(m, side, Size(n), TRUE, {})
             /\ Local(p, [rest EXCEPT !.failed = @ \cup {m}])
    /\ NoRowChange

\* CODE RED for what could not be closed; every OPEN row is then marked.
AbortEscalate(p) ==
    /\ At(p, "abort")
    /\ pass[p].markets = {}
    /\ Settle(net, inflight, pass[p].failed, shortfall)
    /\ Local(p, [pass[p] EXCEPT !.pc = "mark", !.rows = OpenRows])
    /\ NoRowChange

AbortMark(p, i) ==
    /\ At(p, "mark")
    /\ i \in pass[p].rows
    /\ CloseRow(i, "ABORTED")
    /\ Local(p, [pass[p] EXCEPT !.rows = @ \ {i}])
    /\ NoAccountChange
    /\ UNCHANGED <<sessions, starting, downs>>

AbortDone(p) ==
    /\ At(p, "mark")
    /\ pass[p].rows = {}
    /\ Release(p)
    /\ NoAccountChange
    /\ NoRowChange

(***************************************************************************)
(* close_pair, the Telegram /cancel.                                       *)
(***************************************************************************)
CancelMiss(p) ==
    /\ Begins(p, "cancel")
    /\ pass[p].target \notin OpenPairs
    /\ Release(p)
    /\ NoAccountChange
    /\ NoRowChange

CancelStart(p) ==
    /\ Begins(p, "cancel")
    /\ \E i \in OpenRows, positions \in PositionReports :
          /\ trades[i].pair = pass[p].target
          /\ Local(p, [pass[p] EXCEPT !.pc = "cancel1", !.positions = positions,
                          !.cur = [pair |-> trades[i].pair, side |-> trades[i].side,
                                   row |-> i, reason |-> "CANCELLED"]])
    /\ NoAccountChange
    /\ NoRowChange

\* A leg the positions do not show needs no order.
CancelLeg(p, m, pc) ==
    \/ /\ m \in Live(pass[p].positions)
       /\ CloseLeg(p, m, pc)
    \/ /\ m \notin Live(pass[p].positions)
       /\ Goto(p, pc)
       /\ NoAccountChange
       /\ NoRowChange

CancelLeg1(p) == At(p, "cancel1") /\ CancelLeg(p, Leg1(p), "cancel2")

CancelLeg2(p) == At(p, "cancel2") /\ CancelLeg(p, Leg2(p), "cancelled")

CancelEscalate(p) ==
    /\ At(p, "cancelled")
    /\ pass[p].failed # {}
    /\ Settle(net, inflight, pass[p].failed, shortfall)
    /\ Release(p)
    /\ NoRowChange

CancelPersist(p) ==
    /\ At(p, "cancelled")
    /\ pass[p].failed = {}
    /\ CloseRow(pass[p].cur.row, pass[p].cur.reason)
    /\ Release(p)
    /\ NoAccountChange
    /\ UNCHANGED <<sessions, starting, downs>>

(***************************************************************************)
(* Failures of the process and of the database.                            *)
(***************************************************************************)

\* A restart: the database and the exchange keep what they hold.
Crash ==
    /\ "crash" \in Faults
    /\ downs < MaxDowns
    /\ downs' = downs + 1
    /\ waiting' = <<>>
    /\ pass' = [p \in Procs |-> Idle]
    /\ starting' = 0
    /\ NoAccountChange
    /\ UNCHANGED dbVars

\* A read or write of a row raises: the exception ends the pass and frees the lock.
DbError(p) ==
    /\ "db" \in Faults
    /\ downs < MaxDowns
    /\ \E pc \in {"start", "recordLive", "recordError", "exit", "judge",
                 "persist", "mark", "cancelled"} : At(p, pc)
    /\ downs' = downs + 1
    /\ Release(p)
    /\ NoAccountChange
    /\ UNCHANGED <<dbVars, starting>>

-----------------------------------------------------------------------------
EntryStep(p) ==
    \/ EntryRefused(p) \/ EntryStart(p) \/ EntryDone(p)
    \/ \E pair \in Pairs : EntrySkip(p, pair)
    \/ \E pair \in Pairs, side \in Sides : EntryApproved(p, pair, side)
    \/ PlaceLeg1(p) \/ AwaitLeg1(p) \/ PlaceLeg2(p) \/ AwaitLeg2(p)
    \/ Failsafe(p) \/ RecordLive(p) \/ RecordError(p)

ExitStep(p) ==
    \/ ExitNothing(p) \/ ExitStart(p) \/ ExitDone(p)
    \/ \E i \in DOMAIN trades :
          \/ ExitReconcile(p, i) \/ ExitOrphan(p, i)
          \/ ExitHold(p, i) \/ ExitApproved(p, i)
    \/ ExitClose1(p) \/ ExitClose2(p) \/ ExitKeepOpen(p) \/ ExitPersist(p)

AbortStep(p) ==
    \/ AbortStart(p) \/ AbortEscalate(p) \/ AbortDone(p)
    \/ \E m \in Markets : AbortClose(p, m)
    \/ \E i \in DOMAIN trades : AbortMark(p, i)

CancelStep(p) ==
    \/ CancelMiss(p) \/ CancelStart(p) \/ CancelLeg1(p) \/ CancelLeg2(p)
    \/ CancelEscalate(p) \/ CancelPersist(p)

\* What the coroutine that holds the lock does next.
PassStep(p) ==
    EntryStep(p) \/ ExitStep(p) \/ AbortStep(p) \/ CancelStep(p) \/ ConnectFails(p)

OrderEnds == \E o \in inflight : Fill(o) \/ Expire(o)

ExchangeStep ==
    /\ OrderEnds \/ \E m \in Markets : ClosedOutside(m)
    /\ UNCHANGED <<dbVars, starting, waiting, pass, downs>>

SessionStep == StartSession \/ CreateSession \/ StopSession

Init ==
    /\ AccountInit
    /\ trades = <<>>
    /\ sessions = 0
    /\ starting = 0
    /\ waiting = <<>>
    /\ pass = [p \in Procs |-> Idle]
    /\ downs = 0

Next ==
    \/ \E p \in Procs : Request(p) \/ PassStep(p) \/ DbError(p)
    \/ SessionStep
    \/ ExchangeStep
    \/ Crash

Spec == Init /\ [][Next]_vars

\* asyncio resumes a coroutine whose await has an answer, every await of a
\* pass has a bound (the client's timeout, MAX_ORDER_WAIT_SECS, the approval
\* timeout), and the chain fills or drops an order at its good-til block.
Fairness ==
    /\ \A p \in Procs : WF_vars(PassStep(p))
    /\ WF_vars(ExchangeStep /\ inflight' # inflight)

FairSpec == Spec /\ Fairness

-----------------------------------------------------------------------------
(***************************************************************************)
(* Properties.                                                             *)
(***************************************************************************)
\* Type invariant: every variable, and every local of every handler, stays in
\* the set its code gives it; a row number in hand names a row that exists.
TypeOK ==
    /\ AccountType
    /\ trades \in Seq(Trades)
    /\ sessions \in Nat
    /\ starting \in Nat
    /\ waiting \in Seq(Procs)
    /\ downs \in Nat
    /\ pass \in [Procs -> Locals]

\* Two passes are never under way together, whatever the interleaving of
\* requests, failures and restarts: engine.py's "a concurrent entry-scan /
\* exit-manage / abort can never interleave order placement".
SerialPasses ==
    \A p, q \in Procs :
        pass[p].pc \in PassPcs /\ pass[q].pc \in PassPcs => p = q

\* No two OPEN rows are for the same pair, also when every read of the
\* positions may fail: the database guard of entry.py is enough by itself.
OneOpenRowPerPair ==
    \A i, j \in OpenRows : trades[i].pair = trades[j].pair => i = j

\* Rows are only appended, and one that is CLOSED or ERROR never changes again:
\* no pass closes a row that another pass (an abort, a /cancel) closed before.
RowsAreFinal ==
    [][/\ Len(trades) <= Len(trades')
       /\ \A i \in DOMAIN trades :
             trades'[i] = trades[i] \/ trades[i].status = "OPEN"]_trades

\* p's BotAgent has m as one of the legs it is opening.
Opening(p, m) ==
    /\ pass[p].pc \in {"leg1", "wait1", "leg2", "wait2", "failsafe", "recordLive"}
    /\ m \in Legs(pass[p].cur.pair)

\* The legs on m that some OPEN row, or an entry under way, accounts for.
Claims(m) ==
      Cardinality({i \in OpenRows : m \in Legs(trades[i].pair)})
    + Cardinality({p \in Procs : Opening(p, m)})

\* An order on m may still fill or expire.
Pending(m) == \E o \in inflight : o.market = m

\* No naked leg goes unnoticed: the account never holds more lots of a market
\* than OPEN rows and the entry under way account for, unless an order on it
\* is still pending or a CODE RED about it stands. This is bot_agent.py's
\* promise, kept up through exits, orphans, aborts and cancels; neither real
\* client lets the engine keep it.
LegsAccountedFor ==
    \A m \in Markets :
        \/ Size(net[m]) <= LegLots * Claims(m)
        \/ m \in alarmed
        \/ Pending(m)

\* The only lots that nothing accounts for, with a client that answers with
\* the fill, are those that a close it reported as filled did not close: no
\* caller of place_market_order compares the size of the answer with its own.
\* Whatever is refused, closed outside or filled in part, in entries, exits,
\* orphans, aborts and cancels, adds nothing else.
OnlyShortfallsLeak ==
    \A m \in Markets :
        \/ Size(net[m]) <= LegLots * Claims(m) + shortfall[m]
        \/ m \in alarmed
        \/ Pending(m)

\* A row is written off as RECONCILED only when neither of its legs is live
\* on the exchange at that moment.
ReconciledMeansGone ==
    [][\A i \in DOMAIN trades :
          trades[i].status = "OPEN" /\ trades'[i].reason = "RECONCILED"
             => \A m \in Legs(trades[i].pair) : net[m] = 0]_vars

\* Every request that reaches the engine is over at some time: no pass, and
\* no handler waiting for the lock, is stuck behind another for ever.
PassesEnd ==
    \A p \in Procs : pass[p].pc # "idle" ~> pass[p].pc = "idle"

=============================================================================
