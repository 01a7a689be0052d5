------------------------- MODULE LiveTradingProofs --------------------------
(***************************************************************************)
(* Proofs about LiveTrading, for every value of its constants: any number  *)
(* of handlers, pairs and markets, either kind of client, every fault.     *)
(***************************************************************************)
EXTENDS LiveTrading, TLAPS

(***************************************************************************)
(* The inductive invariant. Everything but types is said of one handler's  *)
(* locals l against the rows tr, so that a step has to be looked at only   *)
(* for the handler that takes it: the others hold no lock, and what is     *)
(* said of a handler outside a pass is vacuous.                            *)
(***************************************************************************)
OpenIn(tr) == {i \in DOMAIN tr : tr[i].status = "OPEN"}

OpeningPcs == {"leg1", "wait1", "leg2", "wait2", "failsafe", "recordLive"}
ExitingPcs == {"close1", "close2", "judge", "persist"}
ClosingPcs == {"close1", "close2", "judge", "persist", "cancel1", "cancel2", "cancelled"}

\* The trade in hand is one of the known pairs.
HandOK(l) ==
    l.pc \in OpeningPcs \cup ClosingPcs \cup {"recordError"} => l.cur.pair \in Pairs

\* The entry scan's own set of open pairs is not stale, and the pair it is
\* opening is not in it.
EntryOK(l, tr) ==
    /\ l.pc \in OpeningPcs \cup {"entry", "recordError"}
          => \A i \in OpenIn(tr) : tr[i].pair \in l.openPairs
    /\ l.pc \in OpeningPcs => l.cur.pair \notin l.openPairs

\* The rows a pass still has to close, and the one in hand, are OPEN.
RowsOK(l, tr) ==
    /\ l.pc \in ExitingPcs \cup {"exit", "mark"} => l.rows \subseteq OpenIn(tr)
    /\ l.pc \in ExitingPcs => l.cur.row \notin l.rows
    /\ l.pc \in ClosingPcs => l.cur.row \in OpenIn(tr)

HandlerOK(l, tr) ==
    /\ l \in Locals
    /\ HandOK(l)
    /\ EntryOK(l, tr)
    /\ RowsOK(l, tr)

LockOK(p) == pass[p].pc \in PassPcs => Holds(p)

StoresOK ==
    /\ AccountType
    /\ trades \in Seq(Trades)
    /\ sessions \in Nat
    /\ starting \in Nat
    /\ waiting \in Seq(Procs)
    /\ downs \in Nat

HandlersOK ==
    /\ pass \in [Procs -> Locals]
    /\ \A p \in Procs : HandlerOK(pass[p], trades) /\ LockOK(p)

UniquePairs ==
    \A i, j \in OpenIn(trades) : trades[i].pair = trades[j].pair => i = j

IInv == StoresOK /\ HandlersOK /\ UniquePairs

-----------------------------------------------------------------------------
(***************************************************************************)
(* The account keeps its types whatever an order does.                     *)
(***************************************************************************)

\* Whatever an order does to an integer position is an integer position.
LEMMA ExecutedInt ==
    ASSUME NEW n \in Int, NEW side, NEW size \in Nat, NEW reduceOnly
    PROVE  Executed(n, side, size, reduceOnly) \in Int
BY DEF Executed, Reduced, Size

\* A size is a natural number.
LEMMA SizeNat == ASSUME NEW n \in Int PROVE Size(n) \in Nat
BY DEF Size

\* Settling into well-typed positions and orders keeps the account well typed.
LEMMA SettleType ==
    ASSUME AccountType,
           NEW positions \in [Markets -> Int], NEW orders \in SUBSET Orders,
           NEW named \in SUBSET Markets, NEW short \in [Markets -> Nat],
           Settle(positions, orders, named, short)
    PROVE  AccountType'
<1>1. \A m \in Markets : Size(positions[m]) \in Nat
  BY SizeNat
<1>. QED BY <1>1 DEF AccountType, Settle

\* A part of an order is a number of lots.
LEMMA FilledNat ==
    ASSUME NEW size \in Nat, NEW lots \in FilledLots(size)
    PROVE  lots \in Nat /\ lots <= size
BY DEF FilledLots

\* So does an order that fills, whole or in part.
LEMMA FillsType ==
    ASSUME AccountType, NEW m \in Markets, NEW side, NEW size \in Nat, NEW reduceOnly,
           NEW lots \in FilledLots(size), NEW orders \in SUBSET Orders,
           NEW named \in SUBSET Markets, Fills(m, side, size, reduceOnly, lots, orders, named)
    PROVE  AccountType'
<1>1. lots \in Nat /\ lots <= size
  BY FilledNat
<1>2. [net EXCEPT ![m] = Executed(@, side, lots, reduceOnly)] \in [Markets -> Int]
  BY <1>1, ExecutedInt DEF AccountType
<1>3. [shortfall EXCEPT ![m] = IF reduceOnly THEN @ + size - lots ELSE @] \in [Markets -> Nat]
  <2>1. \A n \in Nat : n + size - lots \in Nat
    BY <1>1
  <2>. QED BY <2>1 DEF AccountType
<1>. QED BY <1>2, <1>3, SettleType DEF Fills

\* An order that reaches the book keeps the account well typed.
LEMMA TakenType ==
    ASSUME AccountType, NEW m \in Markets, NEW side \in Sides, NEW size \in Nat,
           NEW reduceOnly \in BOOLEAN, NEW named \in SUBSET Markets,
           Taken(m, side, size, reduceOnly, named)
    PROVE  AccountType'
<1>1. CASE Deferred
  <2>1. PICK c \in ClientIds :
            Settle(net,
                   inflight \cup {[client |-> c, market |-> m, side |-> side,
                                   size |-> size, reduceOnly |-> reduceOnly]},
                   named, shortfall)
    BY <1>1 DEF Taken
  <2>2. inflight \cup {[client |-> c, market |-> m, side |-> side,
                        size |-> size, reduceOnly |-> reduceOnly]} \in SUBSET Orders
    BY DEF AccountType, Orders
  <2>. QED BY <2>1, <2>2, SettleType DEF AccountType
<1>2. CASE ~Deferred
  <2>1. PICK lots \in FilledLots(size) :
            Fills(m, side, size, reduceOnly, lots, inflight, named)
    BY <1>2 DEF Taken
  <2>2. inflight \in SUBSET Orders
    BY DEF AccountType
  <2>. QED BY <2>1, <2>2, FillsType
<1>. QED BY <1>1, <1>2

\* So does an order whatever its outcome.
LEMMA PlacedType ==
    ASSUME AccountType, NEW m \in Markets, NEW side \in Sides, NEW size \in Nat,
           NEW reduceOnly \in BOOLEAN, NEW named \in SUBSET Markets,
           \/ Accepted(m, side, size, reduceOnly)
           \/ Refused(m, side, size, reduceOnly, named)
    PROVE  AccountType'
<1>1. CASE Accepted(m, side, size, reduceOnly)
  BY <1>1, TakenType, {} \in SUBSET Markets DEF Accepted
<1>2. CASE Refused(m, side, size, reduceOnly, named)
  <2>1. CASE Settle(net, inflight, named, shortfall)
    BY <2>1, SettleType DEF AccountType
  <2>2. CASE Taken(m, side, size, reduceOnly, named)
    BY <2>2, TakenType
  <2>. QED BY <1>2, <2>1, <2>2 DEF Refused
<1>. QED BY <1>1, <1>2

\* Nothing the exchange does by itself breaks the account's types.
LEMMA ExchangeType ==
    ASSUME AccountType, ExchangeStep
    PROVE  AccountType'
<1>1. CASE OrderEnds
  <2>1. PICK o \in inflight : Fill(o) \/ Expire(o)
    BY <1>1 DEF OrderEnds
  <2>2. o \in Orders /\ inflight \ {o} \in SUBSET Orders
    BY DEF AccountType
  <2>3. o.market \in Markets /\ o.size \in Nat
    BY <2>2 DEF Orders
  <2>4. /\ net \in [Markets -> Int] /\ {} \in SUBSET Markets
        /\ shortfall \in [Markets -> Nat]
    BY DEF AccountType
  <2>5. CASE Fill(o)
    <3>1. PICK lots \in FilledLots(o.size) :
              Fills(o.market, o.side, o.size, o.reduceOnly, lots, inflight \ {o}, {})
      BY <2>5 DEF Fill
    <3>. QED BY <2>2, <2>3, <2>4, <3>1, FillsType
  <2>6. CASE Expire(o)
    BY <2>2, <2>4, <2>6, SettleType DEF Expire
  <2>. QED BY <2>1, <2>5, <2>6
<1>2. ASSUME NEW m \in Markets, ClosedOutside(m) PROVE AccountType'
  <2>1. [net EXCEPT ![m] = 0] \in [Markets -> Int] /\ {} \in SUBSET Markets
    BY DEF AccountType
  <2>2. inflight \in SUBSET Orders /\ shortfall \in [Markets -> Nat]
    BY DEF AccountType
  <2>. QED BY <1>2, <2>1, <2>2, SettleType DEF ClosedOutside
<1>. QED BY <1>1, <1>2 DEF ExchangeStep

-----------------------------------------------------------------------------
(***************************************************************************)
(* A step is looked at only for the handler that takes it.                 *)
(***************************************************************************)

\* The initial locals are fine whatever the rows are.
LEMMA IdleOK == ASSUME NEW tr PROVE HandlerOK(Idle, tr) /\ Idle.pc = "idle"
BY DEF HandlerOK, Idle, Locals, HandOK, EntryOK, RowsOK, OpeningPcs, ExitingPcs, ClosingPcs,
       PassPcs, Kinds, Nothing, Sides, Reasons, Flat

\* Outside a pass nothing is said of the rows.
LEMMA OutsideOK ==
    ASSUME NEW l \in Locals, l.pc \notin PassPcs, NEW tr
    PROVE  HandlerOK(l, tr)
BY DEF HandlerOK, HandOK, EntryOK, RowsOK, OpeningPcs, ExitingPcs, ClosingPcs, PassPcs

\* The handler that holds the lock moves on: the others, which hold none, are
\* in no pass, so whatever happens to the rows does not concern them.
LEMMA LocalStep ==
    ASSUME HandlersOK, NEW p \in Procs, Holds(p), NEW l,
           HandlerOK(l, trades'), Local(p, l)
    PROVE  HandlersOK'
<1>1. l \in Locals
  BY DEF HandlerOK
<1>2. pass' \in [Procs -> Locals]
  BY <1>1 DEF HandlersOK, Local
<1>3. ASSUME NEW q \in Procs
      PROVE  HandlerOK(pass'[q], trades') /\ LockOK(q)'
  <2>1. CASE q = p
    BY <2>1 DEF Local, HandlersOK, LockOK, Holds
  <2>2. CASE q # p
    <3>1. pass'[q] = pass[q] /\ pass[q] \in Locals
      BY <2>2 DEF Local, HandlersOK
    <3>2. pass[q].pc \notin PassPcs
      BY <2>2 DEF HandlersOK, LockOK, Holds
    <3>. QED BY <3>1, <3>2, OutsideOK DEF LockOK
  <2>. QED BY <2>1, <2>2
<1>. QED BY <1>2, <1>3 DEF HandlersOK

\* The handler that holds the lock leaves it.
LEMMA ReleaseStep ==
    ASSUME HandlersOK, NEW p \in Procs, Holds(p), Release(p)
    PROVE  HandlersOK'
<1>1. Idle \in Locals
  BY IdleOK DEF HandlerOK
<1>2. pass' \in [Procs -> Locals]
  BY <1>1 DEF HandlersOK, Release
<1>3. ASSUME NEW q \in Procs
      PROVE  HandlerOK(pass'[q], trades') /\ LockOK(q)'
  <2>1. pass'[q] \in Locals
    BY <1>2
  <2>2. CASE q = p
    <3>1. pass'[q].pc = "idle"
      BY <2>2, IdleOK DEF Release, HandlersOK
    <3>. QED BY <3>1, <2>1, OutsideOK DEF LockOK, PassPcs
  <2>3. CASE q # p
    <3>1. pass'[q] = pass[q]
      BY <2>3 DEF Release, HandlersOK
    <3>2. pass[q].pc \notin PassPcs
      BY <2>3 DEF HandlersOK, LockOK, Holds
    <3>. QED BY <2>1, <3>1, <3>2, OutsideOK DEF LockOK
  <2>. QED BY <2>2, <2>3
<1>. QED BY <1>2, <1>3 DEF HandlersOK

\* The lock's queue stays a sequence of handlers.
LEMMA ReleaseWaiting ==
    ASSUME waiting \in Seq(Procs), NEW p, Holds(p), Release(p)
    PROVE  waiting' \in Seq(Procs)
BY DEF Holds, Release

-----------------------------------------------------------------------------
(***************************************************************************)
(* From a handler's step to the whole invariant.                           *)
(***************************************************************************)

\* A step that leaves the rows alone and moves one handler on.
LEMMA QuietStep ==
    ASSUME IInv, NEW p \in Procs, Holds(p), NEW l, HandlerOK(l, trades),
           Local(p, l), AccountType', UNCHANGED <<trades, sessions, starting, downs>>
    PROVE  IInv'
<1>1. HandlersOK'
  <2>1. HandlerOK(l, trades')
    BY trades' = trades
  <2>. QED BY <2>1, LocalStep DEF IInv
<1>2. StoresOK' /\ UniquePairs'
  BY DEF IInv, StoresOK, UniquePairs, Local, OpenIn
<1>. QED BY <1>1, <1>2 DEF IInv

\* A step that leaves the rows alone and ends one handler's pass.
LEMMA QuietRelease ==
    ASSUME IInv, NEW p \in Procs, Holds(p), Release(p), AccountType',
           UNCHANGED <<trades, sessions, starting>>, downs' \in Nat
    PROVE  IInv'
<1>1. HandlersOK'
  BY ReleaseStep DEF IInv
<1>2. waiting' \in Seq(Procs)
  BY ReleaseWaiting DEF IInv, StoresOK
<1>3. StoresOK' /\ UniquePairs'
  BY <1>2 DEF IInv, StoresOK, UniquePairs, OpenIn
<1>. QED BY <1>1, <1>3 DEF IInv

\* A step that writes the rows and moves one handler on, or ends its pass.
LEMMA RowStep ==
    ASSUME IInv, NEW p \in Procs, Holds(p),
           trades' \in Seq(Trades), UniquePairs',
           \/ \E l : HandlerOK(l, trades') /\ Local(p, l)
           \/ Release(p),
           AccountType', UNCHANGED <<sessions, starting, downs>>
    PROVE  IInv'
<1>1. HandlersOK'
  BY LocalStep, ReleaseStep DEF IInv
<1>2. waiting' \in Seq(Procs)
  BY ReleaseWaiting DEF IInv, StoresOK, Local
<1>3. StoresOK'
  BY <1>2 DEF IInv, StoresOK
<1>. QED BY <1>1, <1>3 DEF IInv

\* An action that leaves the account alone keeps its types.
LEMMA SameAccount == ASSUME AccountType, NoAccountChange PROVE AccountType'
BY DEF AccountType, NoAccountChange, accountVars

(***************************************************************************)
(* What writing a row does to the rows.                                    *)
(***************************************************************************)

\* Closing an OPEN row takes it, and nothing else, out of the OPEN rows.
LEMMA CloseRowFacts ==
    ASSUME trades \in Seq(Trades), NEW i \in OpenIn(trades), NEW reason \in Reasons,
           CloseRow(i, reason)
    PROVE  /\ trades' \in Seq(Trades)
           /\ Len(trades') = Len(trades)
           /\ OpenIn(trades') = OpenIn(trades) \ {i}
           /\ \A j \in DOMAIN trades : trades'[j].pair = trades[j].pair
           /\ \A j \in DOMAIN trades : j # i => trades'[j] = trades[j]
<1>1. i \in DOMAIN trades /\ trades[i] \in Trades
  BY DEF OpenIn
<1>2. [trades[i] EXCEPT !.status = "CLOSED", !.reason = reason] \in Trades
  BY <1>1 DEF Trades, Statuses
<1>3. trades' = [trades EXCEPT ![i] =
                    [trades[i] EXCEPT !.status = "CLOSED", !.reason = reason]]
  BY <1>1 DEF CloseRow
<1>4. /\ trades' \in Seq(Trades) /\ Len(trades') = Len(trades)
      /\ DOMAIN trades' = DOMAIN trades
  BY <1>1, <1>2, <1>3
<1>5. \A j \in DOMAIN trades : j # i => trades'[j] = trades[j]
  BY <1>3
<1>6. trades'[i].status = "CLOSED" /\ trades'[i].pair = trades[i].pair
  BY <1>1, <1>3 DEF Trades
<1>7. OpenIn(trades') = OpenIn(trades) \ {i}
  BY <1>1, <1>4, <1>5, <1>6 DEF OpenIn
<1>. QED BY <1>4, <1>5, <1>6, <1>7

\* With fewer OPEN rows the pairs of those that are left stay distinct.
LEMMA CloseRowUnique ==
    ASSUME IInv, NEW i \in OpenIn(trades), NEW reason \in Reasons, CloseRow(i, reason)
    PROVE  UniquePairs'
<1>1. /\ OpenIn(trades') = OpenIn(trades) \ {i}
      /\ \A j \in OpenIn(trades) : trades'[j].pair = trades[j].pair
  BY CloseRowFacts DEF IInv, StoresOK, OpenIn
<1>. QED BY <1>1 DEF IInv, UniquePairs

\* Recording the trade in hand appends one row.
LEMMA RecordFacts ==
    ASSUME trades \in Seq(Trades), NEW cur, NEW status \in {"OPEN", "ERROR"},
           cur.pair \in Pairs, cur.side \in Sides,
           trades' = Append(trades, Row(cur, status))
    PROVE  /\ trades' \in Seq(Trades)
           /\ Len(trades') = Len(trades) + 1
           /\ \A j \in DOMAIN trades : trades'[j] = trades[j]
           /\ OpenIn(trades') = OpenIn(trades) \cup
                  (IF status = "OPEN" THEN {Len(trades) + 1} ELSE {})
           /\ trades'[Len(trades) + 1].pair = cur.pair
<1>1. Row(cur, status) \in Trades
  BY DEF Row, Trades, Statuses, Reasons
<1>2. /\ trades' \in Seq(Trades) /\ Len(trades') = Len(trades) + 1
      /\ \A j \in DOMAIN trades : trades'[j] = trades[j]
      /\ trades'[Len(trades) + 1] = Row(cur, status)
  BY <1>1
<1>3. /\ DOMAIN trades = 1 .. Len(trades) /\ DOMAIN trades' = 1 .. (Len(trades) + 1)
      /\ Len(trades) \in Nat
  BY <1>2
<1>4. Row(cur, status).status = status /\ Row(cur, status).pair = cur.pair
  BY DEF Row
<1>5. OpenIn(trades') = OpenIn(trades) \cup
          (IF status = "OPEN" THEN {Len(trades) + 1} ELSE {})
  BY <1>2, <1>3, <1>4 DEF OpenIn
<1>. QED BY <1>2, <1>4, <1>5

-----------------------------------------------------------------------------
(***************************************************************************)
(* One lemma per action of the passes: it preserves the invariant.         *)
(***************************************************************************)

\* What the invariant says of the handler that holds the lock.
LEMMA HolderFacts ==
    ASSUME IInv, NEW p \in Procs
    PROVE  /\ pass[p] \in Locals
           /\ HandlerOK(pass[p], trades)
           /\ AccountType
           /\ net \in [Markets -> Int]
           /\ downs \in Nat
BY DEF IInv, HandlersOK, StoresOK, AccountType

\* An admissible report is a well-typed dictionary of positions.
LEMMA ReportType ==
    ASSUME net \in [Markets -> Int], NEW positions \in PositionReports
    PROVE  positions \in [Markets -> Int]
BY DEF PositionReports, Flat

\* A trade's legs are markets, and its sides are sides.
LEMMA LegFacts ==
    ASSUME NEW t, t.pair \in Pairs, t.side \in Sides
    PROVE  /\ t.pair.base \in Markets /\ t.pair.quote \in Markets
           /\ Legs(t.pair) \subseteq Markets
           /\ \A m : LegSide(t, m) \in Sides /\ CloseSide(t, m) \in Sides
BY PairsAssumption DEF Legs, LegSide, CloseSide, Opposite, Sides

\* The actions that end a pass without writing a row: first, a refused scan.
LEMMA EntryRefusedInv == ASSUME IInv, NEW p \in Procs, EntryRefused(p) PROVE IInv'
BY QuietRelease, SameAccount, HolderFacts DEF EntryRefused, Begins, At, NoRowChange, dbVars

\* A scan that has tried every pair ends.
LEMMA EntryDoneInv == ASSUME IInv, NEW p \in Procs, EntryDone(p) PROVE IInv'
BY QuietRelease, SameAccount, HolderFacts DEF EntryDone, Begins, At, NoRowChange, dbVars

\* An exit pass with no OPEN row ends at once.
LEMMA ExitNothingInv == ASSUME IInv, NEW p \in Procs, ExitNothing(p) PROVE IInv'
BY QuietRelease, SameAccount, HolderFacts DEF ExitNothing, Begins, At, NoRowChange, dbVars

\* An exit pass with no row left ends.
LEMMA ExitDoneInv == ASSUME IInv, NEW p \in Procs, ExitDone(p) PROVE IInv'
BY QuietRelease, SameAccount, HolderFacts DEF ExitDone, Begins, At, NoRowChange, dbVars

\* An abort with every row marked ends.
LEMMA AbortDoneInv == ASSUME IInv, NEW p \in Procs, AbortDone(p) PROVE IInv'
BY QuietRelease, SameAccount, HolderFacts DEF AbortDone, Begins, At, NoRowChange, dbVars

\* A /cancel of a pair with no OPEN row ends at once.
LEMMA CancelMissInv == ASSUME IInv, NEW p \in Procs, CancelMiss(p) PROVE IInv'
BY QuietRelease, SameAccount, HolderFacts DEF CancelMiss, Begins, At, NoRowChange, dbVars

\* A connection that fails ends the pass before it begins.
LEMMA ConnectFailsInv == ASSUME IInv, NEW p \in Procs, ConnectFails(p) PROVE IInv'
BY QuietRelease, SameAccount, HolderFacts DEF ConnectFails, Begins, At, NoRowChange, dbVars

\* A database error ends the pass and counts against its bound.
LEMMA DbErrorInv == ASSUME IInv, NEW p \in Procs, DbError(p) PROVE IInv'
<1>1. Holds(p) /\ Release(p) /\ AccountType' /\ downs' \in Nat
  BY HolderFacts, SameAccount DEF DbError, At
<1>. QED BY <1>1, QuietRelease DEF DbError, dbVars

\* A /cancel that could not close both legs alarms, and leaves the row.
LEMMA CancelEscalateInv == ASSUME IInv, NEW p \in Procs, CancelEscalate(p) PROVE IInv'
<1>1. AccountType'
  BY HolderFacts, SettleType DEF CancelEscalate, AccountType, Locals
<1>. QED BY <1>1, QuietRelease, HolderFacts DEF CancelEscalate, At, NoRowChange, dbVars

\* The account is untouched and the handler moves on to locals that are fine.
LEMMA MoveStep ==
    ASSUME IInv, NEW p \in Procs, Holds(p), NEW l, HandlerOK(l, trades),
           Local(p, l), NoAccountChange, NoRowChange
    PROVE  IInv'
BY QuietStep, SameAccount, HolderFacts DEF NoRowChange, dbVars

\* An order is placed and the handler moves on to locals that are fine.
LEMMA OrderStep ==
    ASSUME IInv, NEW p \in Procs, Holds(p), NEW l, HandlerOK(l, trades),
           Local(p, l), AccountType', NoRowChange
    PROVE  IInv'
BY QuietStep DEF NoRowChange, dbVars

\* OpenPairs is what the guard reads: every OPEN row's pair is in it.
LEMMA OpenPairsFacts ==
    ASSUME trades \in Seq(Trades)
    PROVE  /\ OpenPairs \subseteq Pairs
           /\ OpenRows = OpenIn(trades)
           /\ OpenIn(trades) \subseteq Nat
           /\ \A i \in OpenIn(trades) : trades[i].pair \in OpenPairs
<1>1. OpenRows = OpenIn(trades) /\ OpenIn(trades) \subseteq Nat
  BY DEF OpenRows, OpenIn
<1>2. ASSUME NEW i \in OpenIn(trades) PROVE trades[i].pair \in Pairs
  <2>1. trades[i] \in Trades
    BY DEF OpenIn
  <2>. QED BY <2>1 DEF Trades
<1>. QED BY <1>1, <1>2 DEF OpenPairs

\* A scan begins with the pairs that are OPEN at that moment.
LEMMA EntryStartInv == ASSUME IInv, NEW p \in Procs, EntryStart(p) PROVE IInv'
<1>1. PICK positions \in PositionReports :
          Local(p, [pass[p] EXCEPT !.pc = "entry", !.positions = positions,
                                   !.pairs = Pairs, !.openPairs = OpenPairs])
  BY DEF EntryStart
<1>2. positions \in [Markets -> Int]
  BY HolderFacts, ReportType
<1>3. HandlerOK([pass[p] EXCEPT !.pc = "entry", !.positions = positions,
                                !.pairs = Pairs, !.openPairs = OpenPairs], trades)
  BY <1>2, HolderFacts, OpenPairsFacts
     DEF IInv, StoresOK, HandlerOK, HandOK, EntryOK, RowsOK, OpeningPcs, ExitingPcs,
         ClosingPcs, PassPcs, Locals
<1>. QED BY <1>1, <1>3, MoveStep DEF EntryStart, Begins, At

\* A scan passes over a pair.
LEMMA EntrySkipInv ==
    ASSUME IInv, NEW p \in Procs, NEW pair \in Pairs, EntrySkip(p, pair)
    PROVE  IInv'
<1>1. HandlerOK([pass[p] EXCEPT !.pairs = @ \ {pair}], trades)
  BY HolderFacts DEF EntrySkip, At, HandlerOK, HandOK, EntryOK, RowsOK, OpeningPcs, ExitingPcs,
         ClosingPcs, PassPcs, Locals
<1>. QED BY <1>1, MoveStep DEF EntrySkip, At

\* The pair a scan takes in hand is not in its set of open pairs.
LEMMA EntryApprovedInv ==
    ASSUME IInv, NEW p \in Procs, NEW pair \in Pairs, NEW side \in Sides,
           EntryApproved(p, pair, side)
    PROVE  IInv'
<1>. DEFINE cur == [pair |-> pair, side |-> side, row |-> 0, reason |-> "none"]
            l == [pass[p] EXCEPT !.pc = "leg1", !.pairs = @ \ {pair}, !.cur = cur]
<1>2. cur \in [pair: Pairs \cup {NoPair}, side: Sides, row: Nat, reason: Reasons]
  BY DEF Reasons
<1>3. Local(p, l)
  BY DEF EntryApproved
<1>4. cur.pair = pair
  OBVIOUS
<1>5. pass[p].pc = "entry" /\ pair \notin pass[p].openPairs
  BY DEF EntryApproved, AlreadyOpen, At
<1>. HIDE DEF cur
<1>6. l \in Locals /\ l.pc = "leg1" /\ l.cur = cur /\ l.openPairs = pass[p].openPairs
  BY <1>2, HolderFacts DEF Locals, PassPcs
<1>. HIDE DEF l
<1>7. HandlerOK(l, trades)
  BY <1>4, <1>5, <1>6, HolderFacts
     DEF HandlerOK, HandOK, EntryOK, RowsOK, OpeningPcs, ExitingPcs, ClosingPcs
<1>. QED BY <1>3, <1>7, MoveStep DEF EntryApproved, At

\* Moving on among the places where the same trade stays in hand.
LEMMA GotoOK ==
    ASSUME IInv, NEW p \in Procs, NEW pc,
           \/ pass[p].pc \in OpeningPcs /\ pc \in OpeningPcs \cup {"recordError"}
           \/ /\ pass[p].pc \in {"cancel1", "cancel2"}
              /\ pc \in {"cancel2", "cancelled"}
    PROVE  HandlerOK([pass[p] EXCEPT !.pc = pc], trades)
BY HolderFacts DEF HandlerOK, HandOK, EntryOK, RowsOK, OpeningPcs, ExitingPcs,
         ClosingPcs, PassPcs, Locals

\* The legs of a trade being opened or closed are markets of the account.
LEMMA HandFacts ==
    ASSUME IInv, NEW p \in Procs,
           pass[p].pc \in OpeningPcs \cup ClosingPcs \cup {"recordError"}
    PROVE  /\ pass[p].cur.pair \in Pairs /\ pass[p].cur.side \in Sides
           /\ Leg1(p) \in Markets /\ Leg2(p) \in Markets
           /\ \A m : /\ LegSide(pass[p].cur, m) \in Sides
                     /\ CloseSide(pass[p].cur, m) \in Sides
<1>1. pass[p].cur.pair \in Pairs /\ pass[p].cur.side \in Sides
  BY HolderFacts DEF HandlerOK, HandOK, Locals
<1>. QED BY <1>1, LegFacts DEF Leg1, Leg2

\* Submitting an opening leg, whatever becomes of it.
LEMMA SubmitLegInv ==
    ASSUME IInv, NEW p \in Procs, Holds(p), NEW m \in Markets,
           NEW onAccept, NEW onRefuse,
           HandlerOK([pass[p] EXCEPT !.pc = onAccept], trades),
           HandlerOK([pass[p] EXCEPT !.pc = onRefuse], trades),
           LegSide(pass[p].cur, m) \in Sides,
           SubmitLeg(p, m, onAccept, onRefuse)
    PROVE  IInv'
<1>1. AccountType'
  BY PlacedType, HolderFacts, {} \in SUBSET Markets, LotsAssumption, FALSE \in BOOLEAN
     DEF SubmitLeg
<1>2. \/ Local(p, [pass[p] EXCEPT !.pc = onAccept])
      \/ Local(p, [pass[p] EXCEPT !.pc = onRefuse])
  BY DEF SubmitLeg, Goto
<1>. QED BY <1>1, <1>2, OrderStep DEF SubmitLeg

\* The base leg is submitted.
LEMMA PlaceLeg1Inv == ASSUME IInv, NEW p \in Procs, PlaceLeg1(p) PROVE IInv'
<1>1. pass[p].pc \in OpeningPcs
  BY DEF PlaceLeg1, At, OpeningPcs
<1>2. /\ HandlerOK([pass[p] EXCEPT !.pc = "wait1"], trades)
      /\ HandlerOK([pass[p] EXCEPT !.pc = "recordError"], trades)
  BY <1>1, GotoOK DEF OpeningPcs
<1>. QED BY <1>1, <1>2, HandFacts, SubmitLegInv DEF PlaceLeg1, At

\* The quote leg is submitted.
LEMMA PlaceLeg2Inv == ASSUME IInv, NEW p \in Procs, PlaceLeg2(p) PROVE IInv'
<1>1. pass[p].pc \in OpeningPcs
  BY DEF PlaceLeg2, At, OpeningPcs
<1>2. /\ HandlerOK([pass[p] EXCEPT !.pc = "wait2"], trades)
      /\ HandlerOK([pass[p] EXCEPT !.pc = "failsafe"], trades)
  BY <1>1, GotoOK DEF OpeningPcs
<1>. QED BY <1>1, <1>2, HandFacts, SubmitLegInv DEF PlaceLeg2, At

\* The wait for the base leg ends, either way.
LEMMA AwaitLeg1Inv == ASSUME IInv, NEW p \in Procs, AwaitLeg1(p) PROVE IInv'
<1>1. \/ Local(p, [pass[p] EXCEPT !.pc = "leg2"])
      \/ Local(p, [pass[p] EXCEPT !.pc = "recordError"])
  BY DEF AwaitLeg1, AwaitFill, Goto
<1>2. /\ HandlerOK([pass[p] EXCEPT !.pc = "leg2"], trades)
      /\ HandlerOK([pass[p] EXCEPT !.pc = "recordError"], trades)
  BY GotoOK DEF OpeningPcs, AwaitLeg1, At
<1>. QED BY <1>1, <1>2, MoveStep DEF AwaitLeg1, AwaitFill, At

\* The wait for the quote leg ends, either way.
LEMMA AwaitLeg2Inv == ASSUME IInv, NEW p \in Procs, AwaitLeg2(p) PROVE IInv'
<1>1. \/ Local(p, [pass[p] EXCEPT !.pc = "recordLive"])
      \/ Local(p, [pass[p] EXCEPT !.pc = "failsafe"])
  BY DEF AwaitLeg2, AwaitFill, Goto
<1>2. /\ HandlerOK([pass[p] EXCEPT !.pc = "recordLive"], trades)
      /\ HandlerOK([pass[p] EXCEPT !.pc = "failsafe"], trades)
  BY GotoOK DEF OpeningPcs, AwaitLeg2, At
<1>. QED BY <1>1, <1>2, MoveStep DEF AwaitLeg2, AwaitFill, At

\* The base leg is unwound, or alarmed.
LEMMA FailsafeInv == ASSUME IInv, NEW p \in Procs, Failsafe(p) PROVE IInv'
<1>1. pass[p].pc \in OpeningPcs
  BY DEF Failsafe, At, OpeningPcs
<1>2. AccountType'
  BY <1>1, PlacedType, HandFacts, HolderFacts, {Leg1(p)} \in SUBSET Markets,
     LotsAssumption, TRUE \in BOOLEAN
     DEF Failsafe
<1>3. HandlerOK([pass[p] EXCEPT !.pc = "recordError"], trades)
  BY <1>1, GotoOK
<1>. QED BY <1>2, <1>3, OrderStep DEF Failsafe, Goto, At

\* No trade in hand is a value that `cur' may have.
LEMMA NothingType ==
    Nothing \in [pair: Pairs \cup {NoPair}, side: Sides, row: Nat, reason: Reasons]
BY DEF Nothing, Sides, Reasons

\* The rows, and an OPEN one of them, are of their types.
LEMMA RowFacts ==
    ASSUME IInv
    PROVE  /\ trades \in Seq(Trades)
           /\ OpenIn(trades) \subseteq Nat
           /\ OpenIn(trades) \subseteq DOMAIN trades
           /\ \A i \in OpenIn(trades) : /\ trades[i].pair \in Pairs
                                        /\ trades[i].side \in Sides
<1>1. trades \in Seq(Trades) /\ OpenIn(trades) \subseteq Nat
      /\ OpenIn(trades) \subseteq DOMAIN trades
  BY DEF IInv, StoresOK, OpenIn
<1>2. ASSUME NEW i \in OpenIn(trades)
      PROVE  trades[i].pair \in Pairs /\ trades[i].side \in Sides
  <2>1. trades[i] \in Trades
    BY <1>1
  <2>. QED BY <2>1 DEF Trades
<1>. QED BY <1>1, <1>2

\* The new OPEN row's pair has no other: it is not in the scan's own set.
LEMMA RecordLiveInv == ASSUME IInv, NEW p \in Procs, RecordLive(p) PROVE IInv'
<1>. DEFINE cur == pass[p].cur
            l == [pass[p] EXCEPT !.pc = "entry", !.cur = Nothing,
                     !.openPairs = @ \cup {pass[p].cur.pair}]
<1>1. pass[p].pc = "recordLive" /\ Holds(p)
  BY DEF RecordLive, At
<1>2. cur.pair \in Pairs /\ cur.side \in Sides
  BY <1>1, HandFacts DEF OpeningPcs
<1>3. /\ trades' \in Seq(Trades)
      /\ \A j \in DOMAIN trades : trades'[j] = trades[j]
      /\ OpenIn(trades') = OpenIn(trades) \cup {Len(trades) + 1}
      /\ trades'[Len(trades) + 1].pair = cur.pair
  BY <1>2, RecordFacts, RowFacts DEF RecordLive
<1>4. /\ \A i \in OpenIn(trades) : trades[i].pair \in pass[p].openPairs
      /\ cur.pair \notin pass[p].openPairs
  BY <1>1, HolderFacts DEF HandlerOK, EntryOK, OpeningPcs
<1>5. \A i \in OpenIn(trades) : trades'[i].pair = trades[i].pair
  BY <1>3, RowFacts
<1>6. UniquePairs'
  BY <1>3, <1>4, <1>5 DEF UniquePairs, IInv
<1>7. HandlerOK(l, trades')
  <2>1. l \in Locals /\ l.pc = "entry" /\ l.openPairs = pass[p].openPairs \cup {cur.pair}
    BY <1>2, HolderFacts, NothingType DEF Locals, PassPcs
  <2>. HIDE DEF l, cur
  <2>2. \A i \in OpenIn(trades') : trades'[i].pair \in l.openPairs
    BY <1>3, <1>4, <1>5, <2>1
  <2>. QED BY <2>1, <2>2 DEF HandlerOK, HandOK, EntryOK, RowsOK, OpeningPcs, ExitingPcs, ClosingPcs
<1>8. AccountType' /\ UNCHANGED <<sessions, starting, downs>>
  BY HolderFacts, SameAccount DEF RecordLive
<1>9. Local(p, l) \/ Release(p)
  BY DEF RecordLive
<1>. HIDE DEF l
<1>. QED BY <1>1, <1>3, <1>6, <1>7, <1>8, <1>9, RowStep

\* A failed opening appends a row that is not OPEN.
LEMMA RecordErrorInv == ASSUME IInv, NEW p \in Procs, RecordError(p) PROVE IInv'
<1>. DEFINE cur == pass[p].cur
            l == [pass[p] EXCEPT !.pc = "entry", !.cur = Nothing]
<1>1. pass[p].pc = "recordError" /\ Holds(p)
  BY DEF RecordError, At
<1>2. cur.pair \in Pairs /\ cur.side \in Sides
  BY <1>1, HandFacts
<1>3. /\ trades' \in Seq(Trades)
      /\ \A j \in DOMAIN trades : trades'[j] = trades[j]
      /\ OpenIn(trades') = OpenIn(trades)
  BY <1>2, RecordFacts, RowFacts DEF RecordError
<1>4. \A i \in OpenIn(trades) : /\ trades'[i].pair = trades[i].pair
                                /\ trades[i].pair \in pass[p].openPairs
  BY <1>1, <1>3, HolderFacts, RowFacts DEF HandlerOK, EntryOK, OpeningPcs
<1>5. UniquePairs'
  BY <1>3, <1>4 DEF UniquePairs, IInv
<1>6. HandlerOK(l, trades')
  <2>1. l \in Locals /\ l.pc = "entry" /\ l.openPairs = pass[p].openPairs
    BY HolderFacts, NothingType DEF Locals, PassPcs
  <2>. HIDE DEF l, cur
  <2>. QED BY <1>3, <1>4, <2>1 DEF HandlerOK, HandOK, EntryOK, RowsOK, OpeningPcs, ExitingPcs, ClosingPcs
<1>7. AccountType' /\ UNCHANGED <<sessions, starting, downs>>
  BY HolderFacts, SameAccount DEF RecordError
<1>8. Local(p, l)
  BY DEF RecordError
<1>. HIDE DEF l
<1>. QED BY <1>1, <1>3, <1>5, <1>6, <1>7, <1>8, RowStep

\* An exit pass lists the rows that are OPEN at that moment.
LEMMA ExitStartInv == ASSUME IInv, NEW p \in Procs, ExitStart(p) PROVE IInv'
<1>1. PICK positions \in PositionReports :
          Local(p, [pass[p] EXCEPT !.pc = "exit", !.rows = OpenRows,
                                   !.positions = positions])
  BY DEF ExitStart
<1>. DEFINE l == [pass[p] EXCEPT !.pc = "exit", !.rows = OpenRows,
                                 !.positions = positions]
<1>2. OpenRows = OpenIn(trades)
  BY OpenPairsFacts, RowFacts
<1>3. positions \in [Markets -> Int] /\ OpenRows \in SUBSET Nat
  BY <1>2, HolderFacts, ReportType, RowFacts
<1>6. l \in Locals /\ l.pc = "exit" /\ l.rows = OpenRows
  BY <1>3, HolderFacts DEF Locals, PassPcs
<1>. HIDE DEF l
<1>4. HandlerOK(l, trades)
  BY <1>2, <1>6 DEF HandlerOK, HandOK, EntryOK, RowsOK, OpeningPcs, ExitingPcs, ClosingPcs
<1>5. Local(p, l)
  BY <1>1 DEF l
<1>. QED BY <1>4, <1>5, MoveStep DEF ExitStart, Begins, At

\* Dropping a row from those still to do.
LEMMA DropRow ==
    ASSUME IInv, NEW p \in Procs, NEW i, pass[p].pc \in {"exit", "mark"}
    PROVE  /\ [pass[p] EXCEPT !.rows = @ \ {i}] \in Locals
           /\ [pass[p] EXCEPT !.rows = @ \ {i}].pc = pass[p].pc
           /\ [pass[p] EXCEPT !.rows = @ \ {i}].rows = pass[p].rows \ {i}
           /\ pass[p].rows \subseteq OpenIn(trades)
<1>1. pass[p].rows \subseteq OpenIn(trades)
  BY HolderFacts DEF HandlerOK, RowsOK, ExitingPcs
<1>. QED BY <1>1, HolderFacts DEF Locals

\* A row still to do is closed in the table and dropped from the list.
LEMMA CloseAndDrop ==
    ASSUME IInv, NEW p \in Procs, Holds(p), NEW i \in pass[p].rows,
           pass[p].pc \in {"exit", "mark"}, NEW reason \in Reasons,
           CloseRow(i, reason), Local(p, [pass[p] EXCEPT !.rows = @ \ {i}]),
           NoAccountChange, UNCHANGED <<sessions, starting, downs>>
    PROVE  IInv'
<1>. DEFINE l == [pass[p] EXCEPT !.rows = @ \ {i}]
<1>1. /\ l \in Locals /\ l.pc = pass[p].pc
      /\ l.rows = pass[p].rows \ {i}
      /\ i \in OpenIn(trades) /\ pass[p].rows \subseteq OpenIn(trades)
  BY DropRow
<1>2. trades' \in Seq(Trades) /\ OpenIn(trades') = OpenIn(trades) \ {i}
  BY <1>1, CloseRowFacts, RowFacts
<1>3. UniquePairs'
  BY <1>1, CloseRowUnique
<1>4. Local(p, l) /\ AccountType'
  BY HolderFacts, SameAccount
<1>. HIDE DEF l
<1>5. HandlerOK(l, trades')
  BY <1>1, <1>2 DEF HandlerOK, HandOK, EntryOK, RowsOK, OpeningPcs, ExitingPcs, ClosingPcs
<1>. QED BY <1>2, <1>3, <1>4, <1>5, RowStep

\* A row whose legs are both gone is written off.
LEMMA ExitReconcileInv ==
    ASSUME IInv, NEW p \in Procs, NEW i \in DOMAIN trades, ExitReconcile(p, i)
    PROVE  IInv'
<1>1. "RECONCILED" \in Reasons
  BY DEF Reasons
<1>. QED BY <1>1, CloseAndDrop DEF ExitReconcile, At

\* An abort marks a row.
LEMMA AbortMarkInv ==
    ASSUME IInv, NEW p \in Procs, NEW i \in DOMAIN trades, AbortMark(p, i)
    PROVE  IInv'
<1>1. "ABORTED" \in Reasons
  BY DEF Reasons
<1>. QED BY <1>1, CloseAndDrop DEF AbortMark, At

\* A row is held until the next pass.
LEMMA ExitHoldInv ==
    ASSUME IInv, NEW p \in Procs, NEW i \in DOMAIN trades, ExitHold(p, i)
    PROVE  IInv'
<1>. DEFINE l == [pass[p] EXCEPT !.rows = @ \ {i}]
<1>1. pass[p].pc = "exit" /\ Holds(p) /\ Local(p, l) /\ NoAccountChange /\ NoRowChange
  BY DEF ExitHold, At
<1>2. l \in Locals /\ l.pc = "exit" /\ l.rows \subseteq OpenIn(trades)
  BY <1>1, DropRow
<1>. HIDE DEF l
<1>3. HandlerOK(l, trades)
  BY <1>2 DEF HandlerOK, HandOK, EntryOK, RowsOK, OpeningPcs, ExitingPcs, ClosingPcs
<1>. QED BY <1>1, <1>3, MoveStep

\* The locals with row i taken up.
LEMMA TakeUpOK ==
    ASSUME IInv, NEW p \in Procs, pass[p].pc = "exit", NEW i \in pass[p].rows,
           NEW pc \in {"close1", "persist"}, NEW reason \in Reasons
    PROVE  HandlerOK([pass[p] EXCEPT !.pc = pc, !.rows = @ \ {i}, !.acked = {},
                         !.cur = [pair |-> trades[i].pair, side |-> trades[i].side,
                                  row |-> i, reason |-> reason]], trades)
<1>. DEFINE cur == [pair |-> trades[i].pair, side |-> trades[i].side,
                    row |-> i, reason |-> reason]
            l == [pass[p] EXCEPT !.pc = pc, !.rows = @ \ {i}, !.acked = {}, !.cur = cur]
<1>1. pass[p].rows \subseteq OpenIn(trades) /\ i \in OpenIn(trades)
  BY HolderFacts DEF HandlerOK, RowsOK, ExitingPcs
<1>2. trades[i].pair \in Pairs /\ trades[i].side \in Sides /\ i \in Nat
  BY <1>1, RowFacts
<1>3. /\ cur \in [pair: Pairs \cup {NoPair}, side: Sides, row: Nat, reason: Reasons]
      /\ cur.pair \in Pairs /\ cur.row = i
  BY <1>2
<1>. HIDE DEF cur
<1>6. pass[p].rows \ {i} \in SUBSET Nat /\ {} \in SUBSET Markets /\ pc \in PassPcs
  BY <1>1, RowFacts DEF PassPcs
<1>4. l \in Locals /\ l.pc = pc /\ l.rows = pass[p].rows \ {i} /\ l.cur = cur
  BY <1>3, <1>6, HolderFacts DEF Locals
<1>. HIDE DEF l
<1>5. HandlerOK(l, trades)
  BY <1>1, <1>3, <1>4 DEF HandlerOK, HandOK, EntryOK, RowsOK, OpeningPcs, ExitingPcs, ClosingPcs
<1>. QED BY <1>5 DEF l, cur

\* A row whose exit was approved is taken in hand.
LEMMA ExitApprovedInv ==
    ASSUME IInv, NEW p \in Procs, NEW i \in DOMAIN trades, ExitApproved(p, i)
    PROVE  IInv'
<1>1. "SIGNAL" \in Reasons
  BY DEF Reasons
<1>2. pass[p].pc = "exit" /\ Holds(p) /\ i \in pass[p].rows
  BY DEF ExitApproved, At
<1>. QED BY <1>1, <1>2, TakeUpOK, MoveStep DEF ExitApproved, TakeUp

\* A row with one leg left: the leg's order is accepted or refused.
LEMMA ExitOrphanInv ==
    ASSUME IInv, NEW p \in Procs, NEW i \in DOMAIN trades, ExitOrphan(p, i)
    PROVE  IInv'
<1>1. pass[p].pc = "exit" /\ Holds(p) /\ i \in pass[p].rows /\ NoRowChange
  BY DEF ExitOrphan, At
<1>2. PICK m \in Legs(trades[i].pair) :
          \/ /\ Accepted(m, CloseSide(trades[i], m), LegLots, TRUE)
             /\ TakeUp(p, i, "persist", "ORPHANED")
          \/ /\ Refused(m, CloseSide(trades[i], m), LegLots, TRUE, {m})
             /\ Local(p, [pass[p] EXCEPT !.rows = @ \ {i}])
  BY DEF ExitOrphan
<1>3. i \in OpenIn(trades)
  BY <1>1, DropRow
<1>4. m \in Markets /\ CloseSide(trades[i], m) \in Sides
  BY <1>3, RowFacts, LegFacts
<1>5. AccountType'
  BY <1>2, <1>4, PlacedType, HolderFacts, {m} \in SUBSET Markets, LotsAssumption, TRUE \in BOOLEAN
<1>6. CASE TakeUp(p, i, "persist", "ORPHANED")
  <2>1. "ORPHANED" \in Reasons
    BY DEF Reasons
  <2>. QED BY <1>1, <1>5, <1>6, <2>1, TakeUpOK, OrderStep DEF TakeUp
<1>7. CASE Local(p, [pass[p] EXCEPT !.rows = @ \ {i}])
  <2>. DEFINE l == [pass[p] EXCEPT !.rows = @ \ {i}]
  <2>1. l \in Locals /\ l.pc = "exit" /\ l.rows \subseteq OpenIn(trades)
    BY <1>1, DropRow
  <2>. HIDE DEF l
  <2>2. HandlerOK(l, trades)
    BY <2>1 DEF HandlerOK, HandOK, EntryOK, RowsOK, OpeningPcs, ExitingPcs, ClosingPcs
  <2>. QED BY <1>1, <1>5, <1>7, <2>2, OrderStep DEF l
<1>. QED BY <1>2, <1>6, <1>7

\* A closing order on a leg of the trade in hand, whatever becomes of it.
LEMMA CloseLegInv ==
    ASSUME IInv, NEW p \in Procs, Holds(p), NEW m \in Markets, NEW pc,
           pass[p].pc \in ClosingPcs, pc \in ClosingPcs,
           pc \in ExitingPcs => pass[p].pc \in ExitingPcs, CloseLeg(p, m, pc)
    PROVE  IInv'
<1>. DEFINE l1 == [pass[p] EXCEPT !.pc = pc, !.acked = @ \cup {m}]
            l2 == [pass[p] EXCEPT !.pc = pc, !.failed = @ \cup {m}]
<1>1. AccountType'
  BY PlacedType, HandFacts, HolderFacts, {} \in SUBSET Markets, LotsAssumption, TRUE \in BOOLEAN
     DEF CloseLeg
<1>2. pc \in PassPcs
  BY DEF ClosingPcs, PassPcs
<1>3. /\ l1 \in Locals /\ l1.pc = pc
      /\ l1.rows = pass[p].rows /\ l1.cur = pass[p].cur
  BY <1>2, HolderFacts DEF Locals
<1>4. /\ l2 \in Locals /\ l2.pc = pc
      /\ l2.rows = pass[p].rows /\ l2.cur = pass[p].cur
  BY <1>2, HolderFacts DEF Locals
<1>5. (Local(p, l1) \/ Local(p, l2)) /\ NoRowChange
  BY DEF CloseLeg
<1>. HIDE DEF l1, l2
<1>6. HandlerOK(l1, trades)
  BY <1>3, HolderFacts DEF HandlerOK, HandOK, EntryOK, RowsOK, OpeningPcs, ExitingPcs, ClosingPcs
<1>7. HandlerOK(l2, trades)
  BY <1>4, HolderFacts DEF HandlerOK, HandOK, EntryOK, RowsOK, OpeningPcs, ExitingPcs, ClosingPcs
<1>. QED BY <1>1, <1>5, <1>6, <1>7, OrderStep

\* The base leg of an exit.
LEMMA ExitClose1Inv == ASSUME IInv, NEW p \in Procs, ExitClose1(p) PROVE IInv'
<1>1. pass[p].pc \in ClosingPcs /\ Holds(p) /\ "close2" \in ClosingPcs
      /\ pass[p].pc \in ExitingPcs
  BY DEF ExitClose1, At, ClosingPcs, ExitingPcs
<1>. QED BY <1>1, CloseLegInv, HandFacts DEF ExitClose1

\* The quote leg of an exit.
LEMMA ExitClose2Inv == ASSUME IInv, NEW p \in Procs, ExitClose2(p) PROVE IInv'
<1>1. pass[p].pc \in ClosingPcs /\ Holds(p) /\ "judge" \in ClosingPcs
      /\ pass[p].pc \in ExitingPcs
  BY DEF ExitClose2, At, ClosingPcs, ExitingPcs
<1>. QED BY <1>1, CloseLegInv, HandFacts DEF ExitClose2

\* An exit that could not close both legs keeps the row for later.
LEMMA ExitKeepOpenInv == ASSUME IInv, NEW p \in Procs, ExitKeepOpen(p) PROVE IInv'
<1>. DEFINE l == [pass[p] EXCEPT !.pc = "exit", !.cur = Nothing,
                                 !.acked = {}, !.failed = {}]
<1>1. pass[p].pc = "judge" /\ Holds(p) /\ Local(p, l) /\ NoAccountChange /\ NoRowChange
  BY DEF ExitKeepOpen, At
<1>2. l \in Locals /\ l.pc = "exit" /\ l.rows = pass[p].rows
  BY HolderFacts, NothingType DEF Locals, PassPcs
<1>. HIDE DEF l
<1>3. HandlerOK(l, trades)
  BY <1>1, <1>2, HolderFacts DEF HandlerOK, HandOK, EntryOK, RowsOK, OpeningPcs, ExitingPcs, ClosingPcs
<1>. QED BY <1>1, <1>3, MoveStep

\* The row in hand is OPEN, and its reason is one of the reasons.
LEMMA RowInHand ==
    ASSUME IInv, NEW p \in Procs, pass[p].pc \in ClosingPcs
    PROVE  /\ pass[p].cur.row \in OpenIn(trades)
           /\ pass[p].pc \in ExitingPcs => /\ pass[p].cur.row \notin pass[p].rows
                                           /\ pass[p].rows \subseteq OpenIn(trades)
           /\ pass[p].cur.reason \in Reasons
<1>1. pass[p].cur.reason \in Reasons
  BY HolderFacts DEF Locals
<1>. QED BY <1>1, HolderFacts DEF HandlerOK, RowsOK

\* An exit closes the row in hand, which is OPEN.
LEMMA ExitPersistInv == ASSUME IInv, NEW p \in Procs, ExitPersist(p) PROVE IInv'
<1>. DEFINE l == [pass[p] EXCEPT !.pc = "exit", !.cur = Nothing, !.acked = {}]
            i == pass[p].cur.row
<1>1. /\ pass[p].pc \in ClosingPcs /\ pass[p].pc \in ExitingPcs
      /\ Holds(p) /\ Local(p, l) /\ NoAccountChange
      /\ CloseRow(i, pass[p].cur.reason) /\ UNCHANGED <<sessions, starting, downs>>
  BY DEF ExitPersist, At, ClosingPcs, ExitingPcs
<1>2. /\ i \in OpenIn(trades) \ pass[p].rows /\ pass[p].rows \subseteq OpenIn(trades)
      /\ pass[p].cur.reason \in Reasons
  BY <1>1, RowInHand
<1>3. l \in Locals /\ l.pc = "exit" /\ l.rows = pass[p].rows
  BY HolderFacts, NothingType DEF Locals, PassPcs
<1>. HIDE DEF l, i
<1>4. trades' \in Seq(Trades) /\ OpenIn(trades') = OpenIn(trades) \ {i}
  BY <1>1, <1>2, CloseRowFacts, RowFacts
<1>5. UniquePairs'
  BY <1>1, <1>2, CloseRowUnique
<1>6. HandlerOK(l, trades')
  BY <1>2, <1>3, <1>4 DEF HandlerOK, HandOK, EntryOK, RowsOK, OpeningPcs, ExitingPcs, ClosingPcs
<1>7. AccountType'
  BY <1>1, SameAccount, HolderFacts
<1>. QED BY <1>1, <1>4, <1>5, <1>6, <1>7, RowStep

\* A /cancel closes the row in hand, which is OPEN.
LEMMA CancelPersistInv == ASSUME IInv, NEW p \in Procs, CancelPersist(p) PROVE IInv'
<1>. DEFINE i == pass[p].cur.row
<1>1. /\ pass[p].pc \in ClosingPcs /\ Holds(p) /\ Release(p) /\ NoAccountChange
      /\ CloseRow(i, pass[p].cur.reason) /\ UNCHANGED <<sessions, starting, downs>>
  BY DEF CancelPersist, At, ClosingPcs
<1>2. i \in OpenIn(trades) /\ pass[p].cur.reason \in Reasons
  BY <1>1, RowInHand
<1>. HIDE DEF i
<1>3. trades' \in Seq(Trades)
  BY <1>1, <1>2, CloseRowFacts, RowFacts
<1>4. UniquePairs'
  BY <1>1, <1>2, CloseRowUnique
<1>5. AccountType'
  BY <1>1, SameAccount, HolderFacts
<1>. QED BY <1>1, <1>3, <1>4, <1>5, RowStep

\* An abort cancels orders and takes the positions to close.
LEMMA AbortStartInv == ASSUME IInv, NEW p \in Procs, AbortStart(p) PROVE IInv'
<1>1. PICK left \in SUBSET inflight : OrdersCancelled(left)
  BY DEF AbortStart
<1>2. PICK positions \in PositionReports :
          Local(p, [pass[p] EXCEPT !.pc = "abort", !.positions = positions,
                                   !.markets = Live(positions)])
  BY DEF AbortStart
<1>. DEFINE l == [pass[p] EXCEPT !.pc = "abort", !.positions = positions,
                                 !.markets = Live(positions)]
<1>3. AccountType'
  BY <1>1, HolderFacts, SettleType, {} \in SUBSET Markets DEF OrdersCancelled, AccountType
<1>4. positions \in [Markets -> Int] /\ Live(positions) \in SUBSET Markets
  BY HolderFacts, ReportType DEF Live
<1>5. l \in Locals /\ l.pc = "abort"
  BY <1>4, HolderFacts DEF Locals, PassPcs
<1>6. Local(p, l) /\ Holds(p) /\ NoRowChange
  BY <1>2 DEF AbortStart, Begins, At
<1>. HIDE DEF l
<1>7. HandlerOK(l, trades)
  BY <1>5 DEF HandlerOK, HandOK, EntryOK, RowsOK, OpeningPcs, ExitingPcs, ClosingPcs
<1>. QED BY <1>3, <1>6, <1>7, OrderStep

\* An abort closes one position, or fails to.
LEMMA AbortCloseInv ==
    ASSUME IInv, NEW p \in Procs, NEW m \in Markets, AbortClose(p, m)
    PROVE  IInv'
<1>. DEFINE n == pass[p].positions[m]
            side == IF n > 0 THEN "SELL" ELSE "BUY"
            rest == [pass[p] EXCEPT !.markets = @ \ {m}]
            more == [rest EXCEPT !.failed = @ \cup {m}]
<1>1. /\ \/ Accepted(m, side, Size(n), TRUE) /\ Local(p, rest)
         \/ Refused(m, side, Size(n), TRUE, {}) /\ Local(p, more)
      /\ pass[p].pc = "abort" /\ Holds(p) /\ NoRowChange
  BY DEF AbortClose, At
<1>2. n \in Int
  BY HolderFacts DEF Locals
<1>3. Size(n) \in Nat /\ side \in Sides
  BY <1>2, SizeNat DEF Sides
<1>4. AccountType'
  BY <1>1, <1>3, PlacedType, HolderFacts, {} \in SUBSET Markets, TRUE \in BOOLEAN
<1>5. rest \in Locals /\ rest.pc = "abort"
  BY <1>1, HolderFacts DEF Locals
<1>. HIDE DEF rest
<1>6. more \in Locals /\ more.pc = "abort"
  BY <1>5 DEF Locals
<1>. HIDE DEF more
<1>7. HandlerOK(rest, trades) /\ HandlerOK(more, trades)
  BY <1>5, <1>6 DEF HandlerOK, HandOK, EntryOK, RowsOK, OpeningPcs, ExitingPcs, ClosingPcs
<1>. QED BY <1>1, <1>4, <1>7, OrderStep

\* An abort alarms what it could not close, and lists the OPEN rows.
LEMMA AbortEscalateInv == ASSUME IInv, NEW p \in Procs, AbortEscalate(p) PROVE IInv'
<1>. DEFINE l == [pass[p] EXCEPT !.pc = "mark", !.rows = OpenRows]
<1>1. Local(p, l) /\ Holds(p) /\ NoRowChange
  BY DEF AbortEscalate, At
<1>2. AccountType'
  BY HolderFacts, SettleType DEF AbortEscalate, AccountType, Locals
<1>3. OpenRows = OpenIn(trades) /\ OpenRows \in SUBSET Nat
  BY OpenPairsFacts, RowFacts
<1>4. l \in Locals /\ l.pc = "mark" /\ l.rows = OpenIn(trades)
  BY <1>3, HolderFacts DEF Locals, PassPcs
<1>. HIDE DEF l
<1>5. HandlerOK(l, trades)
  BY <1>4 DEF HandlerOK, HandOK, EntryOK, RowsOK, OpeningPcs, ExitingPcs, ClosingPcs
<1>. QED BY <1>1, <1>2, <1>5, OrderStep

\* A /cancel takes an OPEN row in hand.
LEMMA CancelStartInv == ASSUME IInv, NEW p \in Procs, CancelStart(p) PROVE IInv'
<1>1. PICK i \in OpenRows, positions \in PositionReports :
          Local(p, [pass[p] EXCEPT !.pc = "cancel1", !.positions = positions,
                       !.cur = [pair |-> trades[i].pair, side |-> trades[i].side,
                                row |-> i, reason |-> "CANCELLED"]])
  BY DEF CancelStart
<1>. DEFINE cur == [pair |-> trades[i].pair, side |-> trades[i].side,
                    row |-> i, reason |-> "CANCELLED"]
            l == [pass[p] EXCEPT !.pc = "cancel1", !.positions = positions,
                     !.cur = cur]
<1>2. i \in OpenIn(trades) /\ positions \in [Markets -> Int]
  BY HolderFacts, ReportType, OpenPairsFacts, RowFacts
<1>3. trades[i].pair \in Pairs /\ trades[i].side \in Sides /\ i \in Nat
  BY <1>2, RowFacts
<1>4. /\ cur \in [pair: Pairs \cup {NoPair}, side: Sides, row: Nat, reason: Reasons]
      /\ cur.pair \in Pairs /\ cur.row = i
  BY <1>3 DEF Reasons
<1>5. Local(p, l) /\ Holds(p) /\ NoAccountChange /\ NoRowChange
  BY <1>1 DEF CancelStart, Begins, At
<1>. HIDE DEF cur
<1>6. l \in Locals /\ l.pc = "cancel1" /\ l.cur = cur
  BY <1>2, <1>4, HolderFacts DEF Locals, PassPcs
<1>. HIDE DEF l
<1>7. HandlerOK(l, trades)
  BY <1>2, <1>4, <1>6 DEF HandlerOK, HandOK, EntryOK, RowsOK, OpeningPcs, ExitingPcs, ClosingPcs
<1>. QED BY <1>5, <1>7, MoveStep

\* A leg of a /cancel, closed by an order or found closed.
LEMMA CancelLegInv ==
    ASSUME IInv, NEW p \in Procs, Holds(p), NEW m \in Markets,
           pass[p].pc \in {"cancel1", "cancel2"}, NEW pc \in {"cancel2", "cancelled"},
           CancelLeg(p, m, pc)
    PROVE  IInv'
<1>1. CASE CloseLeg(p, m, pc)
  <2>1. pass[p].pc \in ClosingPcs /\ pc \in ClosingPcs /\ pc \notin ExitingPcs
    BY DEF ClosingPcs, ExitingPcs
  <2>. QED BY <1>1, <2>1, CloseLegInv
<1>2. CASE Goto(p, pc) /\ NoAccountChange /\ NoRowChange
  BY <1>2, GotoOK, MoveStep DEF Goto
<1>. QED BY <1>1, <1>2 DEF CancelLeg

\* The base leg of a /cancel.
LEMMA CancelLeg1Inv == ASSUME IInv, NEW p \in Procs, CancelLeg1(p) PROVE IInv'
<1>1. Holds(p) /\ pass[p].pc = "cancel1" /\ pass[p].pc \in ClosingPcs
  BY DEF CancelLeg1, At, ClosingPcs
<1>. QED BY <1>1, HandFacts, CancelLegInv DEF CancelLeg1

\* The quote leg of a /cancel.
LEMMA CancelLeg2Inv == ASSUME IInv, NEW p \in Procs, CancelLeg2(p) PROVE IInv'
<1>1. Holds(p) /\ pass[p].pc = "cancel2" /\ pass[p].pc \in ClosingPcs
  BY DEF CancelLeg2, At, ClosingPcs
<1>. QED BY <1>1, HandFacts, CancelLegInv DEF CancelLeg2

-----------------------------------------------------------------------------
(***************************************************************************)
(* The steps outside the passes.                                           *)
(***************************************************************************)

\* A request queues up behind the lock: nobody else's place changes.
LEMMA RequestInv == ASSUME IInv, NEW p \in Procs, Request(p) PROVE IInv'
<1>1. PICK kind \in Kinds, target \in Pairs :
          pass' = [pass EXCEPT ![p] =
                      [Idle EXCEPT !.kind = kind, !.pc = "start",
                                   !.target = IF kind = "cancel" THEN target ELSE NoPair]]
  BY DEF Request
<1>. DEFINE l == [Idle EXCEPT !.kind = kind, !.pc = "start",
                              !.target = IF kind = "cancel" THEN target ELSE NoPair]
<1>2. /\ waiting' = Append(waiting, p) /\ NoAccountChange /\ NoRowChange
      /\ waiting \in Seq(Procs) /\ pass[p] = Idle
  BY DEF Request, IInv, StoresOK
<1>3. Idle \in Locals
  BY IdleOK DEF HandlerOK
<1>4. l \in Locals /\ l.pc = "start"
  BY <1>3 DEF Locals
<1>5. pass' = [pass EXCEPT ![p] = l]
  BY <1>1
<1>. HIDE DEF l
<1>6. pass' \in [Procs -> Locals]
  BY <1>4, <1>5 DEF IInv, HandlersOK
<1>7. ASSUME NEW q \in Procs
      PROVE  HandlerOK(pass'[q], trades') /\ LockOK(q)'
  <2>1. trades' = trades
    BY <1>2 DEF NoRowChange, dbVars
  <2>2. CASE q = p
    <3>1. pass'[q] = l /\ l.pc \notin PassPcs
      BY <1>4, <1>5, <2>2 DEF IInv, HandlersOK, PassPcs
    <3>. QED BY <1>4, <3>1, OutsideOK DEF LockOK
  <2>3. CASE q # p
    <3>1. pass'[q] = pass[q]
      BY <1>5, <2>3 DEF IInv, HandlersOK
    <3>2. Holds(q) => Holds(q)'
      BY <1>2 DEF Holds
    <3>3. HandlerOK(pass[q], trades) /\ LockOK(q)
      BY DEF IInv, HandlersOK
    <3>. QED BY <2>1, <3>1, <3>2, <3>3 DEF LockOK
  <2>. QED BY <2>2, <2>3
<1>8. HandlersOK'
  BY <1>6, <1>7 DEF HandlersOK
<1>9. StoresOK' /\ UniquePairs'
  BY <1>2, SameAccount DEF IInv, StoresOK, UniquePairs, OpenIn, NoRowChange, dbVars
<1>. QED BY <1>8, <1>9 DEF IInv

\* A step that changes neither rows nor handlers nor the lock.
LEMMA BystanderStep ==
    ASSUME IInv, AccountType', sessions' \in Nat, starting' \in Nat,
           UNCHANGED <<trades, waiting, pass, downs>>
    PROVE  IInv'
<1>1. HandlersOK'
  BY DEF IInv, HandlersOK, LockOK, Holds
<1>2. StoresOK' /\ UniquePairs'
  BY DEF IInv, StoresOK, UniquePairs, OpenIn
<1>. QED BY <1>1, <1>2 DEF IInv

\* Starting and stopping sessions does not touch rows or passes.
LEMMA SessionInv == ASSUME IInv, SessionStep PROVE IInv'
<1>1. sessions \in Nat /\ starting \in Nat /\ AccountType
  BY DEF IInv, StoresOK
<1>2. sessions' \in Nat /\ starting' \in Nat /\ SessionVars
  BY <1>1 DEF SessionStep, StartSession, CreateSession, StopSession
<1>3. AccountType'
  BY <1>1, <1>2, SameAccount DEF SessionVars, NoAccountChange, accountVars
<1>. QED BY <1>2, <1>3, BystanderStep DEF SessionVars

\* Nor does what the exchange does by itself.
LEMMA ExchangeInv == ASSUME IInv, ExchangeStep PROVE IInv'
<1>1. AccountType'
  BY ExchangeType DEF IInv, StoresOK
<1>. QED BY <1>1, BystanderStep DEF ExchangeStep, IInv, StoresOK, dbVars

\* A restart forgets the handlers and the lock together.
LEMMA CrashInv == ASSUME IInv, Crash PROVE IInv'
<1>1. AccountType' /\ trades' = trades /\ sessions' = sessions /\ starting' = 0
      /\ waiting' = <<>> /\ downs' = downs + 1 /\ downs \in Nat
  BY SameAccount DEF Crash, dbVars, IInv, StoresOK
<1>2. Idle \in Locals /\ Idle.pc \notin PassPcs
  BY IdleOK DEF HandlerOK, PassPcs
<1>3. pass' = [p \in Procs |-> Idle]
  BY DEF Crash
<1>4. HandlersOK'
  BY <1>2, <1>3, OutsideOK DEF HandlersOK, LockOK
<1>5. StoresOK' /\ UniquePairs'
  BY <1>1 DEF IInv, StoresOK, UniquePairs, OpenIn
<1>. QED BY <1>4, <1>5 DEF IInv

-----------------------------------------------------------------------------
(***************************************************************************)
(* The invariant, and what follows from it.                                *)
(***************************************************************************)

\* The initial state: an empty table, a flat account, nobody in a pass.
LEMMA InitInv == ASSUME Init PROVE IInv
<1>1. AccountType
  BY DEF Init, AccountInit, AccountType, Flat, Orders
<1>2. Idle \in Locals /\ Idle.pc \notin PassPcs
  BY IdleOK DEF HandlerOK, PassPcs
<1>3. pass = [p \in Procs |-> Idle]
  BY DEF Init
<1>4. HandlersOK
  BY <1>2, <1>3, OutsideOK DEF HandlersOK, LockOK
<1>5. StoresOK /\ UniquePairs
  BY <1>1 DEF Init, StoresOK, UniquePairs, OpenIn
<1>. QED BY <1>4, <1>5 DEF IInv

\* Every step of the coroutine that holds the lock preserves the invariant.
LEMMA PassInv == ASSUME IInv, NEW p \in Procs, PassStep(p) PROVE IInv'
<1>1. CASE EntryStep(p)
  BY <1>1, EntryRefusedInv, EntryStartInv, EntryDoneInv, EntrySkipInv, EntryApprovedInv,
     PlaceLeg1Inv, AwaitLeg1Inv, PlaceLeg2Inv, AwaitLeg2Inv, FailsafeInv,
     RecordLiveInv, RecordErrorInv DEF EntryStep
<1>2. CASE ExitStep(p)
  BY <1>2, ExitNothingInv, ExitStartInv, ExitDoneInv, ExitReconcileInv, ExitOrphanInv,
     ExitHoldInv, ExitApprovedInv, ExitClose1Inv, ExitClose2Inv, ExitKeepOpenInv,
     ExitPersistInv DEF ExitStep
<1>3. CASE AbortStep(p)
  BY <1>3, AbortStartInv, AbortEscalateInv, AbortDoneInv, AbortCloseInv, AbortMarkInv
     DEF AbortStep
<1>4. CASE CancelStep(p)
  BY <1>4, CancelMissInv, CancelStartInv, CancelLeg1Inv, CancelLeg2Inv,
     CancelEscalateInv, CancelPersistInv DEF CancelStep
<1>. QED BY <1>1, <1>2, <1>3, <1>4, ConnectFailsInv DEF PassStep

\* So does every step.
LEMMA NextInv == ASSUME IInv, [Next]_vars PROVE IInv'
<1>1. ASSUME NEW p \in Procs, Request(p) \/ PassStep(p) \/ DbError(p) PROVE IInv'
  BY <1>1, RequestInv, PassInv, DbErrorInv
<1>2. CASE SessionStep
  BY <1>2, SessionInv
<1>3. CASE ExchangeStep
  BY <1>3, ExchangeInv
<1>4. CASE Crash
  BY <1>4, CrashInv
<1>5. CASE UNCHANGED vars
  BY <1>5, SameAccount, BystanderStep
     DEF vars, IInv, StoresOK, NoAccountChange
<1>. QED BY <1>1, <1>2, <1>3, <1>4, <1>5 DEF Next

\* The invariant holds in every reachable state.
THEOREM Invariance == Spec => []IInv
BY InitInv, NextInv, PTL DEF Spec

\* Type correctness, for any number of handlers, pairs and markets.
THEOREM TypeCorrect == Spec => []TypeOK
<1>1. IInv => TypeOK
  BY DEF IInv, StoresOK, HandlersOK, TypeOK
<1>. QED BY <1>1, Invariance, PTL

\* The engine lock serialises the passes: whoever is in one holds it, and only
\* the head of the queue does.
THEOREM Serial == Spec => []SerialPasses
<1>1. IInv => SerialPasses
  BY DEF IInv, HandlersOK, LockOK, Holds, SerialPasses
<1>. QED BY <1>1, Invariance, PTL

\* The scan's own set of open pairs is never stale while it is used, so the
\* guard keeps two OPEN rows from ever naming the same pair.
THEOREM OneRow == Spec => []OneOpenRowPerPair
<1>1. IInv => OneOpenRowPerPair
  BY DEF IInv, UniquePairs, OneOpenRowPerPair, OpenRows, OpenIn
<1>. QED BY <1>1, Invariance, PTL

\* What a step may do to the rows: append one, or close one that is OPEN.
FinalStep ==
    /\ Len(trades) <= Len(trades')
    /\ \A i \in DOMAIN trades :
          trades'[i] = trades[i] \/ trades[i].status = "OPEN"

\* A step that leaves the rows alone.
LEMMA SameRowsFinal ==
    ASSUME IInv, trades' = trades
    PROVE  FinalStep
BY DEF FinalStep, IInv, StoresOK

\* Closing an OPEN row.
LEMMA CloseFinal ==
    ASSUME IInv, NEW i \in OpenIn(trades), NEW reason \in Reasons, CloseRow(i, reason)
    PROVE  FinalStep
<1>1. /\ Len(trades') = Len(trades)
      /\ \A j \in DOMAIN trades : j # i => trades'[j] = trades[j]
  BY CloseRowFacts, RowFacts
<1>2. trades[i].status = "OPEN" /\ Len(trades) \in Nat
  BY RowFacts DEF OpenIn
<1>. QED BY <1>1, <1>2 DEF FinalStep

\* Appending a row.
LEMMA RecordFinal ==
    ASSUME IInv, NEW p \in Procs, RecordLive(p) \/ RecordError(p)
    PROVE  FinalStep
<1>1. pass[p].pc \in OpeningPcs \cup {"recordError"}
  BY DEF RecordLive, RecordError, At, OpeningPcs
<1>2. pass[p].cur.pair \in Pairs /\ pass[p].cur.side \in Sides
  BY <1>1, HandFacts
<1>3. /\ Len(trades') = Len(trades) + 1
      /\ \A j \in DOMAIN trades : trades'[j] = trades[j]
  BY <1>2, RecordFacts, RowFacts DEF RecordLive, RecordError
<1>4. Len(trades) \in Nat
  BY RowFacts
<1>. QED BY <1>3, <1>4 DEF FinalStep

\* A row that a pass closes is one it listed while OPEN, and nobody else can
\* have closed it since.
LEMMA PassFinal == ASSUME IInv, NEW p \in Procs, PassStep(p) PROVE FinalStep
<1>1. ASSUME NEW i \in DOMAIN trades, ExitReconcile(p, i) \/ AbortMark(p, i)
      PROVE  FinalStep
  <2>1. pass[p].pc \in {"exit", "mark"} /\ i \in pass[p].rows
    BY <1>1 DEF ExitReconcile, AbortMark, At
  <2>2. i \in OpenIn(trades)
    BY <2>1, DropRow
  <2>3. "RECONCILED" \in Reasons /\ "ABORTED" \in Reasons
    BY DEF Reasons
  <2>. QED BY <1>1, <2>2, <2>3, CloseFinal DEF ExitReconcile, AbortMark
<1>2. ASSUME ExitPersist(p) \/ CancelPersist(p)
      PROVE  FinalStep
  <2>1. pass[p].pc \in ClosingPcs
    BY <1>2 DEF ExitPersist, CancelPersist, At, ClosingPcs
  <2>. QED BY <1>2, <2>1, RowInHand, CloseFinal DEF ExitPersist, CancelPersist
<1>3. CASE EntryStep(p)
  <2>1. trades' = trades \/ RecordLive(p) \/ RecordError(p)
    BY <1>3 DEF EntryStep, EntryRefused, EntryStart, EntryDone, EntrySkip, EntryApproved,
         PlaceLeg1, PlaceLeg2, SubmitLeg, AwaitLeg1, AwaitLeg2, AwaitFill, Failsafe,
         NoRowChange, dbVars
  <2>. QED BY <2>1, SameRowsFinal, RecordFinal
<1>4. CASE ExitStep(p)
  <2>1. \/ trades' = trades \/ ExitPersist(p)
        \/ \E i \in DOMAIN trades : ExitReconcile(p, i)
    BY <1>4 DEF ExitStep, ExitNothing, ExitStart, ExitDone, ExitOrphan, ExitHold,
         ExitApproved, ExitClose1, ExitClose2, CloseLeg, ExitKeepOpen, NoRowChange, dbVars
  <2>. QED BY <1>1, <1>2, <2>1, SameRowsFinal
<1>5. CASE AbortStep(p)
  <2>1. trades' = trades \/ \E i \in DOMAIN trades : AbortMark(p, i)
    BY <1>5 DEF AbortStep, AbortStart, AbortEscalate, AbortDone, AbortClose,
         NoRowChange, dbVars
  <2>. QED BY <1>1, <2>1, SameRowsFinal
<1>6. CASE CancelStep(p)
  <2>1. trades' = trades \/ CancelPersist(p)
    BY <1>6 DEF CancelStep, CancelMiss, CancelStart, CancelLeg1, CancelLeg2, CancelLeg,
         CloseLeg, CancelEscalate, NoRowChange, dbVars
  <2>. QED BY <1>2, <2>1, SameRowsFinal
<1>7. CASE ConnectFails(p)
  BY <1>7, SameRowsFinal DEF ConnectFails, NoRowChange, dbVars
<1>. QED BY <1>3, <1>4, <1>5, <1>6, <1>7 DEF PassStep

\* A CLOSED or ERROR row is final: whatever interleaving of passes, requests,
\* failures and restarts, none is ever written again.
THEOREM Final == Spec => RowsAreFinal
<1>1. IInv /\ [Next]_vars => [FinalStep]_trades
  <2>. SUFFICES ASSUME IInv, [Next]_vars PROVE FinalStep
    OBVIOUS
  <2>1. ASSUME NEW p \in Procs, PassStep(p) PROVE FinalStep
    BY <2>1, PassFinal
  <2>2. CASE \E p \in Procs : Request(p) \/ DbError(p)
    BY <2>2, SameRowsFinal DEF Request, DbError, NoRowChange, dbVars
  <2>3. CASE SessionStep \/ ExchangeStep \/ Crash
    BY <2>3, SameRowsFinal DEF SessionStep, StartSession, CreateSession, StopSession,
         SessionVars, ExchangeStep, Crash, dbVars
  <2>4. CASE UNCHANGED vars
    BY <2>4, SameRowsFinal DEF vars
  <2>. QED BY <2>1, <2>2, <2>3, <2>4 DEF Next
<1>2. [][FinalStep]_trades => RowsAreFinal
  BY PTL DEF FinalStep, RowsAreFinal
<1>. QED BY <1>1, <1>2, Invariance, PTL DEF Spec

-----------------------------------------------------------------------------
(***************************************************************************)
(* Handlers are served in turn, and the one whose turn it is comes to its  *)
(* end: a pass takes what it has to do from sets that only shrink.         *)
(***************************************************************************)

\* Who has a request is in the queue, once.
QueueOK ==
    /\ \A p \in Procs : pass[p].pc # "idle" <=> \E k \in DOMAIN waiting : waiting[k] = p
    /\ \A j, k \in DOMAIN waiting : waiting[j] = waiting[k] => j = k

\* How far it is to the head of the loop, or to the end of a pass without one.
PassPlace == [entry |-> 0, leg1 |-> 6, wait1 |-> 5, leg2 |-> 4, wait2 |-> 3, failsafe |-> 2,
              recordLive |-> 1, recordError |-> 1, exit |-> 0, close1 |-> 3, close2 |-> 2,
              judge |-> 1, persist |-> 1, abort |-> 0, mark |-> 0, cancel1 |-> 2,
              cancel2 |-> 1, cancelled |-> 0]

\* A pass gets under way, an abort goes from its markets to the rows, or the
\* pass has fewer pairs, rows or markets left, or as many and less of this one.
PassAdvances(l, n) ==
    \/ l.pc = "start" /\ n.pc \in PassPcs
    \/ l.pc = "abort" /\ n.pc = "mark"
    \/ /\ l.pc \in PassPcs /\ n.pc \in PassPcs /\ (n.pc = "abort" => l.pc = "abort")
       /\ n.pairs \subseteq l.pairs /\ n.rows \subseteq l.rows /\ n.markets \subseteq l.markets
       /\ \/ n.pairs # l.pairs \/ n.rows # l.rows \/ n.markets # l.markets
          \/ PassPlace[n.pc] < PassPlace[l.pc]

\* Nobody overtakes p, only the holder of the lock moves, and it moves on.
Served(p) ==
    pass[p].pc # "idle" =>
        \/ pass'[p] = Idle
        \/ /\ \A k \in DOMAIN waiting :
                 waiting[k] = p => \E j \in DOMAIN waiting' : j <= k /\ waiting'[j] = p
           /\ pass'[p] # pass[p] => Holds(p) /\ PassAdvances(pass[p], pass'[p])
ServedInTurn == \A p \in Procs : Served(p)

\* What is needed of a step.
TurnKept == QueueOK' /\ ServedInTurn

\* The holder moves on.
LEMMA OnTurn ==
    ASSUME IInv, QueueOK, NEW p \in Procs, Holds(p), NEW l, Local(p, l),
           pass[p].pc # "idle", PassAdvances(pass[p], l)
    PROVE  TurnKept
<1>1. /\ pass' = [pass EXCEPT ![p] = l] /\ waiting' = waiting
      /\ pass \in [Procs -> Locals] /\ waiting \in Seq(Procs)
  BY DEF Local, IInv, HandlersOK, StoresOK
<1>2. pass'[p] = l /\ \A q \in Procs : q # p => pass'[q] = pass[q]
  BY <1>1
<1>3. l.pc # "idle"
  BY DEF PassAdvances, PassPcs
<1>4. \A k \in DOMAIN waiting : k <= k
  BY <1>1
<1>. QED BY <1>1, <1>2, <1>3, <1>4 DEF TurnKept, QueueOK, ServedInTurn, Served

\* The holder leaves, and everybody behind it moves up.
LEMMA OffTurn ==
    ASSUME IInv, QueueOK, NEW p \in Procs, Holds(p), Release(p) PROVE TurnKept
<1>1. /\ pass' = [pass EXCEPT ![p] = Idle] /\ waiting' = Tail(waiting)
      /\ pass \in [Procs -> Locals] /\ waiting \in Seq(Procs) /\ waiting # <<>>
      /\ Head(waiting) = p
  BY DEF Release, Holds, IInv, HandlersOK, StoresOK
<1>2. pass'[p] = Idle /\ \A q \in Procs : q # p => pass'[q] = pass[q]
  BY <1>1
<1>3. /\ Len(waiting) \in Nat /\ DOMAIN waiting = 1 .. Len(waiting)
      /\ DOMAIN waiting' = 1 .. Len(waiting) - 1 /\ waiting[1] = p
      /\ \A j \in 1 .. Len(waiting) - 1 : waiting'[j] = waiting[j + 1]
  BY <1>1
<1>4. \A j \in DOMAIN waiting' : waiting'[j] # p
  BY <1>3 DEF QueueOK
<1>5. ASSUME NEW q \in Procs, q # p, NEW k \in DOMAIN waiting, waiting[k] = q
      PROVE  k - 1 \in DOMAIN waiting' /\ k - 1 <= k /\ waiting'[k - 1] = q
  BY <1>3, <1>5
<1>6. \A j, k \in DOMAIN waiting' : waiting'[j] = waiting'[k] => j = k
  BY <1>3 DEF QueueOK
<1>7. ASSUME NEW q \in Procs
      PROVE  (pass[q].pc # "idle" <=> \E k \in DOMAIN waiting : waiting[k] = q)'
  <2>1. CASE q = p
    BY <1>2, <1>4, <2>1, IdleOK
  <2>2. CASE q # p
    <3>1. pass[q].pc # "idle" <=> \E k \in DOMAIN waiting : waiting[k] = q
      BY DEF QueueOK
    <3>2. (\E k \in DOMAIN waiting : waiting[k] = q) <=>
              \E j \in DOMAIN waiting' : waiting'[j] = q
      BY <1>3, <1>5, <2>2
    <3>. QED BY <1>2, <2>2, <3>1, <3>2
  <2>. QED BY <2>1, <2>2
<1>8. QueueOK'
  BY <1>6, <1>7 DEF QueueOK
<1>9. ASSUME NEW q \in Procs PROVE Served(q)
  BY <1>2, <1>5 DEF Served
<1>. QED BY <1>8, <1>9 DEF TurnKept, ServedInTurn

\* Who does not touch the handlers leaves them in turn.
LEMMA NoTurn == ASSUME IInv, QueueOK, UNCHANGED <<pass, waiting>> PROVE TurnKept
<1>1. \A k \in DOMAIN waiting : k <= k
  BY DEF IInv, StoresOK
<1>. QED BY <1>1 DEF TurnKept, QueueOK, ServedInTurn, Served

\* A request goes to the end of the queue.
LEMMA RequestTurn == ASSUME IInv, QueueOK, NEW p \in Procs, Request(p) PROVE TurnKept
<1>1. PICK kind, target :
         pass' = [pass EXCEPT ![p] = [Idle EXCEPT !.kind = kind, !.pc = "start",
                                                 !.target = target]]
  BY DEF Request
<1>2. /\ waiting' = Append(waiting, p) /\ pass[p] = Idle
      /\ pass \in [Procs -> Locals] /\ waiting \in Seq(Procs)
  BY DEF Request, IInv, HandlersOK, StoresOK
<1>3. pass'[p].pc = "start" /\ \A q \in Procs : q # p => pass'[q] = pass[q]
  BY <1>1, <1>2 DEF Idle
<1>4. /\ Len(waiting) \in Nat /\ DOMAIN waiting = 1 .. Len(waiting)
      /\ DOMAIN waiting' = 1 .. Len(waiting) + 1 /\ waiting'[Len(waiting) + 1] = p
      /\ \A j \in 1 .. Len(waiting) : waiting'[j] = waiting[j]
  BY <1>2
<1>5. pass[p].pc = "idle" /\ \A j \in DOMAIN waiting : waiting[j] # p
  BY <1>2, IdleOK DEF QueueOK
<1>6. \A j, k \in DOMAIN waiting' : waiting'[j] = waiting'[k] => j = k
  BY <1>4, <1>5 DEF QueueOK
<1>7. ASSUME NEW q \in Procs
      PROVE  (pass[q].pc # "idle" <=> \E k \in DOMAIN waiting : waiting[k] = q)'
  <2>1. CASE q = p
    BY <1>3, <1>4, <2>1
  <2>2. CASE q # p
    <3>1. pass[q].pc # "idle" <=> \E k \in DOMAIN waiting : waiting[k] = q
      BY DEF QueueOK
    <3>2. (\E k \in DOMAIN waiting : waiting[k] = q) <=>
              \E j \in DOMAIN waiting' : waiting'[j] = q
      BY <1>4, <2>2
    <3>. QED BY <1>3, <2>2, <3>1, <3>2
  <2>. QED BY <2>1, <2>2
<1>8. QueueOK'
  BY <1>6, <1>7 DEF QueueOK
<1>9. ASSUME NEW q \in Procs, pass[q].pc # "idle"
      PROVE  pass'[q] = pass[q] /\ \A k \in DOMAIN waiting : waiting[k] = q =>
                 k \in DOMAIN waiting' /\ k <= k /\ waiting'[k] = q
  BY <1>3, <1>4, <1>5, <1>9
<1>. QED BY <1>8, <1>9 DEF TurnKept, ServedInTurn, Served

\* A restart forgets every request.
LEMMA CrashTurn == ASSUME IInv, QueueOK, Crash PROVE TurnKept
<1>1. waiting' = <<>> /\ \A p \in Procs : pass'[p] = Idle
  BY DEF Crash
<1>2. DOMAIN waiting' = {}
  BY <1>1
<1>. QED BY <1>1, <1>2, IdleOK DEF TurnKept, QueueOK, ServedInTurn, Served

\* What is said of the locals of the holder.
LEMMA HolderLocals ==
    ASSUME IInv, NEW p \in Procs, NEW pc, At(p, pc), pc \in PassPcs \cup {"start"}
    PROVE  pass[p] \in Locals /\ pass[p].pc = pc /\ pc # "idle" /\ Holds(p)
BY DEF IInv, HandlersOK, At, PassPcs

\* The steps of an entry scan.
LEMMA EntryTurn == ASSUME IInv, QueueOK, NEW p \in Procs, EntryStep(p) PROVE TurnKept
<1>. DEFINE l == pass[p]
<1>0. ASSUME NEW pc, At(p, pc), pc \in PassPcs \cup {"start"}
      PROVE  l \in Locals /\ l.pc = pc /\ pc # "idle" /\ Holds(p)
  BY <1>0, HolderLocals
<1>1. CASE EntryRefused(p) \/ EntryDone(p)
  BY <1>1, OffTurn DEF EntryRefused, EntryDone, Begins, At
<1>2. CASE EntryStart(p)
  <2>1. At(p, "start")
    BY <1>2 DEF EntryStart, Begins
  <2>2. PICK positions : Local(p, [l EXCEPT !.pc = "entry", !.positions = positions,
                                            !.pairs = Pairs, !.openPairs = OpenPairs])
    BY <1>2 DEF EntryStart
  <2>. DEFINE n == [l EXCEPT !.pc = "entry", !.positions = positions,
                             !.pairs = Pairs, !.openPairs = OpenPairs]
  <2>3. n.pc = "entry"
    BY <1>0, <2>1 DEF Locals
  <2>. HIDE DEF n
  <2>4. PassAdvances(l, n)
    BY <1>0, <2>1, <2>3 DEF PassAdvances, PassPcs
  <2>. QED BY <1>0, <2>1, <2>2, <2>4, OnTurn DEF n
<1>3. ASSUME NEW pair \in Pairs, EntrySkip(p, pair) PROVE TurnKept
  <2>. DEFINE n == [l EXCEPT !.pairs = @ \ {pair}]
  <2>1. At(p, "entry") /\ pair \in l.pairs /\ Local(p, n)
    BY <1>3 DEF EntrySkip
  <2>2. n.pc = l.pc /\ n.pairs = l.pairs \ {pair} /\ n.rows = l.rows /\ n.markets = l.markets
    BY <1>0, <2>1 DEF Locals, PassPcs
  <2>. HIDE DEF n
  <2>3. PassAdvances(l, n)
    BY <1>0, <2>1, <2>2 DEF PassAdvances, PassPcs
  <2>. QED BY <1>0, <2>1, <2>3, OnTurn DEF PassPcs
<1>4. ASSUME NEW pair \in Pairs, NEW side \in Sides, EntryApproved(p, pair, side)
      PROVE  TurnKept
  <2>. DEFINE c == [pair |-> pair, side |-> side, row |-> 0, reason |-> "none"]
              n == [l EXCEPT !.pc = "leg1", !.pairs = @ \ {pair}, !.cur = c]
  <2>1. At(p, "entry") /\ pair \in l.pairs /\ Local(p, n)
    BY <1>4 DEF EntryApproved
  <2>. HIDE DEF c
  <2>2. n.pc = "leg1" /\ n.pairs = l.pairs \ {pair} /\ n.rows = l.rows /\ n.markets = l.markets
    BY <1>0, <2>1 DEF Locals, PassPcs
  <2>. HIDE DEF n
  <2>3. PassAdvances(l, n)
    BY <1>0, <2>1, <2>2 DEF PassAdvances, PassPcs
  <2>. QED BY <1>0, <2>1, <2>3, OnTurn DEF PassPcs
<1>5. ASSUME NEW pc \in PassPcs \ {"abort"}, At(p, pc), NEW to \in PassPcs \ {"abort"},
             PassPlace[to] < PassPlace[pc], Goto(p, to)
      PROVE  TurnKept
  <2>. DEFINE n == [l EXCEPT !.pc = to]
  <2>1. n.pc = to /\ n.pairs = l.pairs /\ n.rows = l.rows /\ n.markets = l.markets
    BY <1>0, <1>5 DEF Locals
  <2>2. Local(p, n)
    BY <1>5 DEF Goto
  <2>. HIDE DEF n
  <2>3. PassAdvances(l, n)
    BY <1>0, <1>5, <2>1 DEF PassAdvances
  <2>. QED BY <1>0, <1>5, <2>2, <2>3, OnTurn
<1>6. CASE PlaceLeg1(p) \/ AwaitLeg1(p) \/ PlaceLeg2(p) \/ AwaitLeg2(p) \/ Failsafe(p)
  <2>1. \/ At(p, "leg1") /\ (Goto(p, "wait1") \/ Goto(p, "recordError"))
        \/ At(p, "wait1") /\ (Goto(p, "leg2") \/ Goto(p, "recordError"))
        \/ At(p, "leg2") /\ (Goto(p, "wait2") \/ Goto(p, "failsafe"))
        \/ At(p, "wait2") /\ (Goto(p, "recordLive") \/ Goto(p, "failsafe"))
        \/ At(p, "failsafe") /\ Goto(p, "recordError")
    BY <1>6 DEF PlaceLeg1, AwaitLeg1, PlaceLeg2, AwaitLeg2, Failsafe, SubmitLeg, AwaitFill
  <2>2. {"leg1", "wait1", "leg2", "wait2", "failsafe", "recordLive", "recordError"}
            \subseteq PassPcs \ {"abort"}
    BY DEF PassPcs
  <2>3. /\ PassPlace["wait1"] < PassPlace["leg1"] /\ PassPlace["recordError"] < PassPlace["leg1"]
        /\ PassPlace["leg2"] < PassPlace["wait1"] /\ PassPlace["recordError"] < PassPlace["wait1"]
        /\ PassPlace["wait2"] < PassPlace["leg2"] /\ PassPlace["failsafe"] < PassPlace["leg2"]
        /\ PassPlace["recordLive"] < PassPlace["wait2"]
        /\ PassPlace["failsafe"] < PassPlace["wait2"]
        /\ PassPlace["recordError"] < PassPlace["failsafe"]
    BY DEF PassPlace
  <2>. QED BY <1>5, <2>1, <2>2, <2>3
<1>7. ASSUME NEW pc \in {"recordLive", "recordError"}, At(p, pc), NEW open,
             Local(p, [l EXCEPT !.pc = "entry", !.cur = Nothing, !.openPairs = open])
      PROVE  TurnKept
  <2>. DEFINE n == [l EXCEPT !.pc = "entry", !.cur = Nothing, !.openPairs = open]
  <2>1. l \in Locals /\ l.pc = pc /\ l.pc # "idle" /\ Holds(p)
    BY <1>0, <1>7 DEF PassPcs
  <2>2. n.pc = "entry" /\ n.pairs = l.pairs /\ n.rows = l.rows /\ n.markets = l.markets
    BY <2>1 DEF Locals
  <2>. HIDE DEF n
  <2>3. PassAdvances(l, n)
    BY <1>7, <2>1, <2>2 DEF PassAdvances, PassPcs, PassPlace
  <2>. QED BY <1>7, <2>1, <2>3, OnTurn DEF n
<1>8. CASE RecordLive(p)
  <2>1. /\ At(p, "recordLive")
        /\ \/ Release(p)
           \/ Local(p, [l EXCEPT !.pc = "entry", !.cur = Nothing,
                                 !.openPairs = @ \cup {l.cur.pair}])
    BY <1>8 DEF RecordLive
  <2>2. l \in Locals /\ Holds(p)
    BY <1>0, <2>1 DEF PassPcs
  <2>3. [l EXCEPT !.pc = "entry", !.cur = Nothing, !.openPairs = @ \cup {l.cur.pair}] =
            [l EXCEPT !.pc = "entry", !.cur = Nothing,
                      !.openPairs = l.openPairs \cup {l.cur.pair}]
    OBVIOUS
  <2>. QED BY <1>7, <2>1, <2>2, <2>3, OffTurn
<1>9. CASE RecordError(p)
  <2>1. At(p, "recordError") /\ Local(p, [l EXCEPT !.pc = "entry", !.cur = Nothing])
    BY <1>9 DEF RecordError
  <2>2. l \in Locals
    BY <1>0, <2>1 DEF PassPcs
  <2>3. [l EXCEPT !.pc = "entry", !.cur = Nothing] =
            [l EXCEPT !.pc = "entry", !.cur = Nothing, !.openPairs = l.openPairs]
    BY <2>2 DEF Locals
  <2>. QED BY <1>7, <2>1, <2>3
<1>. QED BY <1>1, <1>2, <1>3, <1>4, <1>6, <1>8, <1>9 DEF EntryStep

\* A step that only goes to another place of the pass, nearer to its end.
LEMMA GotoTurn ==
    ASSUME IInv, QueueOK, NEW p \in Procs, NEW pc \in PassPcs, At(p, pc),
           NEW to \in PassPcs \ {"abort"}, PassPlace[to] < PassPlace[pc],
           NEW l, Local(p, l), l.pc = to, l.pairs = pass[p].pairs,
           l.rows = pass[p].rows, l.markets = pass[p].markets
    PROVE  TurnKept
<1>1. pass[p] \in Locals /\ pass[p].pc = pc /\ pc # "idle" /\ Holds(p)
  BY HolderLocals
<1>2. PassAdvances(pass[p], l)
  BY <1>1 DEF PassAdvances
<1>. QED BY <1>1, <1>2, OnTurn

\* A step that takes one row up, or off the list.
LEMMA RowTurn ==
    ASSUME IInv, QueueOK, NEW p \in Procs, NEW pc \in {"exit", "mark"}, At(p, pc),
           NEW to \in PassPcs \ {"abort"}, NEW i \in pass[p].rows,
           NEW l, Local(p, l), l.pc = to, l.pairs = pass[p].pairs,
           l.rows = pass[p].rows \ {i}, l.markets = pass[p].markets
    PROVE  TurnKept
<1>1. pass[p] \in Locals /\ pass[p].pc = pc /\ pc # "idle" /\ Holds(p)
  BY HolderLocals DEF PassPcs
<1>2. PassAdvances(pass[p], l)
  BY <1>1 DEF PassAdvances, PassPcs
<1>. QED BY <1>1, <1>2, OnTurn

\* A reduce-only order of a pass, whatever its outcome.
LEMMA CloseTurn ==
    ASSUME IInv, QueueOK, NEW p \in Procs, NEW pc \in PassPcs, At(p, pc), NEW m,
           NEW to \in PassPcs \ {"abort"}, PassPlace[to] < PassPlace[pc],
           CloseLeg(p, m, to)
    PROVE  TurnKept
<1>1. pass[p] \in Locals
  BY HolderLocals
<1>2. \/ Local(p, [pass[p] EXCEPT !.pc = to, !.acked = @ \cup {m}])
      \/ Local(p, [pass[p] EXCEPT !.pc = to, !.failed = @ \cup {m}])
  BY DEF CloseLeg
<1>3. CASE Local(p, [pass[p] EXCEPT !.pc = to, !.acked = @ \cup {m}])
  <2>. DEFINE n == [pass[p] EXCEPT !.pc = to, !.acked = @ \cup {m}]
  <2>1. n.pc = to /\ n.pairs = pass[p].pairs /\ n.rows = pass[p].rows
        /\ n.markets = pass[p].markets
    BY <1>1 DEF Locals
  <2>2. Local(p, n)
    BY <1>3
  <2>. HIDE DEF n
  <2>. QED BY <2>1, <2>2, GotoTurn
<1>4. CASE Local(p, [pass[p] EXCEPT !.pc = to, !.failed = @ \cup {m}])
  <2>. DEFINE n == [pass[p] EXCEPT !.pc = to, !.failed = @ \cup {m}]
  <2>1. n.pc = to /\ n.pairs = pass[p].pairs /\ n.rows = pass[p].rows
        /\ n.markets = pass[p].markets
    BY <1>1 DEF Locals
  <2>2. Local(p, n)
    BY <1>4
  <2>. HIDE DEF n
  <2>. QED BY <2>1, <2>2, GotoTurn
<1>. QED BY <1>2, <1>3, <1>4

\* A pass that gets under way.
LEMMA StartTurn ==
    ASSUME IInv, QueueOK, NEW p \in Procs, At(p, "start"), NEW l, Local(p, l),
           l.pc \in PassPcs
    PROVE  TurnKept
<1>1. pass[p] \in Locals /\ pass[p].pc = "start" /\ Holds(p)
  BY HolderLocals
<1>2. PassAdvances(pass[p], l)
  BY <1>1 DEF PassAdvances
<1>. QED BY <1>1, <1>2, OnTurn

\* The steps of exit management.
LEMMA ExitTurn == ASSUME IInv, QueueOK, NEW p \in Procs, ExitStep(p) PROVE TurnKept
<1>. DEFINE l == pass[p]
<1>0. ASSUME NEW pc, At(p, pc), pc \in PassPcs \cup {"start"}
      PROVE  l \in Locals /\ Holds(p)
  BY <1>0, HolderLocals
<1>1. CASE ExitNothing(p) \/ ExitDone(p)
  BY <1>1, OffTurn DEF ExitNothing, ExitDone, Begins, At
<1>2. CASE ExitStart(p)
  <2>1. At(p, "start")
    BY <1>2 DEF ExitStart, Begins
  <2>2. PICK positions : Local(p, [l EXCEPT !.pc = "exit", !.rows = OpenRows,
                                            !.positions = positions])
    BY <1>2 DEF ExitStart
  <2>. DEFINE n == [l EXCEPT !.pc = "exit", !.rows = OpenRows, !.positions = positions]
  <2>3. n.pc \in PassPcs /\ Local(p, n)
    BY <1>0, <2>1, <2>2 DEF Locals, PassPcs
  <2>. HIDE DEF n
  <2>. QED BY <2>1, <2>3, StartTurn
<1>3. ASSUME NEW i \in l.rows, At(p, "exit"), Local(p, [l EXCEPT !.rows = @ \ {i}])
      PROVE  TurnKept
  <2>. DEFINE n == [l EXCEPT !.rows = @ \ {i}]
  <2>1. n.pc = "exit" /\ n.pairs = l.pairs /\ n.rows = l.rows \ {i} /\ n.markets = l.markets
    BY <1>0, <1>3 DEF Locals, PassPcs, At
  <2>2. Local(p, n)
    BY <1>3
  <2>. HIDE DEF n
  <2>. QED BY <1>3, <2>1, <2>2, RowTurn DEF PassPcs
<1>4. ASSUME NEW i \in l.rows, At(p, "exit"), NEW to \in {"persist", "close1"}, NEW reason,
             TakeUp(p, i, to, reason)
      PROVE  TurnKept
  <2>. DEFINE c == [pair |-> trades[i].pair, side |-> trades[i].side,
                    row |-> i, reason |-> reason]
              n == [l EXCEPT !.pc = to, !.rows = @ \ {i}, !.acked = {}, !.cur = c]
  <2>1. Local(p, n)
    BY <1>4 DEF TakeUp
  <2>. HIDE DEF c
  <2>2. n.pc = to /\ n.pairs = l.pairs /\ n.rows = l.rows \ {i} /\ n.markets = l.markets
    BY <1>0, <1>4 DEF Locals, PassPcs
  <2>. HIDE DEF n
  <2>3. to \in PassPcs \ {"abort"}
    BY <1>4 DEF PassPcs
  <2>. QED BY <1>4, <2>1, <2>2, <2>3, RowTurn
<1>5. ASSUME NEW i \in DOMAIN trades,
             ExitReconcile(p, i) \/ ExitOrphan(p, i) \/ ExitHold(p, i) \/ ExitApproved(p, i)
      PROVE  TurnKept
  <2>1. /\ At(p, "exit") /\ i \in l.rows
        /\ \/ Local(p, [l EXCEPT !.rows = @ \ {i}])
           \/ TakeUp(p, i, "persist", "ORPHANED")
           \/ TakeUp(p, i, "close1", "SIGNAL")
    BY <1>5 DEF ExitReconcile, ExitOrphan, ExitHold, ExitApproved
  <2>. QED BY <1>3, <1>4, <2>1
<1>6. CASE ExitClose1(p) \/ ExitClose2(p)
  <2>1. \E m : \/ At(p, "close1") /\ CloseLeg(p, m, "close2")
               \/ At(p, "close2") /\ CloseLeg(p, m, "judge")
    BY <1>6 DEF ExitClose1, ExitClose2
  <2>2. /\ {"close1", "close2", "judge"} \subseteq PassPcs \ {"abort"}
        /\ PassPlace["close2"] < PassPlace["close1"]
        /\ PassPlace["judge"] < PassPlace["close2"]
    BY DEF PassPcs, PassPlace
  <2>. QED BY <2>1, <2>2, CloseTurn
<1>7. CASE ExitKeepOpen(p) \/ ExitPersist(p)
  <2>1. PICK failed \in {l.failed, {}} : \E pc \in {"persist", "judge"} :
            At(p, pc) /\ Local(p, [l EXCEPT !.pc = "exit", !.cur = Nothing,
                                            !.acked = {}, !.failed = failed])
    <3>1. CASE ExitKeepOpen(p)
      BY <3>1 DEF ExitKeepOpen
    <3>2. CASE ExitPersist(p)
      <4>1. PICK pc \in {"persist", "judge"} : At(p, pc)
        BY <3>2 DEF ExitPersist
      <4>2. Local(p, [l EXCEPT !.pc = "exit", !.cur = Nothing, !.acked = {}])
        BY <3>2 DEF ExitPersist
      <4>3. l \in Locals
        BY <1>0, <4>1 DEF PassPcs
      <4>4. [l EXCEPT !.pc = "exit", !.cur = Nothing, !.acked = {}] =
                [l EXCEPT !.pc = "exit", !.cur = Nothing, !.acked = {}, !.failed = l.failed]
        BY <4>3 DEF Locals
      <4>. QED BY <4>1, <4>2, <4>4
    <3>. QED BY <1>7, <3>1, <3>2
  <2>2. PICK pc \in {"persist", "judge"} : At(p, pc)
    BY <2>1
  <2>. DEFINE n == [l EXCEPT !.pc = "exit", !.cur = Nothing, !.acked = {}, !.failed = failed]
  <2>3. n.pc = "exit" /\ n.pairs = l.pairs /\ n.rows = l.rows /\ n.markets = l.markets
    BY <1>0, <2>2 DEF Locals, PassPcs
  <2>4. Local(p, n)
    BY <2>1
  <2>. HIDE DEF n
  <2>5. pc \in PassPcs /\ "exit" \in PassPcs \ {"abort"} /\ PassPlace["exit"] < PassPlace[pc]
    BY <2>2 DEF PassPcs, PassPlace
  <2>. QED BY <2>2, <2>3, <2>4, <2>5, GotoTurn
<1>. QED BY <1>1, <1>2, <1>5, <1>6, <1>7 DEF ExitStep

\* The steps of an abort.
LEMMA AbortTurn == ASSUME IInv, QueueOK, NEW p \in Procs, AbortStep(p) PROVE TurnKept
<1>. DEFINE l == pass[p]
<1>0. ASSUME NEW pc, At(p, pc), pc \in PassPcs \cup {"start"}
      PROVE  l \in Locals /\ l.pc = pc /\ pc # "idle" /\ Holds(p)
  BY <1>0, HolderLocals
<1>1. CASE AbortDone(p)
  BY <1>1, OffTurn DEF AbortDone, At
<1>2. CASE AbortStart(p)
  <2>1. At(p, "start")
    BY <1>2 DEF AbortStart, Begins
  <2>2. PICK positions : Local(p, [l EXCEPT !.pc = "abort", !.positions = positions,
                                            !.markets = Live(positions)])
    BY <1>2 DEF AbortStart
  <2>. DEFINE n == [l EXCEPT !.pc = "abort", !.positions = positions,
                             !.markets = Live(positions)]
  <2>3. n.pc \in PassPcs /\ Local(p, n)
    BY <1>0, <2>1, <2>2 DEF Locals, PassPcs
  <2>. HIDE DEF n
  <2>. QED BY <2>1, <2>3, StartTurn
<1>3. ASSUME NEW m \in Markets, AbortClose(p, m) PROVE TurnKept
  <2>1. PICK failed \in {l.failed, l.failed \cup {m}} :
            Local(p, [l EXCEPT !.markets = @ \ {m}, !.failed = failed])
    <3>1. At(p, "abort")
      BY <1>3 DEF AbortClose
    <3>2. l \in Locals
      BY <1>0, <3>1 DEF PassPcs
    <3>. DEFINE rest == [l EXCEPT !.markets = @ \ {m}]
    <3>3. Local(p, rest) \/ Local(p, [rest EXCEPT !.failed = @ \cup {m}])
      BY <1>3 DEF AbortClose
    <3>4. /\ rest = [l EXCEPT !.markets = @ \ {m}, !.failed = l.failed]
          /\ [rest EXCEPT !.failed = @ \cup {m}] =
                 [l EXCEPT !.markets = @ \ {m}, !.failed = l.failed \cup {m}]
      BY <3>2 DEF Locals
    <3>. QED BY <3>3, <3>4
  <2>. DEFINE n == [l EXCEPT !.markets = @ \ {m}, !.failed = failed]
  <2>2. At(p, "abort") /\ m \in l.markets
    BY <1>3 DEF AbortClose
  <2>3. n.pc = "abort" /\ n.pairs = l.pairs /\ n.rows = l.rows /\ n.markets = l.markets \ {m}
    BY <1>0, <2>2 DEF Locals, PassPcs
  <2>4. Local(p, n)
    BY <2>1
  <2>. HIDE DEF n
  <2>5. PassAdvances(l, n)
    BY <1>0, <2>2, <2>3 DEF PassAdvances, PassPcs
  <2>. QED BY <1>0, <2>2, <2>4, <2>5, OnTurn DEF PassPcs
<1>4. CASE AbortEscalate(p)
  <2>. DEFINE n == [l EXCEPT !.pc = "mark", !.rows = OpenRows]
  <2>1. At(p, "abort") /\ Local(p, n)
    BY <1>4 DEF AbortEscalate
  <2>2. n.pc = "mark"
    BY <1>0, <2>1 DEF Locals, PassPcs
  <2>. HIDE DEF n
  <2>3. PassAdvances(l, n)
    BY <1>0, <2>1, <2>2 DEF PassAdvances, PassPcs
  <2>. QED BY <1>0, <2>1, <2>3, OnTurn DEF PassPcs
<1>5. ASSUME NEW i \in DOMAIN trades, AbortMark(p, i) PROVE TurnKept
  <2>. DEFINE n == [l EXCEPT !.rows = @ \ {i}]
  <2>1. At(p, "mark") /\ i \in l.rows /\ Local(p, n)
    BY <1>5 DEF AbortMark
  <2>2. n.pc = "mark" /\ n.pairs = l.pairs /\ n.rows = l.rows \ {i} /\ n.markets = l.markets
    BY <1>0, <2>1 DEF Locals, PassPcs
  <2>. HIDE DEF n
  <2>. QED BY <2>1, <2>2, RowTurn DEF PassPcs
<1>. QED BY <1>1, <1>2, <1>3, <1>4, <1>5 DEF AbortStep

\* The steps of a cancel.
LEMMA CancelTurn == ASSUME IInv, QueueOK, NEW p \in Procs, CancelStep(p) PROVE TurnKept
<1>. DEFINE l == pass[p]
<1>0. ASSUME NEW pc, At(p, pc), pc \in PassPcs \cup {"start"}
      PROVE  l \in Locals
  BY <1>0, HolderLocals
<1>1. CASE CancelMiss(p) \/ CancelEscalate(p) \/ CancelPersist(p)
  BY <1>1, OffTurn DEF CancelMiss, CancelEscalate, CancelPersist, Begins, At
<1>2. CASE CancelStart(p)
  <2>1. At(p, "start")
    BY <1>2 DEF CancelStart, Begins
  <2>2. PICK positions, c : Local(p, [l EXCEPT !.pc = "cancel1", !.positions = positions,
                                               !.cur = c])
    BY <1>2 DEF CancelStart
  <2>. DEFINE n == [l EXCEPT !.pc = "cancel1", !.positions = positions, !.cur = c]
  <2>3. n.pc \in PassPcs /\ Local(p, n)
    BY <1>0, <2>1, <2>2 DEF Locals, PassPcs
  <2>. HIDE DEF n
  <2>. QED BY <2>1, <2>3, StartTurn
<1>3. ASSUME NEW pc \in PassPcs, At(p, pc), NEW to \in PassPcs \ {"abort"},
             PassPlace[to] < PassPlace[pc], NEW m, CancelLeg(p, m, to)
      PROVE  TurnKept
  <2>. DEFINE n == [l EXCEPT !.pc = to]
  <2>1. CloseLeg(p, m, to) \/ Local(p, n)
    BY <1>3 DEF CancelLeg, Goto
  <2>2. n.pc = to /\ n.pairs = l.pairs /\ n.rows = l.rows /\ n.markets = l.markets
    BY <1>0, <1>3 DEF Locals
  <2>. HIDE DEF n
  <2>3. CASE CloseLeg(p, m, to)
    BY <1>3, <2>3, CloseTurn
  <2>4. CASE Local(p, n)
    BY <1>3, <2>2, <2>4, GotoTurn
  <2>. QED BY <2>1, <2>3, <2>4
<1>4. CASE CancelLeg1(p) \/ CancelLeg2(p)
  <2>1. \E m : \/ At(p, "cancel1") /\ CancelLeg(p, m, "cancel2")
               \/ At(p, "cancel2") /\ CancelLeg(p, m, "cancelled")
    BY <1>4 DEF CancelLeg1, CancelLeg2
  <2>2. /\ {"cancel1", "cancel2", "cancelled"} \subseteq PassPcs \ {"abort"}
        /\ PassPlace["cancel2"] < PassPlace["cancel1"]
        /\ PassPlace["cancelled"] < PassPlace["cancel2"]
    BY DEF PassPcs, PassPlace
  <2>. QED BY <1>3, <2>1, <2>2
<1>. QED BY <1>1, <1>2, <1>4 DEF CancelStep

\* Every step serves the handlers in turn.
LEMMA StepTurn == ASSUME IInv, QueueOK, [Next]_vars PROVE TurnKept
<1>1. CASE \E p \in Procs : Request(p) \/ PassStep(p) \/ DbError(p)
  <2>1. ASSUME NEW p \in Procs, ConnectFails(p) \/ DbError(p) PROVE TurnKept
    BY <2>1, OffTurn DEF ConnectFails, DbError, At
  <2>. QED BY <1>1, <2>1, RequestTurn, EntryTurn, ExitTurn, AbortTurn, CancelTurn DEF PassStep
<1>2. CASE SessionStep \/ ExchangeStep \/ UNCHANGED vars
  <2>1. UNCHANGED <<pass, waiting>>
    BY <1>2 DEF SessionStep, StartSession, CreateSession, StopSession, SessionVars,
                ExchangeStep, vars
  <2>. QED BY <2>1, NoTurn
<1>. QED BY <1>1, <1>2, CrashTurn DEF Next

\* Handlers are served first come first served: every request is in the queue
\* of the engine's lock, once, and nobody is overtaken; only the handler at the
\* head moves, and whatever its calls return it has less left to do after each
\* step, until it leaves the lock.
THEOREM InTurn == Spec => []QueueOK /\ [][ServedInTurn]_vars
<1>1. Init => QueueOK
  BY IdleOK DEF Init, QueueOK
<1>2. IInv /\ QueueOK /\ [Next]_vars => QueueOK' /\ ServedInTurn
  BY StepTurn DEF TurnKept
<1>. QED BY <1>1, <1>2, Invariance, PTL DEF Spec

=============================================================================
