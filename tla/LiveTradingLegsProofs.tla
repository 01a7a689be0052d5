------------------------ MODULE LiveTradingLegsProofs ------------------------
(***************************************************************************)
(* Proofs about the account of LiveTrading, on top of the invariant of     *)
(* LiveTradingProofs, for a client that answers with the fill              *)
(* (Deferred = FALSE): nothing is left unaccounted for but what partly     *)
(* filled closes leave, and RECONCILED means gone. live_naked and          *)
(* LiveReconcile.cfg show what happens without the hypotheses.             *)
(***************************************************************************)
EXTENDS LiveTradingProofs, FiniteSetTheorems

(***************************************************************************)
(* A pass that closes rows knows which markets are flat: only passes open  *)
(* positions, and it has the lock.                                         *)
(***************************************************************************)
ViewingPcs == ClosingPcs \cup {"exit"}

ViewOK(l) ==
    /\ l.pc \in ViewingPcs => \A m \in Markets : l.positions[m] = 0 => net[m] = 0
    /\ l.pc \in ClosingPcs => l.cur.reason # "RECONCILED"

FillsOK ==
    /\ inflight = {}
    /\ \A i \in OpenIn(trades) : trades[i].reason = "none"
    /\ \A p \in Procs : ViewOK(pass[p])

(***************************************************************************)
(* Legs. What is held on m beside the shortfall of earlier closes is       *)
(* covered with n legs to spare: so many claims may end now, or so many    *)
(* legs may still be bought under the claims there are.                    *)
(***************************************************************************)
Beside(n, short) == IF short < Size(n) THEN Size(n) - short ELSE 0
Held(m) == Beside(net[m], shortfall[m])

Covered(m, n) ==
    /\ n <= Claims(m)
    /\ Held(m) + LegLots * n <= LegLots * Claims(m) \/ m \in alarmed

\* The markets on which handler l has a leg to spare: it claims the leg it has
\* not bought yet, and has closed the leg whose row still claims it.
Spare(l) ==
    CASE l.pc \in {"leg1", "persist"} -> Legs(l.cur.pair)
      [] l.pc \in {"wait1", "leg2", "failsafe"} -> {l.cur.pair.quote}
      [] l.pc \in {"close1", "close2", "judge", "cancel1", "cancel2", "cancelled"} -> l.acked
      [] OTHER -> {}

SpareOK(l) == \A m \in Markets : m \in Spare(l) => Covered(m, 1)

\* The trade in hand is the row's, and `acked' is about this trade.
RowInHandOK(l, tr) ==
    /\ l.pc = "start" => l.acked = {}
    /\ l.pc \in ClosingPcs => tr[l.cur.row].pair = l.cur.pair

\* A leg of a /cancel was closed, was refused, or was not there.
Settled(l, m) == m \in l.acked \cup l.failed \/ l.positions[m] = 0

CancelOK(l) ==
    /\ l.pc \in {"cancel2", "cancelled"} => Settled(l, l.cur.pair.base)
    /\ l.pc = "cancelled" => Settled(l, l.cur.pair.quote)

\* An abort closes all there is, up to shortfalls, or alarms it, before it
\* marks a row.
AbortOK(l) ==
    /\ l.pc = "abort" => \A m \in Markets :
          IF m \in l.markets THEN Held(m) <= Size(l.positions[m])
          ELSE Held(m) = 0 \/ m \in l.failed
    /\ l.pc = "mark" => \A m \in Markets : Held(m) = 0 \/ m \in alarmed

LegsInv ==
    /\ \A m \in Markets : Covered(m, 0)
    /\ \A p \in Procs : /\ SpareOK(pass[p]) /\ RowInHandOK(pass[p], trades)
                        /\ CancelOK(pass[p]) /\ AbortOK(pass[p])

-----------------------------------------------------------------------------
(***************************************************************************)
(* The account, when an order executes at once.                            *)
(***************************************************************************)

\* What a step of the account does to the alarms.
AlarmsKept(named) == alarmed' = {m \in alarmed \cup named : net'[m] # 0}

\* What is held beside the shortfall is a number of lots, and no more than is held.
LEMMA BesideNat ==
    ASSUME NEW n \in Int, NEW short \in Nat
    PROVE  Beside(n, short) \in Nat /\ Beside(n, short) <= Size(n)
BY SizeNat DEF Beside

\* The account after it settles: a shortfall is capped by what is held.
LEMMA SettleFacts ==
    ASSUME NEW positions \in [Markets -> Int], NEW orders, NEW named,
           NEW short \in [Markets -> Nat], Settle(positions, orders, named, short)
    PROVE  /\ net' = positions /\ inflight' = orders /\ AlarmsKept(named)
           /\ \A m \in Markets : Held(m)' = Beside(positions[m], short[m])
<1>1. \A m \in Markets : Size(positions[m]) \in Nat /\ short[m] \in Nat
  BY SizeNat
<1>2. \A m \in Markets :
          shortfall'[m] = IF short[m] <= Size(positions[m]) THEN short[m] ELSE Size(positions[m])
  BY DEF Settle
<1>3. net' = positions /\ inflight' = orders /\ AlarmsKept(named)
  BY DEF Settle, AlarmsKept
<1>. QED BY <1>1, <1>2, <1>3 DEF Held, Beside

\* What an order does to the market it is for, whole or in part: the part that
\* a close left undone is its shortfall.
LEMMA FillFacts ==
    ASSUME AccountType, NEW m \in Markets, NEW side, NEW size \in Nat, NEW reduceOnly,
           NEW lots \in FilledLots(size), NEW named,
           Fills(m, side, size, reduceOnly, lots, inflight, named)
    PROVE  /\ lots \in Nat /\ lots <= size /\ inflight' = inflight /\ AlarmsKept(named)
           /\ net' = [net EXCEPT ![m] = Executed(@, side, lots, reduceOnly)]
           /\ Held(m)' = Beside(net'[m], IF reduceOnly THEN shortfall[m] + size - lots
                                         ELSE shortfall[m])
           /\ \A k \in Markets \ {m} : net'[k] = net[k] /\ Held(k)' = Held(k)
<1>. DEFINE positions == [net EXCEPT ![m] = Executed(@, side, lots, reduceOnly)]
            short == [shortfall EXCEPT ![m] = IF reduceOnly THEN @ + size - lots ELSE @]
<1>1. lots \in Nat /\ lots <= size
  BY FilledNat
<1>2. positions \in [Markets -> Int]
  BY <1>1, ExecutedInt DEF AccountType
<1>3. short \in [Markets -> Nat]
  <2>1. \A n \in Nat : n + size - lots \in Nat
    BY <1>1
  <2>. QED BY <2>1 DEF AccountType
<1>4. /\ \A k \in Markets \ {m} : positions[k] = net[k] /\ short[k] = shortfall[k]
      /\ short[m] = IF reduceOnly THEN shortfall[m] + size - lots ELSE shortfall[m]
  BY DEF AccountType
<1>5. Settle(positions, inflight, named, short)
  BY DEF Fills
<1>. HIDE DEF short
<1>6. /\ net' = positions /\ inflight' = inflight /\ AlarmsKept(named)
      /\ \A k \in Markets : Held(k)' = Beside(positions[k], short[k])
  BY <1>2, <1>3, <1>5, SettleFacts
<1>. QED BY <1>1, <1>4, <1>6 DEF Held

\* Moving towards zero by so many lots.
LEMMA ReducedSize ==
    ASSUME NEW n \in Int, NEW lots \in Nat
    PROVE  /\ Reduced(n, lots) \in Int
           /\ Size(Reduced(n, lots)) = IF Size(n) <= lots THEN 0 ELSE Size(n) - lots
BY DEF Reduced, Size

\* A reduce-only order that is taken, whole or in part, moves its market towards
\* zero, and takes its size off what is held beside the shortfall.
LEMMA ReduceFacts ==
    ASSUME ~ Deferred, AccountType, NEW m \in Markets, NEW side,
           NEW size \in Nat, NEW named, Taken(m, side, size, TRUE, named)
    PROVE  /\ net[m] # 0
           /\ Held(m)' = IF Held(m) <= size THEN 0 ELSE Held(m) - size
           /\ \A k \in Markets \ {m} : net'[k] = net[k] /\ Held(k)' = Held(k)
           /\ inflight' = inflight /\ AlarmsKept(named)
<1>1. PICK lots \in FilledLots(size) :
          /\ Reduces(net[m], side)
          /\ Fills(m, side, size, TRUE, lots, inflight, named)
  BY DEF Taken
<1>2. /\ lots \in Nat /\ lots <= size /\ inflight' = inflight /\ AlarmsKept(named)
      /\ net' = [net EXCEPT ![m] = Executed(@, side, lots, TRUE)]
      /\ Held(m)' = Beside(net'[m], IF TRUE THEN shortfall[m] + size - lots ELSE shortfall[m])
      /\ \A k \in Markets \ {m} : net'[k] = net[k] /\ Held(k)' = Held(k)
  BY <1>1, FillFacts, Zenon
<1>3. net[m] # 0 /\ net'[m] = Reduced(net[m], lots)
  BY <1>1, <1>2 DEF Reduces, Executed, AccountType
<1>4. /\ net[m] \in Int /\ shortfall[m] \in Nat /\ Size(net[m]) \in Nat
      /\ Size(net'[m]) = IF Size(net[m]) <= lots THEN 0 ELSE Size(net[m]) - lots
  BY <1>2, <1>3, ReducedSize, SizeNat DEF AccountType
<1>5. Held(m)' = IF Held(m) <= size THEN 0 ELSE Held(m) - size
  <2>1. lots \in Nat /\ lots <= size
        /\ Held(m)' = Beside(net'[m], shortfall[m] + size - lots)
    BY <1>2
  <2>2. Held(m) = Beside(net[m], shortfall[m])
    BY DEF Held
  <2>. DEFINE now == Held(m)'
  <2>3. now = Beside(net'[m], shortfall[m] + size - lots)
    BY <2>1
  <2>. HIDE DEF now
  <2>4. now = IF Held(m) <= size THEN 0 ELSE Held(m) - size
    BY <1>4, <2>1, <2>2, <2>3 DEF Beside
  <2>. QED BY <2>4 DEF now
<1>. QED BY <1>2, <1>3, <1>5

\* An opening order that is taken adds at most its size.
LEMMA OpenFacts ==
    ASSUME ~ Deferred, AccountType, NEW m \in Markets, NEW side,
           NEW size \in Nat, Taken(m, side, size, FALSE, {})
    PROVE  /\ Held(m)' <= Held(m) + size
           /\ \A k \in Markets \ {m} : net'[k] = net[k] /\ Held(k)' = Held(k)
           /\ inflight' = inflight /\ AlarmsKept({})
<1>1. PICK lots \in FilledLots(size) : Fills(m, side, size, FALSE, lots, inflight, {})
  BY DEF Taken
<1>2. /\ lots \in Nat /\ lots <= size /\ inflight' = inflight /\ AlarmsKept({})
      /\ net' = [net EXCEPT ![m] = Executed(@, side, lots, FALSE)]
      /\ Held(m)' = Beside(net'[m], IF FALSE THEN shortfall[m] + size - lots ELSE shortfall[m])
      /\ \A k \in Markets \ {m} : net'[k] = net[k] /\ Held(k)' = Held(k)
  BY <1>1, FillFacts, Zenon
<1>3. net'[m] = net[m] + lots \/ net'[m] = net[m] - lots
  BY <1>2 DEF Executed, AccountType
<1>4. \A n \in Int : /\ Size(n + lots) <= Size(n) + lots
                     /\ Size(n - lots) <= Size(n) + lots
  BY <1>2 DEF Size
<1>5. /\ net[m] \in Int /\ net'[m] \in Int /\ shortfall[m] \in Nat
      /\ Size(net[m]) \in Nat /\ Size(net'[m]) \in Nat
  <2>1. lots \in Nat
    BY <1>2
  <2>2. net[m] \in Int /\ shortfall[m] \in Nat
    BY DEF AccountType
  <2>. QED BY <1>3, <2>1, <2>2, SizeNat
<1>6. Size(net'[m]) <= Size(net[m]) + lots
  BY <1>3, <1>4, <1>5
<1>7. Held(m)' <= Held(m) + size
  <2>1. lots \in Nat /\ lots <= size
    BY <1>2
  <2>2. Held(m) = Beside(net[m], shortfall[m])
    BY DEF Held
  <2>. DEFINE now == Held(m)'
  <2>3. now = Beside(net'[m], shortfall[m])
    BY <1>2
  <2>. HIDE DEF now
  <2>4. now <= Held(m) + size
    BY <1>5, <1>6, <2>1, <2>2, <2>3 DEF Beside
  <2>. QED BY <2>4 DEF now
<1>. QED BY <1>2, <1>7

\* An order that is refused, and whose reply was not lost, does nothing.
LEMMA RefusedFacts ==
    ASSUME AccountType, "lost" \notin Faults, NEW m, NEW side, NEW size, NEW reduceOnly,
           NEW named, Refused(m, side, size, reduceOnly, named)
    PROVE  /\ net' = net /\ inflight' = inflight /\ AlarmsKept(named)
           /\ \A k \in Markets : Held(k)' = Held(k)
<1>1. Settle(net, inflight, named, shortfall)
  BY DEF Refused
<1>. QED BY <1>1, SettleFacts DEF AccountType, Held

\* Markets that are flat stay so.
Shrinks == \A m \in Markets : net[m] = 0 => net'[m] = 0

\* Whatever becomes of a reduce-only order, also if its reply is lost.
LEMMA ReduceShrinks ==
    ASSUME ~ Deferred, AccountType, NEW m \in Markets, NEW side,
           NEW size \in Nat, NEW named,
           \/ Accepted(m, side, size, TRUE)
           \/ Refused(m, side, size, TRUE, named)
    PROVE  Shrinks /\ inflight' = inflight
<1>1. CASE Accepted(m, side, size, TRUE)
  BY <1>1, ReduceFacts DEF Accepted, Shrinks
<1>2. CASE Settle(net, inflight, named, shortfall)
  BY <1>2 DEF Settle, Shrinks
<1>3. CASE Taken(m, side, size, TRUE, named)
  BY <1>3, ReduceFacts DEF Shrinks
<1>. QED BY <1>1, <1>2, <1>3 DEF Refused

\* Nothing is ever in flight.
LEMMA NoneInFlight ==
    ASSUME ~ Deferred, inflight = {}, NEW m, NEW side, NEW size, NEW reduceOnly, NEW named,
           \/ Accepted(m, side, size, reduceOnly)
           \/ Refused(m, side, size, reduceOnly, named)
    PROVE  inflight' = {}
BY DEF Accepted, Refused, Taken, Fills, Settle

(***************************************************************************)
(* The handler that holds the lock moves; the others are in no pass.       *)
(***************************************************************************)
Moves(p) == \A q \in Procs \ {p} : pass'[q] = pass[q]

\* A handler that steps keeps its record; no other handler's changes.
LEMMA LocalFacts ==
    ASSUME IInv, NEW p \in Procs, NEW l, Local(p, l)
    PROVE  pass'[p] = l /\ Moves(p)
BY DEF IInv, HandlersOK, Local, Moves

\* A handler that gives the lock back is idle; no other handler's record changes.
LEMMA ReleaseFacts ==
    ASSUME IInv, NEW p \in Procs, Release(p)
    PROVE  pass'[p] = Idle /\ pass'[p].pc = "idle" /\ Moves(p)
BY IdleOK DEF IInv, HandlersOK, Release, Moves

\* While one handler holds the lock, no other is in a pass.
LEMMA OthersOut ==
    ASSUME IInv, NEW p \in Procs, Holds(p)
    PROVE  \A q \in Procs \ {p} : pass[q].pc \notin PassPcs
BY DEF IInv, HandlersOK, LockOK, Holds

-----------------------------------------------------------------------------
(***************************************************************************)
(* RECONCILED means gone.                                                  *)
(***************************************************************************)

\* From the handler's own step to all handlers.
LEMMA ViewStep ==
    ASSUME IInv, FillsOK, NEW p \in Procs, Holds(p), Moves(p), inflight' = {},
           \A i \in OpenIn(trades') : trades'[i].reason = "none",
           ViewOK(pass[p])'
    PROVE  FillsOK'
<1>1. ASSUME NEW q \in Procs \ {p} PROVE ViewOK(pass[q])'
  <2>1. pass'[q] = pass[q] /\ pass[q].pc \notin PassPcs
    BY OthersOut DEF Moves
  <2>. QED BY <2>1 DEF ViewOK, ViewingPcs, ClosingPcs, PassPcs
<1>2. \A q \in Procs : ViewOK(pass[q])'
  BY <1>1
<1>. QED BY <1>2 DEF FillsOK, OpenIn

\* The rows and the reasons of those that are OPEN.
LEMMA SameReasons ==
    ASSUME FillsOK, trades' = trades
    PROVE  \A i \in OpenIn(trades') : trades'[i].reason = "none"
BY DEF FillsOK

\* Closing a row takes it out of the OPEN ones and leaves the others alone.
LEMMA CloseReasons ==
    ASSUME IInv, FillsOK, NEW i \in OpenIn(trades), NEW reason \in Reasons,
           CloseRow(i, reason)
    PROVE  \A j \in OpenIn(trades') : trades'[j].reason = "none"
<1>1. /\ OpenIn(trades') = OpenIn(trades) \ {i}
      /\ \A j \in DOMAIN trades : j # i => trades'[j] = trades[j]
  BY CloseRowFacts, RowFacts
<1>. QED BY <1>1, RowFacts DEF FillsOK

\* A new row has no reason yet.
LEMMA RecordReasons ==
    ASSUME IInv, FillsOK, NEW cur, NEW status \in {"OPEN", "ERROR"},
           cur.pair \in Pairs, cur.side \in Sides,
           trades' = Append(trades, Row(cur, status))
    PROVE  \A j \in OpenIn(trades') : trades'[j].reason = "none"
<1>1. /\ \A j \in DOMAIN trades : trades'[j] = trades[j]
      /\ OpenIn(trades') \subseteq OpenIn(trades) \cup {Len(trades) + 1}
  BY RecordFacts, RowFacts
<1>2. trades'[Len(trades) + 1] = Row(cur, status)
  BY RowFacts
<1>3. Row(cur, status).reason = "none"
  BY DEF Row
<1>. QED BY <1>1, <1>2, <1>3, RowFacts DEF FillsOK

\* A pass that closes keeps its view while markets only become flat.
LEMMA ViewKept ==
    ASSUME IInv, FillsOK, NEW p \in Procs, pass[p].pc \in ViewingPcs, Shrinks,
           pass'[p].positions = pass[p].positions,
           pass'[p].cur.reason # "RECONCILED"
    PROVE  ViewOK(pass[p])'
BY DEF FillsOK, ViewOK, Shrinks

\* A pass that begins to close views the account as it is.
LEMMA ViewTaken ==
    ASSUME "query" \notin Faults, NEW p \in Procs, net' = net,
           pass'[p].positions \in PositionReports,
           pass'[p].cur.reason # "RECONCILED"
    PROVE  ViewOK(pass[p])'
BY DEF ViewOK, PositionReports

\* Elsewhere there is nothing to view.
LEMMA ViewNone ==
    ASSUME NEW p, pass'[p].pc \notin ViewingPcs
    PROVE  ViewOK(pass[p])'
BY DEF ViewOK, ViewingPcs

-----------------------------------------------------------------------------
(***************************************************************************)
(* One lemma per kind of step: FillsOK is preserved.                       *)
(***************************************************************************)
Prompt == ~ Deferred /\ "query" \notin Faults

\* A step that leaves account and rows alone.
LEMMA QuietFills ==
    ASSUME IInv, FillsOK, NEW p \in Procs, Holds(p), Moves(p),
           NoAccountChange, trades' = trades, ViewOK(pass[p])'
    PROVE  FillsOK'
BY SameReasons, ViewStep DEF NoAccountChange, accountVars, FillsOK

\* A step that ends a pass and leaves account and rows alone.
LEMMA ReleaseFills ==
    ASSUME IInv, FillsOK, NEW p \in Procs, Holds(p), Release(p), inflight' = {},
           \A i \in OpenIn(trades') : trades'[i].reason = "none"
    PROVE  FillsOK'
<1>1. pass'[p].pc \notin ViewingPcs /\ Moves(p)
  BY ReleaseFacts DEF ViewingPcs, ClosingPcs
<1>. QED BY <1>1, ViewNone, ViewStep

\* The entry scan opens positions and views nothing.
LEMMA EntryFills ==
    ASSUME Prompt, IInv, FillsOK, NEW p \in Procs, EntryStep(p)
    PROVE  FillsOK'
<1>. USE DEF Prompt
<1>0. inflight = {} /\ pass[p] \in Locals
  BY HolderFacts DEF FillsOK
<1>1. CASE EntryRefused(p) \/ EntryDone(p)
  BY <1>0, <1>1, ReleaseFills, SameReasons
     DEF EntryRefused, EntryDone, Begins, At, NoAccountChange, accountVars, NoRowChange, dbVars
<1>2. ASSUME NEW l, Local(p, l), l.pc \notin ViewingPcs, Holds(p), inflight' = {},
             \A i \in OpenIn(trades') : trades'[i].reason = "none"
      PROVE  FillsOK'
  <2>1. pass'[p] = l /\ Moves(p)
    BY <1>2, LocalFacts
  <2>. QED BY <1>2, <2>1, ViewNone, ViewStep
<1>3. CASE EntryStart(p)
  <2>1. PICK positions \in PositionReports :
            Local(p, [pass[p] EXCEPT !.pc = "entry", !.positions = positions,
                                     !.pairs = Pairs, !.openPairs = OpenPairs])
    BY <1>3 DEF EntryStart
  <2>2. Holds(p) /\ inflight' = {} /\ trades' = trades
    BY <1>0, <1>3 DEF EntryStart, Begins, At, NoAccountChange, accountVars, NoRowChange, dbVars
  <2>3. [pass[p] EXCEPT !.pc = "entry", !.positions = positions, !.pairs = Pairs,
                        !.openPairs = OpenPairs].pc = "entry"
    BY <1>0 DEF Locals
  <2>. QED BY <1>2, <2>1, <2>2, <2>3, SameReasons DEF ViewingPcs, ClosingPcs
<1>4. CASE \E pair \in Pairs : EntrySkip(p, pair)
  <2>1. PICK pair \in Pairs : EntrySkip(p, pair)
    BY <1>4
  <2>2. /\ Holds(p) /\ pass[p].pc = "entry" /\ inflight' = {} /\ trades' = trades
        /\ Local(p, [pass[p] EXCEPT !.pairs = @ \ {pair}])
    BY <1>0, <2>1 DEF EntrySkip, At, NoAccountChange, accountVars, NoRowChange, dbVars
  <2>3. [pass[p] EXCEPT !.pairs = @ \ {pair}].pc = "entry"
    BY <1>0, <2>2 DEF Locals
  <2>. QED BY <1>2, <2>2, <2>3, SameReasons DEF ViewingPcs, ClosingPcs
<1>5. CASE \E pair \in Pairs, side \in Sides : EntryApproved(p, pair, side)
  <2>1. PICK pair \in Pairs, side \in Sides : EntryApproved(p, pair, side)
    BY <1>5
  <2>. DEFINE l == [pass[p] EXCEPT !.pc = "leg1", !.pairs = @ \ {pair},
                      !.cur = [pair |-> pair, side |-> side, row |-> 0, reason |-> "none"]]
  <2>2. Holds(p) /\ inflight' = {} /\ trades' = trades /\ Local(p, l)
    BY <1>0, <2>1 DEF EntryApproved, At, NoAccountChange, accountVars, NoRowChange, dbVars
  <2>3. l.pc = "leg1"
    BY <1>0 DEF Locals
  <2>. HIDE DEF l
  <2>. QED BY <1>2, <2>2, <2>3, SameReasons DEF ViewingPcs, ClosingPcs
<1>6. CASE PlaceLeg1(p) \/ AwaitLeg1(p) \/ PlaceLeg2(p) \/ AwaitLeg2(p) \/ Failsafe(p)
  <2>1. /\ Holds(p) /\ trades' = trades
        /\ \E pc \in {"wait1", "recordError", "leg2", "wait2", "failsafe", "recordLive"} :
              Local(p, [pass[p] EXCEPT !.pc = pc])
    BY <1>6 DEF PlaceLeg1, AwaitLeg1, PlaceLeg2, AwaitLeg2, Failsafe, SubmitLeg, AwaitFill,
                Goto, At, NoRowChange, dbVars
  <2>2. inflight' = {}
    BY <1>0, <1>6, NoneInFlight
       DEF PlaceLeg1, AwaitLeg1, PlaceLeg2, AwaitLeg2, Failsafe, SubmitLeg, AwaitFill,
           NoAccountChange, accountVars
  <2>3. PICK pc \in {"wait1", "recordError", "leg2", "wait2", "failsafe", "recordLive"} :
            Local(p, [pass[p] EXCEPT !.pc = pc])
    BY <2>1
  <2>4. [pass[p] EXCEPT !.pc = pc].pc = pc
    BY <1>0 DEF Locals
  <2>. QED BY <1>2, <2>1, <2>2, <2>3, <2>4, SameReasons DEF ViewingPcs, ClosingPcs
<1>7. CASE RecordLive(p) \/ RecordError(p)
  <2>1. /\ Holds(p) /\ inflight' = {} /\ pass[p].pc \in {"recordLive", "recordError"}
        /\ \E status \in {"OPEN", "ERROR"} : trades' = Append(trades, Row(pass[p].cur, status))
    BY <1>0, <1>7 DEF RecordLive, RecordError, At, NoAccountChange, accountVars
  <2>2. pass[p].cur.pair \in Pairs /\ pass[p].cur.side \in Sides
    BY <2>1, HandFacts DEF OpeningPcs
  <2>3. \A i \in OpenIn(trades') : trades'[i].reason = "none"
    BY <2>1, <2>2, RecordReasons
  <2>4. CASE Release(p)
    BY <2>1, <2>3, <2>4, ReleaseFills
  <2>5. ASSUME NEW open,
               \/ Local(p, [pass[p] EXCEPT !.pc = "entry", !.cur = Nothing, !.openPairs = open])
               \/ Local(p, [pass[p] EXCEPT !.pc = "entry", !.cur = Nothing])
        PROVE  FillsOK'
    <3>1. /\ [pass[p] EXCEPT !.pc = "entry", !.cur = Nothing, !.openPairs = open].pc = "entry"
          /\ [pass[p] EXCEPT !.pc = "entry", !.cur = Nothing].pc = "entry"
      BY <1>0 DEF Locals
    <3>. QED BY <1>2, <2>1, <2>3, <2>5, <3>1 DEF ViewingPcs, ClosingPcs
  <2>6. \/ Release(p)
        \/ Local(p, [pass[p] EXCEPT !.pc = "entry", !.cur = Nothing,
                        !.openPairs = pass[p].openPairs \cup {pass[p].cur.pair}])
        \/ Local(p, [pass[p] EXCEPT !.pc = "entry", !.cur = Nothing])
    BY <1>7 DEF RecordLive, RecordError
  <2>. QED BY <2>4, <2>5, <2>6
<1>. QED BY <1>1, <1>3, <1>4, <1>5, <1>6, <1>7 DEF EntryStep

\* A pass keeps its view while it closes: its orders are reduce-only.
LEMMA ExitFills ==
    ASSUME Prompt, IInv, FillsOK, NEW p \in Procs, ExitStep(p)
    PROVE  FillsOK'
<1>. USE DEF Prompt
<1>0. inflight = {} /\ pass[p] \in Locals /\ AccountType
  BY HolderFacts DEF FillsOK
<1>1. CASE ExitNothing(p) \/ ExitDone(p)
  BY <1>0, <1>1, ReleaseFills, SameReasons
     DEF ExitNothing, ExitDone, Begins, At, NoAccountChange, accountVars, NoRowChange, dbVars
<1>2. ASSUME NEW l, Local(p, l), Holds(p), inflight' = {}, Shrinks,
             pass[p].pc \in ViewingPcs, l.positions = pass[p].positions,
             l.pc \in ClosingPcs => l.cur.reason # "RECONCILED",
             \A i \in OpenIn(trades') : trades'[i].reason = "none"
      PROVE  FillsOK'
  <2>1. pass'[p] = l /\ Moves(p)
    BY <1>2, LocalFacts
  <2>2. ViewOK(pass[p])'
    BY <1>2, <2>1 DEF FillsOK, ViewOK, Shrinks
  <2>. QED BY <1>2, <2>1, <2>2, ViewStep
<1>. DEFINE dropped(i) == [pass[p] EXCEPT !.rows = @ \ {i}]
            taken(i, pc, reason) ==
                [pass[p] EXCEPT !.pc = pc, !.rows = @ \ {i}, !.acked = {},
                    !.cur = [pair |-> trades[i].pair, side |-> trades[i].side,
                             row |-> i, reason |-> reason]]
<1>3. ASSUME NEW i, pass[p].pc = "exit"
      PROVE  /\ dropped(i).pc = "exit" /\ dropped(i).positions = pass[p].positions
             /\ \A pc, reason : /\ taken(i, pc, reason).positions = pass[p].positions
                                /\ taken(i, pc, reason).cur.reason = reason
  BY <1>0, <1>3 DEF Locals
<1>4. "exit" \in ViewingPcs /\ "exit" \notin ClosingPcs
  BY DEF ViewingPcs, ClosingPcs
<1>5. CASE ExitStart(p)
  <2>1. PICK positions \in PositionReports :
            Local(p, [pass[p] EXCEPT !.pc = "exit", !.rows = OpenRows,
                                     !.positions = positions])
    BY <1>5 DEF ExitStart
  <2>2. Holds(p) /\ inflight' = {} /\ trades' = trades /\ net' = net
    BY <1>0, <1>5 DEF ExitStart, Begins, At, NoAccountChange, accountVars, NoRowChange, dbVars
  <2>. DEFINE l == [pass[p] EXCEPT !.pc = "exit", !.rows = OpenRows, !.positions = positions]
  <2>5. l.pc = "exit" /\ l.positions = positions /\ Local(p, l)
    BY <1>0, <2>1 DEF Locals
  <2>. HIDE DEF l
  <2>3. pass'[p].pc = "exit" /\ pass'[p].positions = positions /\ Moves(p)
    BY <2>5, LocalFacts
  <2>4. ViewOK(pass[p])'
    BY <1>4, <2>2, <2>3 DEF ViewOK, PositionReports
  <2>. QED BY <2>2, <2>3, <2>4, SameReasons, ViewStep
<1>6. ASSUME NEW i \in DOMAIN trades, ExitReconcile(p, i) PROVE FillsOK'
  <2>1. /\ pass[p].pc = "exit" /\ Holds(p) /\ Local(p, dropped(i)) /\ i \in pass[p].rows
        /\ inflight' = {} /\ Shrinks /\ CloseRow(i, "RECONCILED")
    BY <1>0, <1>6 DEF ExitReconcile, At, NoAccountChange, accountVars, Shrinks
  <2>2. \A j \in OpenIn(trades') : trades'[j].reason = "none"
    BY <2>1, DropRow, CloseReasons DEF Reasons
  <2>. HIDE DEF dropped
  <2>. QED BY <1>2, <1>3, <1>4, <2>1, <2>2
<1>7. ASSUME NEW i \in DOMAIN trades, ExitHold(p, i) PROVE FillsOK'
  <2>1. /\ pass[p].pc = "exit" /\ Holds(p) /\ Local(p, dropped(i))
        /\ inflight' = {} /\ Shrinks /\ trades' = trades
    BY <1>0, <1>7 DEF ExitHold, At, NoAccountChange, accountVars, Shrinks, NoRowChange, dbVars
  <2>. HIDE DEF dropped
  <2>. QED BY <1>2, <1>3, <1>4, <2>1, SameReasons
<1>8. ASSUME NEW i \in DOMAIN trades, ExitApproved(p, i) PROVE FillsOK'
  <2>1. /\ pass[p].pc = "exit" /\ Holds(p) /\ Local(p, taken(i, "close1", "SIGNAL"))
        /\ inflight' = {} /\ Shrinks /\ trades' = trades
    BY <1>0, <1>8 DEF ExitApproved, TakeUp, At, NoAccountChange, accountVars, Shrinks,
                      NoRowChange, dbVars
  <2>. HIDE DEF taken
  <2>. QED BY <1>2, <1>3, <1>4, <2>1, SameReasons
<1>9. ASSUME NEW i \in DOMAIN trades, ExitOrphan(p, i) PROVE FillsOK'
  <2>1. PICK m \in Legs(trades[i].pair) :
            /\ \/ Accepted(m, CloseSide(trades[i], m), LegLots, TRUE)
               \/ Refused(m, CloseSide(trades[i], m), LegLots, TRUE, {m})
            /\ Local(p, taken(i, "persist", "ORPHANED")) \/ Local(p, dropped(i))
    BY <1>9 DEF ExitOrphan, TakeUp
  <2>2. pass[p].pc = "exit" /\ Holds(p) /\ trades' = trades /\ i \in pass[p].rows
    BY <1>9 DEF ExitOrphan, At, NoRowChange, dbVars
  <2>3. m \in Markets
    BY <2>2, DropRow, RowFacts, LegFacts
  <2>4. Shrinks /\ inflight' = {}
    BY <1>0, <2>1, <2>3, ReduceShrinks, LotsAssumption
  <2>5. Local(p, taken(i, "persist", "ORPHANED")) \/ Local(p, dropped(i))
    BY <2>1
  <2>6. FillsOK /\ (\A j \in OpenIn(trades') : trades'[j].reason = "none")
    BY <2>2, SameReasons
  <2>. HIDE DEF taken, dropped
  <2>7. CASE Local(p, dropped(i))
    BY <1>2, <1>3, <1>4, <2>2, <2>4, <2>6, <2>7
  <2>8. CASE Local(p, taken(i, "persist", "ORPHANED"))
    BY <1>2, <1>3, <1>4, <2>2, <2>4, <2>6, <2>8
  <2>. QED BY <2>5, <2>7, <2>8
<1>10. CASE ExitClose1(p) \/ ExitClose2(p)
  <2>1. PICK m \in {Leg1(p), Leg2(p)}, pc \in {"close2", "judge"} : CloseLeg(p, m, pc)
    BY <1>10 DEF ExitClose1, ExitClose2
  <2>2. Holds(p) /\ pass[p].pc \in {"close1", "close2"} /\ trades' = trades
    BY <1>10, <2>1 DEF ExitClose1, ExitClose2, At, CloseLeg, NoRowChange, dbVars
  <2>3. m \in Markets /\ pass[p].pc \in ViewingPcs /\ pass[p].pc \in ClosingPcs
    BY <2>2, HandFacts DEF ClosingPcs, ViewingPcs
  <2>4. Shrinks /\ inflight' = {}
    BY <1>0, <2>1, <2>3, ReduceShrinks, LotsAssumption DEF CloseLeg
  <2>5. pass[p].cur.reason # "RECONCILED"
    BY <2>3 DEF FillsOK, ViewOK
  <2>6. PICK l \in {[pass[p] EXCEPT !.pc = pc, !.acked = @ \cup {m}],
                    [pass[p] EXCEPT !.pc = pc, !.failed = @ \cup {m}]} : Local(p, l)
    BY <2>1 DEF CloseLeg
  <2>7. l.positions = pass[p].positions /\ l.cur = pass[p].cur
    BY <1>0, <2>6 DEF Locals
  <2>. QED BY <1>2, <2>2, <2>3, <2>4, <2>5, <2>6, <2>7, SameReasons
<1>11. CASE ExitKeepOpen(p)
  <2>. DEFINE l == [pass[p] EXCEPT !.pc = "exit", !.cur = Nothing, !.acked = {}, !.failed = {}]
  <2>1. /\ pass[p].pc = "judge" /\ Holds(p) /\ Local(p, l)
        /\ inflight' = {} /\ Shrinks /\ trades' = trades
    BY <1>0, <1>11 DEF ExitKeepOpen, At, NoAccountChange, accountVars, Shrinks,
                       NoRowChange, dbVars
  <2>2. l.pc = "exit" /\ l.positions = pass[p].positions
    BY <1>0 DEF Locals
  <2>. HIDE DEF l
  <2>. QED BY <1>2, <1>4, <2>1, <2>2, SameReasons DEF ViewingPcs, ClosingPcs
<1>12. CASE ExitPersist(p)
  <2>. DEFINE l == [pass[p] EXCEPT !.pc = "exit", !.cur = Nothing, !.acked = {}]
  <2>1. /\ pass[p].pc \in {"judge", "persist"} /\ Holds(p) /\ Local(p, l)
        /\ inflight' = {} /\ Shrinks /\ CloseRow(pass[p].cur.row, pass[p].cur.reason)
    BY <1>0, <1>12 DEF ExitPersist, At, NoAccountChange, accountVars, Shrinks
  <2>2. pass[p].pc \in ClosingPcs /\ pass[p].pc \in ViewingPcs
    BY <2>1 DEF ViewingPcs, ClosingPcs
  <2>3. \A j \in OpenIn(trades') : trades'[j].reason = "none"
    BY <2>1, <2>2, RowInHand, CloseReasons
  <2>4. l.pc = "exit" /\ l.positions = pass[p].positions
    BY <1>0 DEF Locals
  <2>. HIDE DEF l
  <2>. QED BY <1>2, <1>4, <2>1, <2>2, <2>3, <2>4
<1>. QED BY <1>1, <1>5, <1>6, <1>7, <1>8, <1>9, <1>10, <1>11, <1>12 DEF ExitStep

\* An abort views nothing that it relies on when it marks the rows.
LEMMA AbortFills ==
    ASSUME Prompt, IInv, FillsOK, NEW p \in Procs, AbortStep(p)
    PROVE  FillsOK'
<1>. USE DEF Prompt
<1>0. inflight = {} /\ pass[p] \in Locals /\ AccountType
  BY HolderFacts DEF FillsOK
<1>1. CASE AbortDone(p)
  BY <1>0, <1>1, ReleaseFills, SameReasons
     DEF AbortDone, At, NoAccountChange, accountVars, NoRowChange, dbVars
<1>2. ASSUME NEW l, Local(p, l), l.pc \in {"abort", "mark"}, Holds(p), inflight' = {},
             \A i \in OpenIn(trades') : trades'[i].reason = "none"
      PROVE  FillsOK'
  <2>1. pass'[p] = l /\ Moves(p)
    BY <1>2, LocalFacts
  <2>. QED BY <1>2, <2>1, ViewNone, ViewStep DEF ViewingPcs, ClosingPcs
<1>3. CASE AbortStart(p)
  <2>1. PICK positions \in PositionReports :
            Local(p, [pass[p] EXCEPT !.pc = "abort", !.positions = positions,
                                     !.markets = Live(positions)])
    BY <1>3 DEF AbortStart
  <2>2. Holds(p) /\ inflight' = {} /\ trades' = trades
    BY <1>0, <1>3 DEF AbortStart, Begins, At, OrdersCancelled, Settle, NoRowChange, dbVars
  <2>3. [pass[p] EXCEPT !.pc = "abort", !.positions = positions,
                        !.markets = Live(positions)].pc = "abort"
    BY <1>0 DEF Locals
  <2>. QED BY <1>2, <2>1, <2>2, <2>3, SameReasons
<1>4. CASE AbortEscalate(p)
  <2>1. /\ Holds(p) /\ inflight' = {} /\ trades' = trades
        /\ Local(p, [pass[p] EXCEPT !.pc = "mark", !.rows = OpenRows])
    BY <1>0, <1>4 DEF AbortEscalate, At, Settle, NoRowChange, dbVars
  <2>2. [pass[p] EXCEPT !.pc = "mark", !.rows = OpenRows].pc = "mark"
    BY <1>0 DEF Locals
  <2>. QED BY <1>2, <2>1, <2>2, SameReasons
<1>5. ASSUME NEW m \in Markets, AbortClose(p, m) PROVE FillsOK'
  <2>1. /\ Holds(p) /\ pass[p].pc = "abort" /\ trades' = trades
        /\ \E l \in {[pass[p] EXCEPT !.markets = @ \ {m}],
                     [[pass[p] EXCEPT !.markets = @ \ {m}] EXCEPT !.failed = @ \cup {m}]} :
              Local(p, l)
    BY <1>5 DEF AbortClose, At, NoRowChange, dbVars
  <2>2. inflight' = {}
    BY <1>0, <1>5, NoneInFlight DEF AbortClose
  <2>3. PICK l \in {[pass[p] EXCEPT !.markets = @ \ {m}],
                    [[pass[p] EXCEPT !.markets = @ \ {m}] EXCEPT !.failed = @ \cup {m}]} :
            Local(p, l)
    BY <2>1
  <2>4. l.pc = "abort"
    BY <1>0, <2>1 DEF Locals
  <2>. QED BY <1>2, <2>1, <2>2, <2>3, <2>4, SameReasons
<1>6. ASSUME NEW i \in DOMAIN trades, AbortMark(p, i) PROVE FillsOK'
  <2>. DEFINE l == [pass[p] EXCEPT !.rows = @ \ {i}]
  <2>1. /\ pass[p].pc = "mark" /\ Holds(p) /\ Local(p, l) /\ i \in pass[p].rows
        /\ inflight' = {} /\ CloseRow(i, "ABORTED")
    BY <1>0, <1>6 DEF AbortMark, At, NoAccountChange, accountVars
  <2>2. \A j \in OpenIn(trades') : trades'[j].reason = "none"
    BY <2>1, DropRow, CloseReasons DEF Reasons
  <2>3. l.pc = "mark"
    BY <2>1, DropRow
  <2>. HIDE DEF l
  <2>. QED BY <1>2, <2>1, <2>2, <2>3
<1>. QED BY <1>1, <1>3, <1>4, <1>5, <1>6 DEF AbortStep

\* A /cancel keeps its view like an exit.
LEMMA CancelFills ==
    ASSUME Prompt, IInv, FillsOK, NEW p \in Procs, CancelStep(p)
    PROVE  FillsOK'
<1>. USE DEF Prompt
<1>0. inflight = {} /\ pass[p] \in Locals /\ AccountType
  BY HolderFacts DEF FillsOK
<1>1. CASE CancelMiss(p) \/ CancelEscalate(p)
  BY <1>0, <1>1, ReleaseFills, SameReasons
     DEF CancelMiss, CancelEscalate, Begins, At, Settle, NoAccountChange, accountVars,
         NoRowChange, dbVars
<1>2. CASE CancelStart(p)
  <2>1. PICK i \in OpenRows, positions \in PositionReports :
            Local(p, [pass[p] EXCEPT !.pc = "cancel1", !.positions = positions,
                         !.cur = [pair |-> trades[i].pair, side |-> trades[i].side,
                                  row |-> i, reason |-> "CANCELLED"]])
    BY <1>2 DEF CancelStart
  <2>2. Holds(p) /\ inflight' = {} /\ trades' = trades /\ net' = net
    BY <1>0, <1>2 DEF CancelStart, Begins, At, NoAccountChange, accountVars, NoRowChange, dbVars
  <2>. DEFINE l == [pass[p] EXCEPT !.pc = "cancel1", !.positions = positions,
                      !.cur = [pair |-> trades[i].pair, side |-> trades[i].side,
                               row |-> i, reason |-> "CANCELLED"]]
  <2>4. l.positions = positions /\ l.cur.reason = "CANCELLED" /\ Local(p, l)
    BY <1>0, <2>1 DEF Locals
  <2>. HIDE DEF l
  <2>3. /\ pass'[p].positions = positions /\ pass'[p].cur.reason = "CANCELLED"
        /\ Moves(p)
    BY <2>4, LocalFacts
  <2>. QED BY <2>2, <2>3, SameReasons, ViewTaken, ViewStep
<1>3. CASE CancelLeg1(p) \/ CancelLeg2(p)
  <2>1. PICK m \in {Leg1(p), Leg2(p)}, pc \in {"cancel2", "cancelled"} : CancelLeg(p, m, pc)
    BY <1>3 DEF CancelLeg1, CancelLeg2
  <2>2. Holds(p) /\ pass[p].pc \in {"cancel1", "cancel2"} /\ trades' = trades
    BY <1>3, <2>1 DEF CancelLeg1, CancelLeg2, At, CancelLeg, CloseLeg, NoRowChange, dbVars
  <2>3. m \in Markets /\ pass[p].pc \in ViewingPcs /\ pass[p].pc \in ClosingPcs
    BY <2>2, HandFacts DEF ClosingPcs, ViewingPcs
  <2>4. Shrinks /\ inflight' = {}
    BY <1>0, <2>1, <2>3, ReduceShrinks, LotsAssumption
    DEF CancelLeg, CloseLeg, NoAccountChange, accountVars, Shrinks
  <2>5. pass[p].cur.reason # "RECONCILED"
    BY <2>3 DEF FillsOK, ViewOK
  <2>6. PICK l \in {[pass[p] EXCEPT !.pc = pc, !.acked = @ \cup {m}],
                    [pass[p] EXCEPT !.pc = pc, !.failed = @ \cup {m}],
                    [pass[p] EXCEPT !.pc = pc]} : Local(p, l)
    BY <2>1 DEF CancelLeg, CloseLeg, Goto
  <2>7. l.positions = pass[p].positions /\ l.cur = pass[p].cur
    BY <1>0, <2>6 DEF Locals
  <2>8. pass'[p] = l /\ Moves(p)
    BY <2>6, LocalFacts
  <2>9. ViewOK(pass[p])'
    BY <2>3, <2>4, <2>5, <2>7, <2>8, ViewKept
  <2>. QED BY <2>2, <2>4, <2>8, <2>9, SameReasons, ViewStep
<1>4. CASE CancelPersist(p)
  <2>1. /\ pass[p].pc = "cancelled" /\ Holds(p) /\ Release(p)
        /\ inflight' = {} /\ CloseRow(pass[p].cur.row, pass[p].cur.reason)
    BY <1>0, <1>4 DEF CancelPersist, At, NoAccountChange, accountVars
  <2>2. \A j \in OpenIn(trades') : trades'[j].reason = "none"
    BY <2>1, RowInHand, CloseReasons DEF ClosingPcs
  <2>. QED BY <2>1, <2>2, ReleaseFills
<1>. QED BY <1>1, <1>2, <1>3, <1>4 DEF CancelStep


\* A request joins the queue and is in no pass yet.
LEMMA RequestFills ==
    ASSUME IInv, FillsOK, NEW p \in Procs, Request(p)
    PROVE  FillsOK'
<1>1. PICK kind \in Kinds, target \in Pairs :
          pass' = [pass EXCEPT ![p] =
                      [Idle EXCEPT !.kind = kind, !.pc = "start",
                                   !.target = IF kind = "cancel" THEN target ELSE NoPair]]
  BY DEF Request
<1>2. pass'[p].pc = "start" /\ Moves(p)
  BY <1>1 DEF Idle, Moves, IInv, HandlersOK
<1>3. trades' = trades /\ net' = net /\ inflight' = {}
  BY DEF Request, NoAccountChange, accountVars, NoRowChange, dbVars, FillsOK
<1>4. ASSUME NEW q \in Procs PROVE ViewOK(pass[q])'
  <2>1. CASE q = p
    BY <1>2, <2>1, ViewNone DEF ViewingPcs, ClosingPcs
  <2>2. CASE q # p
    <3>1. pass'[q] = pass[q]
      BY <1>2, <2>2 DEF Moves
    <3>. QED BY <1>3, <3>1 DEF FillsOK, ViewOK
  <2>. QED BY <2>1, <2>2
<1>. QED BY <1>3, <1>4, SameReasons DEF FillsOK

\* A step outside the passes: markets only become flat.
LEMMA BystanderFills ==
    ASSUME FillsOK, Shrinks, inflight' = {}, trades' = trades, pass' = pass
    PROVE  FillsOK'
<1>1. ASSUME NEW q \in Procs PROVE ViewOK(pass[q])'
  BY DEF FillsOK, ViewOK, Shrinks
<1>. QED BY <1>1, SameReasons DEF FillsOK

\* With nothing in flight, the exchange only closes a position from outside.
LEMMA ExchangeFills ==
    ASSUME IInv, FillsOK, ExchangeStep
    PROVE  FillsOK'
<1>1. PICK m \in Markets : ClosedOutside(m)
  BY DEF ExchangeStep, OrderEnds, FillsOK
<1>2. net \in [Markets -> Int] /\ trades' = trades /\ pass' = pass
  BY DEF IInv, StoresOK, AccountType, ExchangeStep, dbVars
<1>3. Shrinks /\ inflight' = {}
  BY <1>1, <1>2 DEF ClosedOutside, Settle, Shrinks, FillsOK
<1>. QED BY <1>2, <1>3, BystanderFills

\* A restart leaves no pass that could act on an old view.
LEMMA CrashFills ==
    ASSUME IInv, FillsOK, Crash
    PROVE  FillsOK'
<1>1. trades' = trades /\ inflight' = {} /\ pass' = [p \in Procs |-> Idle]
  BY DEF Crash, NoAccountChange, accountVars, dbVars, FillsOK
<1>2. ASSUME NEW q \in Procs PROVE ViewOK(pass[q])'
  <2>1. pass'[q].pc \notin ViewingPcs
    BY <1>1, IdleOK DEF ViewingPcs, ClosingPcs
  <2>. QED BY <2>1, ViewNone
<1>. QED BY <1>1, <1>2, SameReasons DEF FillsOK

\* Every step preserves FillsOK.
LEMMA NextFills ==
    ASSUME Prompt, IInv, FillsOK, [Next]_vars
    PROVE  FillsOK'
<1>1. ASSUME NEW p \in Procs, PassStep(p) \/ DbError(p) PROVE FillsOK'
  <2>1. CASE ConnectFails(p) \/ DbError(p)
    BY <2>1, ReleaseFills, SameReasons
       DEF ConnectFails, DbError, At, NoAccountChange, accountVars, NoRowChange, dbVars, FillsOK
  <2>. QED BY <1>1, <2>1, EntryFills, ExitFills, AbortFills, CancelFills DEF PassStep
<1>2. CASE SessionStep \/ UNCHANGED vars
  <2>1. UNCHANGED <<accountVars, trades, pass>>
    BY <1>2 DEF SessionStep, StartSession, CreateSession, StopSession, SessionVars, vars
  <2>. QED BY <2>1, BystanderFills DEF accountVars, Shrinks, FillsOK
<1>. QED BY <1>1, <1>2, RequestFills, ExchangeFills, CrashFills DEF Next

\* With a client that answers with the fill and reads that do not fail,
\* nothing is ever in flight, no OPEN row has a reason, and a pass that closes
\* rows has not missed a position.
THEOREM PromptFills ==
    ASSUME Prompt
    PROVE  Spec => []FillsOK
<1>1. Init => FillsOK
  BY IdleOK DEF Init, AccountInit, FillsOK, OpenIn, ViewOK, ViewingPcs, ClosingPcs
<1>2. IInv /\ FillsOK /\ [Next]_vars => FillsOK'
  BY NextFills
<1>. QED BY <1>1, <1>2, Invariance, PTL DEF Spec

-----------------------------------------------------------------------------
\* What a step may do: write a row off as RECONCILED only when it is gone.
GoneStep ==
    \A i \in DOMAIN trades :
        trades[i].status = "OPEN" /\ trades'[i].reason = "RECONCILED"
           => \A m \in Legs(trades[i].pair) : net[m] = 0

\* A step that gives no OPEN row that reason.
LEMMA NoneGone ==
    ASSUME FillsOK, trades' = trades
    PROVE  GoneStep
BY DEF FillsOK, GoneStep, OpenIn

\* Closing the row in hand for a reason of its own.
LEMMA CloseGone ==
    ASSUME IInv, FillsOK, NEW i \in OpenIn(trades), NEW reason \in Reasons,
           CloseRow(i, reason),
           reason = "RECONCILED" => \A m \in Legs(trades[i].pair) : net[m] = 0
    PROVE  GoneStep
<1>1. /\ \A j \in DOMAIN trades : j # i => trades'[j] = trades[j]
  BY CloseRowFacts, RowFacts
<1>2. trades'[i].reason = reason
  <2>1. i \in DOMAIN trades /\ trades \in Seq(Trades)
    BY RowFacts
  <2>2. trades[i] \in Trades
    BY <2>1
  <2>. QED BY <2>1, <2>2 DEF CloseRow, Trades
<1>3. ASSUME NEW j \in DOMAIN trades, trades[j].status = "OPEN",
             trades'[j].reason = "RECONCILED"
      PROVE  \A m \in Legs(trades[j].pair) : net[m] = 0
  <2>1. j \in OpenIn(trades)
    BY <1>3 DEF OpenIn
  <2>2. CASE j # i
    BY <1>1, <1>3, <2>1, <2>2 DEF FillsOK
  <2>. QED BY <1>2, <1>3, <2>2
<1>. QED BY <1>3 DEF GoneStep

\* Recording a trade.
LEMMA RecordGone ==
    ASSUME IInv, FillsOK, NEW p \in Procs, RecordLive(p) \/ RecordError(p)
    PROVE  GoneStep
<1>1. pass[p].cur.pair \in Pairs /\ pass[p].cur.side \in Sides
  BY HandFacts DEF RecordLive, RecordError, At, OpeningPcs
<1>2. \A j \in DOMAIN trades : trades'[j] = trades[j]
  BY <1>1, RecordFacts, RowFacts DEF RecordLive, RecordError
<1>. QED BY <1>2 DEF FillsOK, GoneStep, OpenIn

\* Only an exit pass that sees neither leg writes RECONCILED.
LEMMA PassGone ==
    ASSUME Prompt, IInv, FillsOK, NEW p \in Procs, PassStep(p)
    PROVE  GoneStep
<1>1. ASSUME NEW i \in DOMAIN trades, ExitReconcile(p, i) PROVE GoneStep
  <2>1. /\ pass[p].pc = "exit" /\ i \in pass[p].rows /\ Gone(p, i)
        /\ CloseRow(i, "RECONCILED")
    BY <1>1 DEF ExitReconcile, At
  <2>2. i \in OpenIn(trades)
    BY <2>1, DropRow
  <2>3. Legs(trades[i].pair) \subseteq Markets
    BY <2>2, RowFacts, LegFacts
  <2>4. \A m \in Legs(trades[i].pair) : pass[p].positions[m] = 0
    BY <2>1, <2>3 DEF Gone, LegsSeen, Live
  <2>5. \A m \in Legs(trades[i].pair) : net[m] = 0
    BY <2>1, <2>3, <2>4 DEF FillsOK, ViewOK, ViewingPcs
  <2>. QED BY <2>1, <2>2, <2>5, CloseGone DEF Reasons
<1>2. ASSUME NEW i \in DOMAIN trades, AbortMark(p, i) PROVE GoneStep
  <2>1. i \in OpenIn(trades)
    BY <1>2, DropRow DEF AbortMark, At
  <2>. QED BY <1>2, <2>1, CloseGone DEF AbortMark, Reasons
<1>3. ASSUME ExitPersist(p) \/ CancelPersist(p) PROVE GoneStep
  <2>1. pass[p].pc \in ClosingPcs
    BY <1>3 DEF ExitPersist, CancelPersist, At, ClosingPcs
  <2>2. pass[p].cur.reason # "RECONCILED"
    BY <2>1 DEF FillsOK, ViewOK
  <2>. QED BY <1>3, <2>1, <2>2, RowInHand, CloseGone DEF ExitPersist, CancelPersist
<1>4. CASE EntryStep(p)
  <2>1. trades' = trades \/ RecordLive(p) \/ RecordError(p)
    BY <1>4 DEF EntryStep, EntryRefused, EntryStart, EntryDone, EntrySkip, EntryApproved,
         PlaceLeg1, PlaceLeg2, SubmitLeg, AwaitLeg1, AwaitLeg2, AwaitFill, Failsafe,
         NoRowChange, dbVars
  <2>. QED BY <2>1, NoneGone, RecordGone
<1>5. CASE ExitStep(p)
  <2>1. \/ trades' = trades \/ ExitPersist(p)
        \/ \E i \in DOMAIN trades : ExitReconcile(p, i)
    BY <1>5 DEF ExitStep, ExitNothing, ExitStart, ExitDone, ExitOrphan, ExitHold,
         ExitApproved, ExitClose1, ExitClose2, CloseLeg, ExitKeepOpen, NoRowChange, dbVars
  <2>. QED BY <1>1, <1>3, <2>1, NoneGone
<1>6. CASE AbortStep(p)
  <2>1. trades' = trades \/ \E i \in DOMAIN trades : AbortMark(p, i)
    BY <1>6 DEF AbortStep, AbortStart, AbortEscalate, AbortDone, AbortClose,
         NoRowChange, dbVars
  <2>. QED BY <1>2, <2>1, NoneGone
<1>7. CASE CancelStep(p)
  <2>1. trades' = trades \/ CancelPersist(p)
    BY <1>7 DEF CancelStep, CancelMiss, CancelStart, CancelLeg1, CancelLeg2, CancelLeg,
         CloseLeg, CancelEscalate, NoRowChange, dbVars
  <2>. QED BY <1>3, <2>1, NoneGone
<1>8. CASE ConnectFails(p)
  BY <1>8, NoneGone DEF ConnectFails, NoRowChange, dbVars
<1>. QED BY <1>4, <1>5, <1>6, <1>7, <1>8 DEF PassStep

\* A row is written off as RECONCILED only when neither of its legs is live,
\* also when replies are lost, positions are closed from outside, the database
\* fails or the process restarts; as long as the reads of the positions do not
\* fail and orders are not left in flight (exit.py's orphan reconciliation).
THEOREM Reconciled ==
    ASSUME Prompt
    PROVE  Spec => ReconciledMeansGone
<1>1. IInv /\ FillsOK /\ [Next]_vars => [GoneStep]_vars
  <2>. SUFFICES ASSUME IInv, FillsOK, [Next]_vars PROVE GoneStep
    OBVIOUS
  <2>1. ASSUME NEW p \in Procs, PassStep(p) PROVE GoneStep
    BY <2>1, PassGone
  <2>2. CASE \E p \in Procs : Request(p) \/ DbError(p)
    BY <2>2, NoneGone DEF Request, DbError, NoRowChange, dbVars
  <2>3. CASE SessionStep \/ ExchangeStep \/ Crash
    BY <2>3, NoneGone DEF SessionStep, StartSession, CreateSession, StopSession,
         SessionVars, ExchangeStep, Crash, dbVars
  <2>4. CASE UNCHANGED vars
    BY <2>4, NoneGone DEF vars
  <2>. QED BY <2>1, <2>2, <2>3, <2>4 DEF Next
<1>2. [][GoneStep]_vars => ReconciledMeansGone
  BY PTL DEF GoneStep, ReconciledMeansGone
<1>. QED BY <1>1, <1>2, PromptFills, Invariance, PTL DEF Spec

-----------------------------------------------------------------------------
(***************************************************************************)
(* Legs accounted for. First, how claims come and go.                      *)
(***************************************************************************)
RowClaims(tr, m) == Cardinality({i \in OpenIn(tr) : m \in Legs(tr[i].pair)})

OpenClaim(l, m) == IF l.pc \in OpeningPcs /\ m \in Legs(l.cur.pair) THEN 1 ELSE 0

\* The rows' claims are a number.
LEMMA RowClaimsNat ==
    ASSUME NEW tr \in Seq(Trades), NEW m
    PROVE  /\ IsFiniteSet({i \in OpenIn(tr) : m \in Legs(tr[i].pair)})
           /\ RowClaims(tr, m) \in Nat
<1>1. DOMAIN tr = 1..Len(tr) /\ Len(tr) \in Nat
  OBVIOUS
<1>2. {i \in OpenIn(tr) : m \in Legs(tr[i].pair)} \subseteq 1..Len(tr)
  BY <1>1 DEF OpenIn
<1>3. IsFiniteSet(1..Len(tr))
  BY <1>1, FS_Interval
<1>. QED BY <1>2, <1>3, FS_Subset, FS_CardinalityType DEF RowClaims

\* If p alone may be opening, its claim is the only one of its kind.
LEMMA OneOpens ==
    ASSUME NEW p \in Procs, NEW ps, NEW m,
           \A q \in Procs \ {p} : ps[q].pc \notin OpeningPcs
    PROVE  Cardinality({q \in Procs : ps[q].pc \in OpeningPcs /\ m \in Legs(ps[q].cur.pair)})
               = OpenClaim(ps[p], m)
<1>. DEFINE S == {q \in Procs : ps[q].pc \in OpeningPcs /\ m \in Legs(ps[q].cur.pair)}
<1>1. CASE ps[p].pc \in OpeningPcs /\ m \in Legs(ps[p].cur.pair)
  <2>1. S = {p}
    BY <1>1
  <2>. QED BY <1>1, <2>1, FS_Singleton DEF OpenClaim
<1>2. CASE ~ (ps[p].pc \in OpeningPcs /\ m \in Legs(ps[p].cur.pair))
  <2>1. S = {}
    BY <1>2
  <2>. QED BY <1>2, <2>1, FS_EmptySet DEF OpenClaim
<1>. QED BY <1>1, <1>2

\* The claims on m, while p has the lock, before and after its step.
LEMMA ClaimsAre ==
    ASSUME IInv, NEW p \in Procs, Holds(p), Moves(p), NEW m
    PROVE  /\ Claims(m) = RowClaims(trades, m) + OpenClaim(pass[p], m)
           /\ Claims(m)' = RowClaims(trades', m) + OpenClaim(pass'[p], m)
           /\ RowClaims(trades, m) \in Nat
<1>1. \A q \in Procs \ {p} : /\ pass[q].pc \notin OpeningPcs
                             /\ pass'[q].pc \notin OpeningPcs
  BY OthersOut DEF Moves, OpeningPcs, PassPcs
<1>2. Claims(m) = RowClaims(trades, m)
          + Cardinality({q \in Procs : pass[q].pc \in OpeningPcs /\ m \in Legs(pass[q].cur.pair)})
  BY DEF Claims, RowClaims, OpenRows, OpenIn, Opening, OpeningPcs
<1>3. Claims(m)' = RowClaims(trades', m)
          + Cardinality({q \in Procs : pass'[q].pc \in OpeningPcs /\ m \in Legs(pass'[q].cur.pair)})
  BY DEF Claims, RowClaims, OpenRows, OpenIn, Opening, OpeningPcs
<1>4. RowClaims(trades, m) \in Nat
  BY RowClaimsNat, RowFacts
<1>. QED BY <1>1, <1>2, <1>3, <1>4, OneOpens

\* Where nothing is recorded or closed, only p's own claim may change.
LEMMA StillClaims ==
    ASSUME IInv, NEW p \in Procs, Holds(p), Moves(p), trades' = trades, NEW m
    PROVE  /\ Claims(m) \in Nat /\ Claims(m)' \in Nat
           /\ Claims(m)' + OpenClaim(pass[p], m) = Claims(m) + OpenClaim(pass'[p], m)
           /\ OpenClaim(pass[p], m) \in {0, 1} /\ OpenClaim(pass'[p], m) \in {0, 1}
<1>1. OpenClaim(pass[p], m) \in {0, 1} /\ OpenClaim(pass'[p], m) \in {0, 1}
  BY DEF OpenClaim
<1>. QED BY <1>1, ClaimsAre

\* A row that is closed gives up a claim on each of its legs.
LEMMA CloseClaims ==
    ASSUME IInv, NEW p \in Procs, Holds(p), Moves(p), NEW m,
           NEW i \in OpenIn(trades), NEW reason \in Reasons, CloseRow(i, reason),
           OpenClaim(pass[p], m) = 0, OpenClaim(pass'[p], m) = 0
    PROVE  /\ Claims(m) \in Nat /\ Claims(m)' \in Nat
           /\ IF m \in Legs(trades[i].pair) THEN Claims(m) = Claims(m)' + 1
              ELSE Claims(m)' = Claims(m)
<1>. DEFINE S == {j \in OpenIn(trades) : m \in Legs(trades[j].pair)}
            T == {j \in OpenIn(trades') : m \in Legs(trades'[j].pair)}
<1>1. /\ trades' \in Seq(Trades) /\ OpenIn(trades') = OpenIn(trades) \ {i}
      /\ \A j \in OpenIn(trades) : trades'[j].pair = trades[j].pair
  BY CloseRowFacts, RowFacts DEF OpenIn
<1>2. T = S \ {i}
  BY <1>1
<1>3. i \in S <=> m \in Legs(trades[i].pair)
  OBVIOUS
<1>4. IsFiniteSet(S) /\ Cardinality(S) \in Nat /\ Cardinality(T) \in Nat
  BY <1>1, RowClaimsNat, RowFacts DEF RowClaims
<1>5. Cardinality(T) = IF i \in S THEN Cardinality(S) - 1 ELSE Cardinality(S)
  BY <1>2, <1>4, FS_RemoveElement
<1>6. RowClaims(trades, m) = Cardinality(S) /\ RowClaims(trades', m) = Cardinality(T)
  BY DEF RowClaims
<1>. HIDE DEF S, T
<1>7. Claims(m) = Cardinality(S) /\ Claims(m)' = Cardinality(T)
  BY <1>4, <1>6, ClaimsAre
<1>. QED BY <1>3, <1>4, <1>5, <1>7

\* A trade that is recorded hands its claims over to its row, if that is OPEN.
LEMMA RecordClaims ==
    ASSUME IInv, NEW p \in Procs, Holds(p), Moves(p), NEW m,
           NEW status \in {"OPEN", "ERROR"},
           pass[p].pc = IF status = "OPEN" THEN "recordLive" ELSE "recordError",
           trades' = Append(trades, Row(pass[p].cur, status)),
           pass'[p].pc \notin OpeningPcs
    PROVE  Claims(m) \in Nat /\ Claims(m)' = Claims(m)
<1>. DEFINE k == Len(trades) + 1
            S == {j \in OpenIn(trades) : m \in Legs(trades[j].pair)}
            T == {j \in OpenIn(trades') : m \in Legs(trades'[j].pair)}
<1>0. pass[p].cur.pair \in Pairs /\ pass[p].cur.side \in Sides
  BY HandFacts DEF OpeningPcs
<1>1. /\ trades' \in Seq(Trades)
      /\ \A j \in DOMAIN trades : trades'[j] = trades[j]
      /\ OpenIn(trades') = OpenIn(trades) \cup (IF status = "OPEN" THEN {k} ELSE {})
      /\ trades'[k].pair = pass[p].cur.pair
  BY <1>0, RecordFacts, RowFacts
<1>2. k \notin DOMAIN trades /\ OpenIn(trades) \subseteq DOMAIN trades
  BY RowFacts
<1>. DEFINE new == status = "OPEN" /\ m \in Legs(pass[p].cur.pair)
<1>3. k \notin S /\ T = IF new THEN S \cup {k} ELSE S
  BY <1>1, <1>2
<1>4. IsFiniteSet(S) /\ Cardinality(S) \in Nat
  BY RowClaimsNat, RowFacts DEF RowClaims
<1>5. Cardinality(T) = IF new THEN Cardinality(S) + 1 ELSE Cardinality(S)
  BY <1>3, <1>4, FS_AddElement
<1>6. OpenClaim(pass[p], m) = (IF new THEN 1 ELSE 0) /\ OpenClaim(pass'[p], m) = 0
  BY DEF OpenClaim, OpeningPcs
<1>7. RowClaims(trades, m) = Cardinality(S) /\ RowClaims(trades', m) = Cardinality(T)
  BY DEF RowClaims
<1>. HIDE DEF S, T, new
<1>. QED BY <1>4, <1>5, <1>6, <1>7, ClaimsAre

\* The row in hand, or one still to do, has a claim on each of its legs.
LEMMA ClaimOfRow ==
    ASSUME IInv, NEW p \in Procs, Holds(p), Moves(p), NEW i \in OpenIn(trades),
           NEW m \in Legs(trades[i].pair)
    PROVE  Claims(m) \in Nat /\ Claims(m) >= 1
<1>. DEFINE S == {j \in OpenIn(trades) : m \in Legs(trades[j].pair)}
<1>1. IsFiniteSet(S) /\ Cardinality(S) \in Nat /\ i \in S
  BY RowClaimsNat, RowFacts DEF RowClaims
<1>2. Cardinality(S \ {i}) = Cardinality(S) - 1 /\ Cardinality(S \ {i}) \in Nat
  BY <1>1, FS_RemoveElement, FS_CardinalityType
<1>3. OpenClaim(pass[p], m) \in Nat
  BY DEF OpenClaim
<1>4. RowClaims(trades, m) = Cardinality(S)
  BY DEF RowClaims
<1>. HIDE DEF S
<1>. QED BY <1>1, <1>2, <1>3, <1>4, ClaimsAre

-----------------------------------------------------------------------------
(***************************************************************************)
(* How a market stays covered over a step.                                 *)
(***************************************************************************)
AlarmKept(m) == net'[m] # 0 /\ m \in alarmed => m \in alarmed'

\* Settling keeps an alarm while its market is exposed.
LEMMA AlarmStays ==
    ASSUME NEW named, AlarmsKept(named)
    PROVE  \A m : AlarmKept(m) /\ (m \in named /\ net'[m] # 0 => m \in alarmed')
BY DEF AlarmsKept, AlarmKept

\* On a flat market nothing is held beside the shortfall.
LEMMA FlatHeld ==
    ASSUME AccountType', NEW m \in Markets, net'[m] = 0
    PROVE  Held(m)' = 0
<1>1. Size(0) = 0 /\ shortfall'[m] \in Nat
  BY DEF Size, AccountType
<1>. QED BY <1>1 DEF Held, Beside

\* So many legs and so many more.
LEMMA LegsAdd ==
    ASSUME NEW a \in Nat, NEW b \in Nat
    PROVE  /\ LegLots * (a + b) = LegLots * a + LegLots * b
           /\ LegLots * (1 + a) = LegLots * a + LegLots
           /\ LegLots * a \in Nat /\ LegLots * 0 = 0 /\ LegLots * 1 = LegLots
           /\ LegLots \in Nat
BY LotsAssumption

LEMMA LegsAtMost ==
    ASSUME NEW a \in Nat, NEW b \in Nat, a <= b
    PROVE  LegLots * a <= LegLots * b
<1>. DEFINE d == b - a
<1>1. d \in Nat /\ b = a + d
  OBVIOUS
<1>. HIDE DEF d
<1>2. LegLots * (a + d) = LegLots * a + LegLots * d /\ LegLots * d \in Nat /\ LegLots * a \in Nat
  BY <1>1, LegsAdd
<1>. QED BY <1>1, <1>2

\* From a to b legs to spare, by what is held and what is claimed.
LEMMA CoverMoves ==
    ASSUME AccountType', NEW m \in Markets, Held(m) \in Nat, Held(m)' \in Nat, NEW a \in Nat, NEW b \in Nat,
           Claims(m) \in Nat, Claims(m)' \in Nat, Covered(m, a), b <= Claims(m)',
           Held(m)' + LegLots * (b + Claims(m)) <= Held(m) + LegLots * (a + Claims(m)'),
           AlarmKept(m)
    PROVE  Covered(m, b)'
<1>. DEFINE c == Claims(m)
            d == Claims(m)'
            h == Held(m)
            k == Held(m)'
<1>1. /\ LegLots * (b + c) = LegLots * b + LegLots * c
      /\ LegLots * (a + d) = LegLots * a + LegLots * d
      /\ LegLots * a \in Nat /\ LegLots * b \in Nat
      /\ LegLots * c \in Nat /\ LegLots * d \in Nat
  BY LegsAdd
<1>2. CASE h + LegLots * a <= LegLots * c
  <2>1. k + LegLots * (b + c) <= h + LegLots * (a + d) /\ h \in Nat /\ k \in Nat
    OBVIOUS
  <2>. HIDE DEF c, d, h, k
  <2>2. k + LegLots * b <= LegLots * d
    BY <1>1, <1>2, <2>1
  <2>. QED BY <2>2 DEF Covered, d, k
<1>3. CASE m \in alarmed
  <2>1. CASE net'[m] # 0
    BY <1>3, <2>1 DEF Covered, AlarmKept
  <2>2. CASE net'[m] = 0
    <3>2. k = 0
      BY <2>2, FlatHeld
    <3>3. b \in Nat /\ d \in Nat /\ b <= d
      OBVIOUS
    <3>4. LegLots * b <= LegLots * d
      BY <3>3, LegsAtMost
    <3>. QED BY <1>1, <3>2, <3>4 DEF Covered
  <2>. QED BY <2>1, <2>2
<1>. QED BY <1>2, <1>3 DEF Covered

\* A market on which nothing is held beside the shortfall is covered up to its claims.
LEMMA FlatCovered ==
    ASSUME NEW m, Held(m)' = 0, NEW n \in Nat, Claims(m)' \in Nat, n <= Claims(m)'
    PROVE  Covered(m, n)'
BY LegsAdd, LegsAtMost DEF Covered

\* Claims may end that are to spare, and new ones are to spare.
LEMMA CoverShift ==
    ASSUME AccountType', NEW m \in Markets, Held(m) \in Nat, Held(m)' \in Nat, NEW a \in Nat, NEW b \in Nat,
           Claims(m) \in Nat, Claims(m)' \in Nat, Covered(m, a), b <= Claims(m)',
           b + Claims(m) = a + Claims(m)', Held(m)' <= Held(m), AlarmKept(m)
    PROVE  Covered(m, b)'
<1>1. LegLots * (a + Claims(m)') \in Nat
  BY LegsAdd
<1>. QED BY <1>1, CoverMoves

\* A leg that is bought was to spare.
LEMMA CoverBought ==
    ASSUME AccountType', NEW m \in Markets, Held(m) \in Nat, Held(m)' \in Nat, Claims(m) \in Nat,
           Claims(m)' = Claims(m), Covered(m, 1), Held(m)' <= Held(m) + LegLots,
           AlarmKept(m)
    PROVE  Covered(m, 0)'
<1>. DEFINE c == Claims(m)
<1>1. /\ c \in Nat /\ Claims(m)' = c /\ 0 + c = c
      /\ LegLots * (1 + c) = LegLots * c + LegLots
      /\ LegLots * c \in Nat /\ LegLots \in Nat
  <2>1. c \in Nat /\ Claims(m)' = c /\ 0 + c = c
    OBVIOUS
  <2>. HIDE DEF c
  <2>. QED BY <2>1, LegsAdd
<1>2. Held(m)' + LegLots * (0 + Claims(m)) <= Held(m) + LegLots * (1 + Claims(m)')
  BY <1>1
<1>. QED BY <1>2, CoverMoves

\* A leg that is sold is to spare, or its claim may end.
LEMMA CoverSold ==
    ASSUME AccountType', NEW m \in Markets, Held(m) \in Nat, Held(m)' \in Nat, NEW a \in Nat, NEW b \in Nat,
           Claims(m) \in Nat, Claims(m)' \in Nat, Covered(m, a), b <= Claims(m)',
           b + Claims(m) = a + Claims(m)' + 1, Held(m)' + LegLots <= Held(m),
           AlarmKept(m)
    PROVE  Covered(m, b)'
<1>. DEFINE e == a + Claims(m)'
<1>0. e \in Nat /\ b + Claims(m) = 1 + e
  OBVIOUS
<1>. HIDE DEF e
<1>1. /\ LegLots * (1 + e) = LegLots * e + LegLots
      /\ LegLots * e \in Nat /\ LegLots \in Nat
  BY <1>0, LegsAdd
<1>2. Held(m)' + LegLots * (b + Claims(m)) <= Held(m) + LegLots * (a + Claims(m)')
  BY <1>0, <1>1 DEF e
<1>. QED BY <1>2, CoverMoves

\* A market whose claims stay while no more is held on it stays covered.
LEMMA CoverKept ==
    ASSUME AccountType', NEW m \in Markets, Held(m) \in Nat, Held(m)' \in Nat, NEW n \in Nat, Claims(m) \in Nat,
           Claims(m)' = Claims(m), Held(m)' <= Held(m), AlarmKept(m), Covered(m, n)
    PROVE  Covered(m, n)'
<1>1. n <= Claims(m)
  BY DEF Covered
<1>. QED BY <1>1, CoverShift

\* From the step of the handler that holds the lock to all handlers.
LEMMA LegsStep ==
    ASSUME IInv, LegsInv, NEW p \in Procs, Holds(p), Moves(p),
           \A m \in Markets : Covered(m, 0)',
           SpareOK(pass[p])', RowInHandOK(pass'[p], trades'), CancelOK(pass'[p]),
           AbortOK(pass[p])'
    PROVE  LegsInv'
<1>1. ASSUME NEW q \in Procs \ {p}
      PROVE  /\ SpareOK(pass[q])' /\ RowInHandOK(pass'[q], trades')
             /\ CancelOK(pass'[q]) /\ AbortOK(pass[q])'
  <2>1. pass'[q] = pass[q] /\ pass[q].pc \notin PassPcs
    BY OthersOut DEF Moves
  <2>2. Spare(pass'[q]) = {}
    BY <2>1 DEF Spare, PassPcs
  <2>3. RowInHandOK(pass[q], trades)
    BY DEF LegsInv
  <2>. QED BY <2>1, <2>2, <2>3
           DEF SpareOK, RowInHandOK, CancelOK, AbortOK, ClosingPcs, PassPcs
<1>2. ASSUME NEW q \in Procs
      PROVE  /\ SpareOK(pass[q])' /\ RowInHandOK(pass'[q], trades')
             /\ CancelOK(pass'[q]) /\ AbortOK(pass[q])'
  BY <1>1
<1>. QED BY <1>2 DEF LegsInv

\* Outside the steps that matter to the legs there is nothing to say of p.
LEMMA PlainStep ==
    ASSUME IInv, LegsInv, NEW p \in Procs, Holds(p), Moves(p),
           \A m \in Markets : Covered(m, 0)',
           pass'[p].pc \in {"idle", "entry", "wait2", "recordLive", "recordError", "exit"}
    PROVE  LegsInv'
<1>1. Spare(pass'[p]) = {}
  BY DEF Spare
<1>2. /\ SpareOK(pass[p])' /\ RowInHandOK(pass'[p], trades')
      /\ CancelOK(pass'[p]) /\ AbortOK(pass[p])'
  BY <1>1 DEF SpareOK, RowInHandOK, CancelOK, AbortOK, ClosingPcs
<1>. QED BY <1>2, LegsStep

\* The account after a step of a pass is well typed.
LEMMA NetType ==
    ASSUME IInv, NEW p \in Procs, PassStep(p)
    PROVE  /\ AccountType /\ AccountType'
           /\ \A m \in Markets : /\ net[m] \in Int /\ net'[m] \in Int
                                 /\ Held(m) \in Nat /\ Held(m)' \in Nat
<1>1. AccountType /\ AccountType'
  BY PassInv DEF IInv, StoresOK
<1>. QED BY <1>1, BesideNat DEF AccountType, Held

\* So in the states that keep the type invariants.
LEMMA FlatIsHeld ==
    ASSUME IInv, NEW m \in Markets, net[m] = 0
    PROVE  Held(m) = 0
<1>1. Size(0) = 0 /\ shortfall[m] \in Nat
  BY DEF Size, IInv, StoresOK, AccountType
<1>. QED BY <1>1 DEF Held, Beside

\* No market is exposed more than before, and no claim came or went.
LEMMA AllKept ==
    ASSUME IInv, NEW p \in Procs, Holds(p), Moves(p), PassStep(p), trades' = trades,
           \A m \in Markets : /\ OpenClaim(pass'[p], m) = OpenClaim(pass[p], m)
                              /\ Held(m)' <= Held(m)
                              /\ AlarmKept(m)
    PROVE  \A m \in Markets : \A n \in Nat : Covered(m, n) => Covered(m, n)'
<1>1. ASSUME NEW m \in Markets, NEW n \in Nat, Covered(m, n) PROVE Covered(m, n)'
  <2>1. Claims(m) \in Nat /\ Claims(m)' = Claims(m)
    BY StillClaims
  <2>. QED BY <1>1, <2>1, CoverKept, NetType
<1>. QED BY <1>1

\* A step that does not touch the account.
LEMMA AccountKept ==
    ASSUME NoAccountChange, AccountType
    PROVE  \A m \in Markets : Held(m)' <= Held(m) /\ AlarmKept(m)
<1>1. \A m \in Markets : Held(m) \in Nat
  BY BesideNat DEF AccountType, Held
<1>. QED BY <1>1 DEF NoAccountChange, accountVars, AlarmKept, Held

\* A step that touches neither account nor rows nor claims.
LEMMA QuietKept ==
    ASSUME IInv, NEW p \in Procs, Holds(p), Moves(p), PassStep(p), trades' = trades,
           NoAccountChange,
           \A m \in Markets : OpenClaim(pass'[p], m) = OpenClaim(pass[p], m)
    PROVE  \A m \in Markets : \A n \in Nat : Covered(m, n) => Covered(m, n)'
BY AccountKept, NetType, AllKept

\* Such a step that leads where there is nothing to say.
LEMMA PlainLegs ==
    ASSUME IInv, LegsInv, NEW p \in Procs, Holds(p), Moves(p), PassStep(p), trades' = trades,
           NoAccountChange,
           \A m \in Markets : OpenClaim(pass'[p], m) = OpenClaim(pass[p], m),
           pass'[p].pc \in {"idle", "entry", "wait2", "recordLive", "recordError", "exit"}
    PROVE  LegsInv'
<1>1. \A m \in Markets : Covered(m, 0)'
  BY QuietKept DEF LegsInv
<1>. QED BY <1>1, PlainStep

\* A pass that ends and leaves account and rows alone.
LEMMA ReleaseLegs ==
    ASSUME IInv, LegsInv, NEW p \in Procs, Holds(p), Release(p), PassStep(p),
           trades' = trades, NoAccountChange, pass[p].pc \notin OpeningPcs
    PROVE  LegsInv'
<1>1. pass'[p].pc = "idle" /\ Moves(p)
  BY ReleaseFacts
<1>2. \A m \in Markets : OpenClaim(pass'[p], m) = OpenClaim(pass[p], m)
  BY <1>1 DEF OpenClaim, OpeningPcs
<1>. QED BY <1>1, <1>2, PlainLegs

-----------------------------------------------------------------------------
(***************************************************************************)
(* One lemma per kind of step: LegsInv is preserved.                       *)
(***************************************************************************)
Safe == ~ Deferred /\ Faults \subseteq {"late", "outside", "partial"}

\* The entry of a pair, up to its first order.
LEMMA EntryScanLegs ==
    ASSUME IInv, LegsInv, NEW p \in Procs, PassStep(p),
           \/ EntryRefused(p) \/ EntryStart(p) \/ EntryDone(p)
           \/ \E pair \in Pairs : EntrySkip(p, pair)
    PROVE  LegsInv'
<1>0. pass[p] \in Locals
  BY HolderFacts
<1>1. CASE EntryRefused(p) \/ EntryDone(p)
  BY <1>1, ReleaseLegs
     DEF EntryRefused, EntryDone, Begins, At, NoRowChange, dbVars, OpeningPcs
<1>2. ASSUME NEW l, Local(p, l), l.pc = "entry", pass[p].pc \in {"start", "entry"},
             Holds(p), NoAccountChange, trades' = trades
      PROVE  LegsInv'
  <2>1. pass'[p] = l /\ Moves(p)
    BY <1>2, LocalFacts
  <2>2. \A m \in Markets : OpenClaim(pass'[p], m) = OpenClaim(pass[p], m)
    BY <1>2, <2>1 DEF OpenClaim, OpeningPcs
  <2>. QED BY <1>2, <2>1, <2>2, PlainLegs
<1>3. CASE EntryStart(p)
  <2>1. PICK positions \in PositionReports :
            Local(p, [pass[p] EXCEPT !.pc = "entry", !.positions = positions,
                                     !.pairs = Pairs, !.openPairs = OpenPairs])
    BY <1>3 DEF EntryStart
  <2>2. Holds(p) /\ pass[p].pc = "start" /\ NoAccountChange /\ trades' = trades
    BY <1>3 DEF EntryStart, Begins, At, NoRowChange, dbVars
  <2>3. [pass[p] EXCEPT !.pc = "entry", !.positions = positions, !.pairs = Pairs,
                        !.openPairs = OpenPairs].pc = "entry"
    BY <1>0 DEF Locals
  <2>. QED BY <1>2, <2>1, <2>2, <2>3
<1>4. CASE \E pair \in Pairs : EntrySkip(p, pair)
  <2>1. PICK pair \in Pairs : EntrySkip(p, pair)
    BY <1>4
  <2>2. /\ Holds(p) /\ pass[p].pc = "entry" /\ NoAccountChange /\ trades' = trades
        /\ Local(p, [pass[p] EXCEPT !.pairs = @ \ {pair}])
    BY <2>1 DEF EntrySkip, At, NoRowChange, dbVars
  <2>3. [pass[p] EXCEPT !.pairs = @ \ {pair}].pc = "entry"
    BY <1>0, <2>2 DEF Locals
  <2>. QED BY <1>2, <2>2, <2>3
<1>. QED BY <1>1, <1>3, <1>4

\* From the approval both legs are claimed, and no part of them is bought yet.
LEMMA ApprovedLegs ==
    ASSUME IInv, LegsInv, NEW p \in Procs, PassStep(p), NEW pair \in Pairs,
           NEW side \in Sides, EntryApproved(p, pair, side)
    PROVE  LegsInv'
<1>. DEFINE cur == [pair |-> pair, side |-> side, row |-> 0, reason |-> "none"]
            l == [pass[p] EXCEPT !.pc = "leg1", !.pairs = @ \ {pair}, !.cur = cur]
<1>1. Holds(p) /\ pass[p].pc = "entry" /\ NoAccountChange /\ trades' = trades /\ Local(p, l)
  BY DEF EntryApproved, At, NoRowChange, dbVars
<1>2. pass[p] \in Locals
  BY HolderFacts
<1>3. cur.pair = pair
  OBVIOUS
<1>. HIDE DEF cur
<1>4. l.pc = "leg1" /\ l.cur = cur
  BY <1>2 DEF Locals
<1>. HIDE DEF l
<1>5. pass'[p].pc = "leg1" /\ pass'[p].cur.pair = pair /\ Moves(p)
  BY <1>1, <1>3, <1>4, LocalFacts
<1>6. \A m \in Markets : /\ OpenClaim(pass[p], m) = 0
                         /\ OpenClaim(pass'[p], m) = IF m \in Legs(pair) THEN 1 ELSE 0
  BY <1>1, <1>5 DEF OpenClaim, OpeningPcs
<1>7. Spare(pass'[p]) = Legs(pair)
  BY <1>5 DEF Spare
<1>8. ASSUME NEW m \in Markets
      PROVE  Covered(m, 0)' /\ (m \in Legs(pair) => Covered(m, 1)')
  <2>1. /\ Claims(m) \in Nat /\ Claims(m)' \in Nat
        /\ Claims(m)' = Claims(m) + IF m \in Legs(pair) THEN 1 ELSE 0
    BY <1>1, <1>5, <1>6, StillClaims
  <2>2. /\ Covered(m, 0) /\ Held(m)' <= Held(m) /\ Held(m) \in Nat /\ Held(m)' \in Nat
        /\ AlarmKept(m)
    BY <1>1, AccountKept, NetType DEF LegsInv
  <2>3. CASE m \in Legs(pair)
    <3>1. Covered(m, 1)'
      BY <2>1, <2>2, <2>3, CoverShift, NetType
    <3>2. LegLots * 1 = LegLots /\ LegLots * 0 = 0 /\ LegLots \in Nat
      BY LegsAdd
    <3>3. LegLots * Claims(m)' \in Nat
      BY <2>1, LegsAdd
    <3>4. Held(m)' \in Nat
      BY <2>2
    <3>5. 0 \in Nat /\ 0 <= Claims(m)'
      BY <2>1
    <3>. QED BY <2>3, <3>1, <3>2, <3>3, <3>4, <3>5 DEF Covered
  <2>4. CASE m \notin Legs(pair)
    BY <2>1, <2>2, <2>4, CoverKept, NetType
  <2>. QED BY <2>3, <2>4
<1>9. /\ SpareOK(pass[p])' /\ RowInHandOK(pass'[p], trades')
      /\ CancelOK(pass'[p]) /\ AbortOK(pass[p])'
  BY <1>5, <1>7, <1>8 DEF SpareOK, RowInHandOK, CancelOK, AbortOK, ClosingPcs
<1>. QED BY <1>1, <1>5, <1>8, <1>9, LegsStep

\* A pass goes on to pc with everything else as it is.
LEMMA GotoFacts ==
    ASSUME IInv, NEW p \in Procs, NEW pc, Goto(p, pc)
    PROVE  /\ pass'[p].pc = pc /\ pass'[p].cur = pass[p].cur
           /\ pass'[p].acked = pass[p].acked /\ pass'[p].failed = pass[p].failed
           /\ pass'[p].positions = pass[p].positions /\ Moves(p)
<1>. DEFINE l == [pass[p] EXCEPT !.pc = pc]
<1>1. /\ l.pc = pc /\ l.cur = pass[p].cur /\ l.acked = pass[p].acked
      /\ l.failed = pass[p].failed /\ l.positions = pass[p].positions /\ Local(p, l)
  BY HolderFacts DEF Goto, Locals
<1>. HIDE DEF l
<1>. QED BY <1>1, LocalFacts

\* The two legs in hand are two markets.
LEMMA TwoLegs ==
    ASSUME IInv, NEW p \in Procs, pass[p].pc \in OpeningPcs \cup ClosingPcs
    PROVE  /\ Leg1(p) \in Markets /\ Leg2(p) \in Markets /\ Leg1(p) # Leg2(p)
           /\ Legs(pass[p].cur.pair) = {Leg1(p), Leg2(p)}
BY HandFacts, PairsAssumption DEF Legs, Leg1, Leg2

\* The claims of a trade that goes on opening, or is given up.
LEMMA OpeningClaims ==
    ASSUME IInv, NEW p \in Procs, Holds(p), Moves(p), trades' = trades,
           pass[p].pc \in OpeningPcs, pass'[p].cur = pass[p].cur,
           pass'[p].pc \in OpeningPcs \cup {"recordError"}
    PROVE  \A m \in Markets :
              /\ Claims(m) \in Nat /\ Claims(m)' \in Nat
              /\ Claims(m)' = Claims(m)
                    - IF pass'[p].pc = "recordError" /\ m \in Legs(pass[p].cur.pair)
                      THEN 1 ELSE 0
              /\ m \in Legs(pass[p].cur.pair) => Claims(m) >= 1
<1>1. ASSUME NEW m \in Markets
      PROVE  /\ Claims(m) \in Nat /\ Claims(m)' \in Nat
             /\ Claims(m)' = Claims(m)
                    - IF pass'[p].pc = "recordError" /\ m \in Legs(pass[p].cur.pair)
                      THEN 1 ELSE 0
             /\ m \in Legs(pass[p].cur.pair) => Claims(m) >= 1
  <2>1. OpenClaim(pass[p], m) = IF m \in Legs(pass[p].cur.pair) THEN 1 ELSE 0
    BY DEF OpenClaim
  <2>2. OpenClaim(pass'[p], m) = IF /\ pass'[p].pc # "recordError"
                                    /\ m \in Legs(pass[p].cur.pair) THEN 1 ELSE 0
    BY DEF OpenClaim, OpeningPcs
  <2>3. RowClaims(trades, m) \in Nat
    BY RowClaimsNat, RowFacts
  <2>. QED BY <2>1, <2>2, <2>3, ClaimsAre
<1>. QED BY <1>1

\* What is claimed and not bought stays so while nobody buys it.
LEMMA OpenedOK ==
    ASSUME NEW p \in Procs, pass[p].pc \in OpeningPcs,
           pass'[p].pc \in OpeningPcs \cup {"recordError"}
    PROVE  RowInHandOK(pass'[p], trades') /\ CancelOK(pass'[p]) /\ AbortOK(pass[p])'
BY DEF RowInHandOK, CancelOK, AbortOK, ClosingPcs, OpeningPcs

\* A leg that is bought, whole or in part, was to spare.
LEMMA Bought ==
    ASSUME Safe, IInv, LegsInv, NEW p \in Procs, PassStep(p), Holds(p), Moves(p),
           trades' = trades, pass[p].pc \in OpeningPcs, pass'[p].pc \in OpeningPcs,
           pass'[p].cur = pass[p].cur, NEW m \in Markets, Covered(m, 1), NEW side,
           Accepted(m, side, LegLots, FALSE)
    PROVE  /\ \A k \in Markets : Covered(k, 0)'
           /\ \A k \in Markets \ {m} : Covered(k, 1) => Covered(k, 1)'
<1>1. /\ Held(m)' <= Held(m) + LegLots /\ AlarmsKept({})
      /\ \A k \in Markets \ {m} : Held(k)' = Held(k)
  BY OpenFacts, NetType, LotsAssumption DEF Accepted, Safe
<1>2. \A k \in Markets : Claims(k) \in Nat /\ Claims(k)' = Claims(k)
  BY OpeningClaims DEF OpeningPcs
<1>3. \A k \in Markets : AlarmKept(k)
  BY <1>1, AlarmStays
<1>4. Covered(m, 0)'
  BY <1>1, <1>2, <1>3, CoverBought, NetType
<1>5. ASSUME NEW k \in Markets \ {m}, NEW n \in Nat, Covered(k, n) PROVE Covered(k, n)'
  <2>1. Held(k)' <= Held(k)
    BY <1>1, NetType
  <2>. QED BY <1>2, <1>3, <1>5, <2>1, CoverKept, NetType
<1>6. \A k \in Markets : Covered(k, 0)
  BY DEF LegsInv
<1>. QED BY <1>4, <1>5, <1>6

\* A trade that is given up leaves no leg behind: none was there, it was sold,
\* or it is alarmed.
LEMMA GivenUp ==
    ASSUME IInv, LegsInv, NEW p \in Procs, PassStep(p), Holds(p), Moves(p),
           trades' = trades, pass[p].pc \in OpeningPcs, pass'[p].pc = "recordError",
           pass'[p].cur = pass[p].cur,
           \A m \in Markets :
              /\ AlarmKept(m)
              /\ m \notin Legs(pass[p].cur.pair) => Held(m)' <= Held(m)
              /\ m \in Legs(pass[p].cur.pair) =>
                    \/ Held(m)' = 0 \/ m \in alarmed'
                    \/ Held(m)' + LegLots <= Held(m)
                    \/ Covered(m, 1) /\ Held(m)' <= Held(m)
    PROVE  LegsInv'
<1>1. \A m \in Markets : /\ Claims(m) \in Nat /\ Claims(m)' \in Nat
                         /\ Claims(m)' = Claims(m) -
                               IF m \in Legs(pass[p].cur.pair) THEN 1 ELSE 0
  BY OpeningClaims DEF OpeningPcs
<1>2. ASSUME NEW m \in Markets PROVE Covered(m, 0)'
  <2>1. /\ Held(m) \in Nat /\ Held(m)' \in Nat /\ AlarmKept(m)
        /\ Covered(m, 0) /\ Claims(m) \in Nat /\ Claims(m)' \in Nat
    BY <1>1, NetType DEF LegsInv
  <2>2. CASE m \notin Legs(pass[p].cur.pair)
    BY <1>1, <2>1, <2>2, CoverKept, NetType
  <2>3. CASE m \in Legs(pass[p].cur.pair)
    <3>0. Claims(m) = Claims(m)' + 1
      BY <1>1, <2>1, <2>3
    <3>1. CASE Held(m)' = 0
      BY <2>1, <3>1, FlatCovered
    <3>2. CASE m \in alarmed'
      BY <2>1, <3>2 DEF Covered
    <3>3. CASE Held(m)' + LegLots <= Held(m)
      BY <2>1, <3>0, <3>3, CoverSold, NetType
    <3>4. CASE Covered(m, 1) /\ Held(m)' <= Held(m)
      BY <2>1, <3>0, <3>4, CoverShift, NetType
    <3>. QED BY <2>3, <3>1, <3>2, <3>3, <3>4
  <2>. QED BY <2>2, <2>3
<1>. QED BY <1>2, PlainStep

\* The base leg's order: accepted, or nothing was bought at all.
LEMMA PlaceLeg1Legs ==
    ASSUME Safe, IInv, LegsInv, NEW p \in Procs, PassStep(p), PlaceLeg1(p)
    PROVE  LegsInv'
<1>1. Holds(p) /\ pass[p].pc = "leg1" /\ trades' = trades
  BY DEF PlaceLeg1, SubmitLeg, At, NoRowChange, dbVars
<1>2. PICK b \in Markets, q \in Markets : /\ b = Leg1(p) /\ q = Leg2(p) /\ b # q
                                         /\ Legs(pass[p].cur.pair) = {b, q}
                                         /\ pass[p].cur.pair.quote = q
  BY <1>1, TwoLegs DEF OpeningPcs, Leg2
<1>3. Covered(b, 1) /\ Covered(q, 1)
  BY <1>1, <1>2 DEF LegsInv, SpareOK, Spare
<1>4. CASE Accepted(b, LegSide(pass[p].cur, b), LegLots, FALSE) /\ Goto(p, "wait1")
  <2>1. pass'[p].pc = "wait1" /\ pass'[p].cur = pass[p].cur /\ Moves(p)
    BY <1>4, GotoFacts
  <2>2. (\A m \in Markets : Covered(m, 0)') /\ Covered(q, 1)'
    BY <1>1, <1>2, <1>3, <1>4, <2>1, Bought DEF OpeningPcs
  <2>3. Spare(pass'[p]) = {q}
    BY <1>2, <2>1 DEF Spare
  <2>4. SpareOK(pass[p])'
    BY <2>2, <2>3 DEF SpareOK
  <2>. QED BY <1>1, <2>1, <2>2, <2>4, OpenedOK, LegsStep DEF OpeningPcs
<1>5. CASE Refused(b, LegSide(pass[p].cur, b), LegLots, FALSE, {}) /\ Goto(p, "recordError")
  <2>0. AlarmsKept({}) /\ \A m \in Markets : Held(m)' = Held(m)
    BY <1>5, RefusedFacts, NetType DEF Safe
  <2>1. \A m \in Markets : Held(m)' <= Held(m) /\ AlarmKept(m)
    BY <2>0, AlarmStays, NetType
  <2>2. pass'[p].pc = "recordError" /\ pass'[p].cur = pass[p].cur /\ Moves(p)
    BY <1>5, GotoFacts
  <2>. QED BY <1>1, <1>2, <1>3, <2>1, <2>2, GivenUp DEF OpeningPcs
<1>. QED BY <1>2, <1>4, <1>5 DEF PlaceLeg1, SubmitLeg

\* The base leg is seen, or it is not there.
LEMMA AwaitLeg1Legs ==
    ASSUME Safe, IInv, LegsInv, NEW p \in Procs, PassStep(p), AwaitLeg1(p)
    PROVE  LegsInv'
<1>1. Holds(p) /\ pass[p].pc = "wait1" /\ trades' = trades /\ NoAccountChange
  BY DEF AwaitLeg1, AwaitFill, At, NoRowChange, dbVars
<1>2. PICK b \in Markets, q \in Markets : /\ b = Leg1(p) /\ q = Leg2(p) /\ b # q
                                         /\ Legs(pass[p].cur.pair) = {b, q}
                                         /\ pass[p].cur.pair.quote = q
  BY <1>1, TwoLegs DEF OpeningPcs, Leg2
<1>3. Covered(q, 1)
  BY <1>1, <1>2 DEF LegsInv, SpareOK, Spare
<1>4. CASE Goto(p, "leg2")
  <2>1. pass'[p].pc = "leg2" /\ pass'[p].cur = pass[p].cur /\ Moves(p)
    BY <1>4, GotoFacts
  <2>2. \A m \in Markets : OpenClaim(pass'[p], m) = OpenClaim(pass[p], m)
    BY <1>1, <2>1 DEF OpenClaim, OpeningPcs
  <2>3. \A m \in Markets : \A n \in Nat : Covered(m, n) => Covered(m, n)'
    BY <1>1, <2>1, <2>2, QuietKept
  <2>4. (\A m \in Markets : Covered(m, 0)') /\ Covered(q, 1)'
    BY <1>3, <2>3 DEF LegsInv
  <2>5. Spare(pass'[p]) = {q}
    BY <1>2, <2>1 DEF Spare
  <2>6. SpareOK(pass[p])'
    BY <2>4, <2>5 DEF SpareOK
  <2>. QED BY <1>1, <2>1, <2>4, <2>6, OpenedOK, LegsStep DEF OpeningPcs
<1>5. CASE TimesOut(b) /\ Goto(p, "recordError")
  <2>0. net'[b] = 0
    BY <1>1, <1>5 DEF TimesOut, Safe, NoAccountChange, accountVars
  <2>1. Held(b)' = 0 /\ \A m \in Markets : Held(m)' <= Held(m) /\ AlarmKept(m)
    BY <1>1, <2>0, AccountKept, NetType, FlatHeld
  <2>2. pass'[p].pc = "recordError" /\ pass'[p].cur = pass[p].cur /\ Moves(p)
    BY <1>5, GotoFacts
  <2>. QED BY <1>1, <1>2, <1>3, <2>1, <2>2, GivenUp DEF OpeningPcs
<1>. QED BY <1>2, <1>4, <1>5 DEF AwaitLeg1, AwaitFill

\* The quote leg's order: accepted, or the failsafe has to act.
LEMMA PlaceLeg2Legs ==
    ASSUME Safe, IInv, LegsInv, NEW p \in Procs, PassStep(p), PlaceLeg2(p)
    PROVE  LegsInv'
<1>1. Holds(p) /\ pass[p].pc = "leg2" /\ trades' = trades
  BY DEF PlaceLeg2, SubmitLeg, At, NoRowChange, dbVars
<1>2. PICK q \in Markets : q = Leg2(p) /\ pass[p].cur.pair.quote = q
  BY <1>1, TwoLegs DEF OpeningPcs, Leg2
<1>3. Covered(q, 1)
  BY <1>1, <1>2 DEF LegsInv, SpareOK, Spare
<1>4. CASE Accepted(q, LegSide(pass[p].cur, q), LegLots, FALSE) /\ Goto(p, "wait2")
  <2>1. pass'[p].pc = "wait2" /\ pass'[p].cur = pass[p].cur /\ Moves(p)
    BY <1>4, GotoFacts
  <2>2. \A m \in Markets : Covered(m, 0)'
    BY <1>1, <1>3, <1>4, <2>1, Bought DEF OpeningPcs
  <2>. QED BY <1>1, <2>1, <2>2, PlainStep
<1>5. CASE Refused(q, LegSide(pass[p].cur, q), LegLots, FALSE, {}) /\ Goto(p, "failsafe")
  <2>0. AlarmsKept({}) /\ \A m \in Markets : Held(m)' = Held(m)
    BY <1>5, RefusedFacts, NetType DEF Safe
  <2>1. \A m \in Markets : Held(m)' <= Held(m) /\ AlarmKept(m)
    BY <2>0, AlarmStays, NetType
  <2>2. pass'[p].pc = "failsafe" /\ pass'[p].cur = pass[p].cur /\ Moves(p)
    BY <1>5, GotoFacts
  <2>3. \A m \in Markets : OpenClaim(pass'[p], m) = OpenClaim(pass[p], m)
    BY <1>1, <2>2 DEF OpenClaim, OpeningPcs
  <2>4. \A m \in Markets : \A n \in Nat : Covered(m, n) => Covered(m, n)'
    BY <1>1, <2>1, <2>2, <2>3, AllKept
  <2>5. (\A m \in Markets : Covered(m, 0)') /\ Covered(q, 1)'
    BY <1>3, <2>4 DEF LegsInv
  <2>6. Spare(pass'[p]) = {q}
    BY <1>2, <2>2 DEF Spare
  <2>7. SpareOK(pass[p])'
    BY <2>5, <2>6 DEF SpareOK
  <2>. QED BY <1>1, <2>2, <2>5, <2>7, OpenedOK, LegsStep DEF OpeningPcs
<1>. QED BY <1>2, <1>4, <1>5 DEF PlaceLeg2, SubmitLeg

\* The quote leg is seen, or it is not there and stays to spare.
LEMMA AwaitLeg2Legs ==
    ASSUME Safe, IInv, LegsInv, NEW p \in Procs, PassStep(p), AwaitLeg2(p)
    PROVE  LegsInv'
<1>1. Holds(p) /\ pass[p].pc = "wait2" /\ trades' = trades /\ NoAccountChange
  BY DEF AwaitLeg2, AwaitFill, At, NoRowChange, dbVars
<1>2. PICK q \in Markets : q = Leg2(p) /\ pass[p].cur.pair.quote = q
                           /\ q \in Legs(pass[p].cur.pair)
  BY <1>1, TwoLegs DEF OpeningPcs, Leg2
<1>3. ASSUME NEW pc \in {"recordLive", "failsafe"}, Goto(p, pc)
      PROVE  /\ pass'[p].pc = pc /\ pass'[p].cur = pass[p].cur /\ Moves(p)
             /\ \A m \in Markets : Covered(m, 0)'
  <2>1. pass'[p].pc = pc /\ pass'[p].cur = pass[p].cur /\ Moves(p)
    BY <1>3, GotoFacts
  <2>2. \A m \in Markets : OpenClaim(pass'[p], m) = OpenClaim(pass[p], m)
    BY <1>1, <2>1 DEF OpenClaim, OpeningPcs
  <2>. QED BY <1>1, <2>1, <2>2, QuietKept DEF LegsInv
<1>4. CASE Goto(p, "recordLive")
  BY <1>1, <1>3, <1>4, PlainStep
<1>5. CASE TimesOut(q) /\ Goto(p, "failsafe")
  <2>1. /\ pass'[p].pc = "failsafe" /\ pass'[p].cur = pass[p].cur /\ Moves(p)
        /\ \A m \in Markets : Covered(m, 0)'
    BY <1>3, <1>5
  <2>2. net'[q] = 0
    BY <1>1, <1>5 DEF TimesOut, Safe, NoAccountChange, accountVars
  <2>3. Claims(q)' \in Nat /\ Claims(q)' >= 1
    BY <1>1, <1>2, <2>1, OpeningClaims DEF OpeningPcs
  <2>4. Covered(q, 1)'
    BY <2>2, <2>3, FlatCovered, FlatHeld, NetType
  <2>5. Spare(pass'[p]) = {q}
    BY <1>2, <2>1 DEF Spare
  <2>6. SpareOK(pass[p])'
    BY <2>4, <2>5 DEF SpareOK
  <2>. QED BY <1>1, <2>1, <2>6, OpenedOK, LegsStep DEF OpeningPcs
<1>. QED BY <1>2, <1>4, <1>5 DEF AwaitLeg2, AwaitFill

\* The base leg is sold again, or alarmed; the quote leg was never bought.
LEMMA FailsafeLegs ==
    ASSUME Safe, IInv, LegsInv, NEW p \in Procs, PassStep(p), Failsafe(p)
    PROVE  LegsInv'
<1>1. Holds(p) /\ pass[p].pc = "failsafe" /\ trades' = trades /\ Goto(p, "recordError")
  BY DEF Failsafe, At, NoRowChange, dbVars
<1>2. PICK b \in Markets, q \in Markets : /\ b = Leg1(p) /\ q = Leg2(p) /\ b # q
                                         /\ Legs(pass[p].cur.pair) = {b, q}
                                         /\ pass[p].cur.pair.quote = q
  BY <1>1, TwoLegs DEF OpeningPcs, Leg2
<1>3. Covered(q, 1)
  BY <1>1, <1>2 DEF LegsInv, SpareOK, Spare
<1>4. pass'[p].pc = "recordError" /\ pass'[p].cur = pass[p].cur /\ Moves(p)
  BY <1>1, GotoFacts
<1>5. CASE Accepted(b, CloseSide(pass[p].cur, b), LegLots, TRUE)
  <2>1. /\ AlarmsKept({}) /\ \A k \in Markets \ {b} : Held(k)' = Held(k)
        /\ Held(b)' = IF Held(b) <= LegLots THEN 0 ELSE Held(b) - LegLots
    BY <1>5, ReduceFacts, NetType, LotsAssumption DEF Accepted, Safe
  <2>2. /\ Held(b)' = 0 \/ Held(b)' + LegLots <= Held(b)
        /\ \A k \in Markets \ {b} : Held(k)' <= Held(k)
    BY <2>1, NetType, LotsAssumption
  <2>3. \A m \in Markets : AlarmKept(m)
    BY <2>1, AlarmStays
  <2>. QED BY <1>1, <1>2, <1>3, <1>4, <2>1, <2>2, <2>3, GivenUp DEF OpeningPcs
<1>6. CASE Refused(b, CloseSide(pass[p].cur, b), LegLots, TRUE, {b})
  <2>0. AlarmsKept({b}) /\ \A m \in Markets : Held(m)' = Held(m)
    BY <1>6, RefusedFacts, NetType DEF Safe
  <2>1. \A m \in Markets : Held(m)' <= Held(m) /\ AlarmKept(m)
    BY <2>0, AlarmStays, NetType
  <2>2. Held(b)' = 0 \/ b \in alarmed'
    BY <1>6, RefusedFacts, AlarmStays, FlatHeld, NetType DEF Safe
  <2>. QED BY <1>1, <1>2, <1>3, <1>4, <2>1, <2>2, GivenUp DEF OpeningPcs
<1>. QED BY <1>2, <1>5, <1>6 DEF Failsafe

\* The trade's claims become its row's, or had gone before.
LEMMA RecordLegs ==
    ASSUME IInv, LegsInv, NEW p \in Procs, PassStep(p), RecordLive(p) \/ RecordError(p)
    PROVE  LegsInv'
<1>0. pass[p] \in Locals
  BY HolderFacts
<1>1. Holds(p) /\ NoAccountChange
  BY DEF RecordLive, RecordError, At
<1>2. PICK status \in {"OPEN", "ERROR"} :
          /\ pass[p].pc = IF status = "OPEN" THEN "recordLive" ELSE "recordError"
          /\ trades' = Append(trades, Row(pass[p].cur, status))
  BY DEF RecordLive, RecordError, At
<1>3. pass'[p].pc \in {"entry", "idle"} /\ Moves(p)
  <2>1. CASE Release(p)
    BY <2>1, ReleaseFacts
  <2>2. ASSUME NEW l, Local(p, l), l.pc = "entry"
        PROVE  pass'[p].pc \in {"entry", "idle"} /\ Moves(p)
    BY <2>2, LocalFacts
  <2>3. \A open :
            /\ [pass[p] EXCEPT !.pc = "entry", !.cur = Nothing, !.openPairs = open].pc = "entry"
            /\ [pass[p] EXCEPT !.pc = "entry", !.cur = Nothing].pc = "entry"
    BY <1>0 DEF Locals
  <2>4. \/ Release(p)
        \/ Local(p, [pass[p] EXCEPT !.pc = "entry", !.cur = Nothing,
                        !.openPairs = pass[p].openPairs \cup {pass[p].cur.pair}])
        \/ Local(p, [pass[p] EXCEPT !.pc = "entry", !.cur = Nothing])
    BY DEF RecordLive, RecordError
  <2>. QED BY <2>1, <2>2, <2>3, <2>4
<1>4. ASSUME NEW m \in Markets PROVE Covered(m, 0)'
  <2>1. Claims(m) \in Nat /\ Claims(m)' = Claims(m)
    BY <1>1, <1>2, <1>3, RecordClaims DEF OpeningPcs
  <2>2. Held(m)' <= Held(m) /\ AlarmKept(m) /\ Covered(m, 0)
    BY <1>1, AccountKept, NetType DEF LegsInv
  <2>. QED BY <2>1, <2>2, CoverKept, NetType
<1>. QED BY <1>1, <1>3, <1>4, PlainStep

\* Every step of an entry scan.
LEMMA EntryLegs ==
    ASSUME Safe, IInv, LegsInv, NEW p \in Procs, EntryStep(p)
    PROVE  LegsInv'
<1>1. PassStep(p)
  BY DEF PassStep
<1>. QED BY <1>1, EntryScanLegs, ApprovedLegs, PlaceLeg1Legs, AwaitLeg1Legs, PlaceLeg2Legs,
            AwaitLeg2Legs, FailsafeLegs, RecordLegs DEF EntryStep

\* A row is closed whose legs are flat, alarmed or just closed.
LEMMA RowClosed ==
    ASSUME IInv, LegsInv, NEW p \in Procs, PassStep(p), Holds(p), Moves(p), NoAccountChange,
           pass[p].pc \notin OpeningPcs, pass'[p].pc \notin OpeningPcs,
           NEW i \in OpenIn(trades), NEW reason \in Reasons, CloseRow(i, reason),
           \A m \in Markets : m \in Legs(trades[i].pair) =>
               Held(m) = 0 \/ m \in alarmed \/ Covered(m, 1)
    PROVE  \A m \in Markets : Covered(m, 0)'
<1>1. ASSUME NEW m \in Markets PROVE Covered(m, 0)'
  <2>1. OpenClaim(pass[p], m) = 0 /\ OpenClaim(pass'[p], m) = 0
    BY DEF OpenClaim
  <2>2. /\ Claims(m) \in Nat /\ Claims(m)' \in Nat
        /\ IF m \in Legs(trades[i].pair) THEN Claims(m) = Claims(m)' + 1
           ELSE Claims(m)' = Claims(m)
    BY <2>1, CloseClaims
  <2>3. /\ Held(m)' = Held(m) /\ alarmed' = alarmed /\ Covered(m, 0)
        /\ Held(m) \in Nat /\ AlarmKept(m)
    BY NetType DEF LegsInv, NoAccountChange, accountVars, AlarmKept, Held
  <2>4. CASE m \notin Legs(trades[i].pair)
    BY <2>2, <2>3, <2>4, CoverKept, NetType
  <2>5. CASE Held(m) = 0
    BY <2>2, <2>3, <2>5, FlatCovered
  <2>6. CASE m \in alarmed
    BY <2>2, <2>3, <2>6 DEF Covered
  <2>7. CASE m \in Legs(trades[i].pair) /\ Covered(m, 1)
    BY <2>2, <2>3, <2>7, CoverShift, NetType
  <2>. QED BY <2>4, <2>5, <2>6, <2>7
<1>. QED BY <1>1

\* A leg that is sold under a claim is to spare: what was not sold of it is
\* shortfall.
LEMMA Sold ==
    ASSUME Safe, IInv, LegsInv, NEW p \in Procs, PassStep(p), Holds(p), Moves(p),
           trades' = trades, pass[p].pc \notin OpeningPcs, pass'[p].pc \notin OpeningPcs,
           NEW m \in Markets, Claims(m) >= 1, NEW side, Accepted(m, side, LegLots, TRUE)
    PROVE  /\ \A k \in Markets : \A n \in Nat : Covered(k, n) => Covered(k, n)'
           /\ Covered(m, 1)'
<1>1. /\ AlarmsKept({}) /\ \A k \in Markets \ {m} : Held(k)' = Held(k)
      /\ Held(m)' = IF Held(m) <= LegLots THEN 0 ELSE Held(m) - LegLots
  BY ReduceFacts, NetType, LotsAssumption DEF Accepted, Safe
<1>2. Held(m)' = 0 \/ Held(m)' + LegLots <= Held(m)
  BY <1>1, NetType, LotsAssumption
<1>3. \A k \in Markets : AlarmKept(k)
  BY <1>1, AlarmStays
<1>4. \A k \in Markets : Held(k) \in Nat /\ Held(k)' \in Nat
  BY NetType
<1>5. \A k \in Markets : Held(k)' <= Held(k)
  BY <1>1, <1>2, <1>4, LotsAssumption
<1>6. \A k \in Markets : OpenClaim(pass'[p], k) = OpenClaim(pass[p], k)
  BY DEF OpenClaim
<1>7. Claims(m) \in Nat /\ Claims(m)' = Claims(m)
  BY <1>6, StillClaims
<1>8. Covered(m, 0)
  BY DEF LegsInv
<1>9. Covered(m, 1)'
  <2>1. CASE Held(m)' = 0
    BY <1>7, <2>1, FlatCovered
  <2>2. CASE Held(m)' + LegLots <= Held(m)
    BY <1>3, <1>4, <1>7, <1>8, <2>2, CoverSold, NetType
  <2>. QED BY <1>2, <2>1, <2>2
<1>. QED BY <1>3, <1>5, <1>6, <1>9, AllKept

\* An order that was refused for good leaves everything covered.
LEMMA NotSold ==
    ASSUME Safe, IInv, NEW p \in Procs, PassStep(p), Holds(p), Moves(p),
           trades' = trades, pass[p].pc \notin OpeningPcs, pass'[p].pc \notin OpeningPcs,
           NEW m, NEW side, NEW size, NEW named, Refused(m, side, size, TRUE, named)
    PROVE  \A k \in Markets : \A n \in Nat : Covered(k, n) => Covered(k, n)'
<1>1. \A k \in Markets : Held(k)' = Held(k) /\ AlarmKept(k)
  BY RefusedFacts, AlarmStays, NetType DEF Safe
<1>2. \A k \in Markets : Held(k)' <= Held(k)
  BY <1>1, NetType
<1>3. \A k \in Markets : OpenClaim(pass'[p], k) = OpenClaim(pass[p], k)
  BY DEF OpenClaim
<1>. QED BY <1>1, <1>2, <1>3, AllKept

\* Taking a row up.
LEMMA TakeUpFacts ==
    ASSUME IInv, NEW p \in Procs, NEW i, NEW pc, NEW reason, TakeUp(p, i, pc, reason)
    PROVE  /\ pass'[p].pc = pc /\ pass'[p].acked = {} /\ Moves(p)
           /\ pass'[p].cur.row = i /\ pass'[p].cur.pair = trades[i].pair
<1>. DEFINE cur == [pair |-> trades[i].pair, side |-> trades[i].side,
                    row |-> i, reason |-> reason]
            l == [pass[p] EXCEPT !.pc = pc, !.rows = @ \ {i}, !.acked = {}, !.cur = cur]
<1>1. cur.row = i /\ cur.pair = trades[i].pair
  OBVIOUS
<1>. HIDE DEF cur
<1>2. l.pc = pc /\ l.acked = {} /\ l.cur = cur
  BY HolderFacts DEF Locals
<1>3. Local(p, l)
  BY DEF TakeUp, cur
<1>. HIDE DEF l
<1>. QED BY <1>1, <1>2, <1>3, LocalFacts

\* Dropping a row from the list.
LEMMA DropFacts ==
    ASSUME IInv, NEW p \in Procs, NEW i, pass[p].pc \in {"exit", "mark"},
           Local(p, [pass[p] EXCEPT !.rows = @ \ {i}])
    PROVE  /\ pass'[p].pc = pass[p].pc /\ Moves(p)
<1>. DEFINE l == [pass[p] EXCEPT !.rows = @ \ {i}]
<1>1. l.pc = pass[p].pc /\ Local(p, l)
  BY DropRow
<1>. HIDE DEF l
<1>. QED BY <1>1, LocalFacts

\* Beginning and ending an exit pass, and holding a row.
LEMMA ExitScanLegs ==
    ASSUME IInv, LegsInv, NEW p \in Procs, PassStep(p),
           \/ ExitNothing(p) \/ ExitStart(p) \/ ExitDone(p)
           \/ \E i \in DOMAIN trades : ExitHold(p, i)
    PROVE  LegsInv'
<1>1. CASE ExitNothing(p) \/ ExitDone(p)
  BY <1>1, ReleaseLegs DEF ExitNothing, ExitDone, Begins, At, NoRowChange, dbVars, OpeningPcs
<1>2. CASE ExitStart(p)
  <2>1. PICK positions \in PositionReports :
            Local(p, [pass[p] EXCEPT !.pc = "exit", !.rows = OpenRows,
                                     !.positions = positions])
    BY <1>2 DEF ExitStart
  <2>. DEFINE l == [pass[p] EXCEPT !.pc = "exit", !.rows = OpenRows, !.positions = positions]
  <2>2. l.pc = "exit" /\ Local(p, l)
    BY <2>1, HolderFacts DEF Locals
  <2>. HIDE DEF l
  <2>3. pass'[p].pc = "exit" /\ Moves(p)
    BY <2>2, LocalFacts
  <2>4. Holds(p) /\ pass[p].pc = "start" /\ NoAccountChange /\ trades' = trades
    BY <1>2 DEF ExitStart, Begins, At, NoRowChange, dbVars
  <2>. QED BY <2>3, <2>4, PlainLegs DEF OpenClaim, OpeningPcs
<1>3. CASE \E i \in DOMAIN trades : ExitHold(p, i)
  <2>0. PICK i \in DOMAIN trades : ExitHold(p, i)
    BY <1>3
  <2>1. /\ Holds(p) /\ pass[p].pc = "exit" /\ NoAccountChange /\ trades' = trades
        /\ Local(p, [pass[p] EXCEPT !.rows = @ \ {i}])
    BY <2>0 DEF ExitHold, At, NoRowChange, dbVars
  <2>2. pass'[p].pc = "exit" /\ Moves(p)
    BY <2>1, DropFacts
  <2>. QED BY <2>1, <2>2, PlainLegs DEF OpenClaim, OpeningPcs
<1>. QED BY <1>1, <1>2, <1>3

\* A row is reconciled: neither leg is there.
LEMMA ReconcileLegs ==
    ASSUME IInv, FillsOK, LegsInv, NEW p \in Procs, PassStep(p),
           NEW i \in DOMAIN trades, ExitReconcile(p, i)
    PROVE  LegsInv'
<1>1. /\ Holds(p) /\ pass[p].pc = "exit" /\ NoAccountChange /\ i \in pass[p].rows
      /\ CloseRow(i, "RECONCILED") /\ Gone(p, i)
      /\ Local(p, [pass[p] EXCEPT !.rows = @ \ {i}])
  BY DEF ExitReconcile, At
<1>2. i \in OpenIn(trades)
  BY <1>1, DropRow
<1>3. pass'[p].pc = "exit" /\ Moves(p)
  BY <1>1, DropFacts
<1>4. \A m \in Markets : m \in Legs(trades[i].pair) => Held(m) = 0
  <2>1. \A m \in Markets : m \in Legs(trades[i].pair) => net[m] = 0
    BY <1>1 DEF Gone, LegsSeen, Live, FillsOK, ViewOK, ViewingPcs
  <2>. QED BY <2>1, FlatIsHeld
<1>5. \A m \in Markets : Covered(m, 0)'
  BY <1>1, <1>2, <1>3, <1>4, RowClosed DEF Reasons, OpeningPcs
<1>. QED BY <1>1, <1>3, <1>5, PlainStep

\* A row is taken up to be closed.
LEMMA ApprovedExitLegs ==
    ASSUME IInv, LegsInv, NEW p \in Procs, PassStep(p),
           NEW i \in DOMAIN trades, ExitApproved(p, i)
    PROVE  LegsInv'
<1>1. /\ Holds(p) /\ pass[p].pc = "exit" /\ NoAccountChange /\ trades' = trades
      /\ TakeUp(p, i, "close1", "SIGNAL")
  BY DEF ExitApproved, At, NoRowChange, dbVars
<1>2. /\ pass'[p].pc = "close1" /\ pass'[p].acked = {} /\ Moves(p)
      /\ pass'[p].cur.row = i /\ pass'[p].cur.pair = trades[i].pair
  BY <1>1, TakeUpFacts
<1>3. \A m \in Markets : Covered(m, 0)'
  BY <1>1, <1>2, QuietKept DEF OpenClaim, OpeningPcs, LegsInv
<1>4. Spare(pass'[p]) = {}
  BY <1>2 DEF Spare
<1>5. SpareOK(pass[p])'
  BY <1>4 DEF SpareOK
<1>6. RowInHandOK(pass'[p], trades') /\ CancelOK(pass'[p]) /\ AbortOK(pass[p])'
  BY <1>1, <1>2 DEF RowInHandOK, CancelOK, AbortOK
<1>. QED BY <1>1, <1>2, <1>3, <1>5, <1>6, LegsStep

\* The leg that is left is closed, or alarmed with its row kept OPEN.
LEMMA OrphanLegs ==
    ASSUME Safe, IInv, FillsOK, LegsInv, NEW p \in Procs, PassStep(p),
           NEW i \in DOMAIN trades, ExitOrphan(p, i)
    PROVE  LegsInv'
<1>1. Holds(p) /\ pass[p].pc = "exit" /\ i \in pass[p].rows /\ trades' = trades
  BY DEF ExitOrphan, At, NoRowChange, dbVars
<1>2. PICK m \in Legs(trades[i].pair) :
          /\ LegsSeen(p, i) = {m}
          /\ \/ /\ Accepted(m, CloseSide(trades[i], m), LegLots, TRUE)
                /\ TakeUp(p, i, "persist", "ORPHANED")
             \/ /\ Refused(m, CloseSide(trades[i], m), LegLots, TRUE, {m})
                /\ Local(p, [pass[p] EXCEPT !.rows = @ \ {i}])
  BY DEF ExitOrphan
<1>3. i \in OpenIn(trades) /\ Legs(trades[i].pair) \subseteq Markets
  BY <1>1, DropRow, RowFacts, LegFacts
<1>4. CASE /\ Accepted(m, CloseSide(trades[i], m), LegLots, TRUE)
           /\ TakeUp(p, i, "persist", "ORPHANED")
  <2>1. /\ pass'[p].pc = "persist" /\ Moves(p)
        /\ pass'[p].cur.row = i /\ pass'[p].cur.pair = trades[i].pair
    BY <1>4, TakeUpFacts
  <2>2. \A k \in Legs(trades[i].pair) : Claims(k) \in Nat /\ Claims(k) >= 1
    BY <1>1, <1>3, <2>1, ClaimOfRow
  <2>3. /\ \A k \in Markets : \A n \in Nat : Covered(k, n) => Covered(k, n)'
        /\ Covered(m, 1)'
    BY <1>1, <1>2, <1>3, <1>4, <2>1, <2>2, Sold DEF OpeningPcs
  <2>4. ASSUME NEW k \in Legs(trades[i].pair), k # m PROVE Covered(k, 1)'
    <3>1. net[k] = 0
      BY <1>1, <1>2, <1>3, <2>4 DEF LegsSeen, Live, FillsOK, ViewOK, ViewingPcs
    <3>2. Held(k) = 0 /\ Claims(k) \in Nat /\ Claims(k) >= 1
      BY <1>3, <2>2, <3>1, FlatIsHeld
    <3>3. Covered(k, 1)
      BY <3>2, LegsAdd, LegsAtMost DEF Covered
    <3>. QED BY <1>3, <2>3, <3>3
  <2>5. \A k \in Markets : Covered(k, 0)'
    BY <2>3 DEF LegsInv
  <2>6. Spare(pass'[p]) = Legs(trades[i].pair)
    BY <2>1 DEF Spare
  <2>7. SpareOK(pass[p])'
    BY <2>3, <2>4, <2>6 DEF SpareOK
  <2>8. RowInHandOK(pass'[p], trades') /\ CancelOK(pass'[p]) /\ AbortOK(pass[p])'
    BY <1>1, <2>1 DEF RowInHandOK, CancelOK, AbortOK
  <2>. QED BY <1>1, <2>1, <2>5, <2>7, <2>8, LegsStep
<1>5. CASE /\ Refused(m, CloseSide(trades[i], m), LegLots, TRUE, {m})
           /\ Local(p, [pass[p] EXCEPT !.rows = @ \ {i}])
  <2>1. pass'[p].pc = "exit" /\ Moves(p)
    BY <1>1, <1>5, DropFacts
  <2>2. \A k \in Markets : Covered(k, 0)'
    BY <1>1, <1>5, <2>1, NotSold DEF OpeningPcs, LegsInv
  <2>. QED BY <1>1, <2>1, <2>2, PlainStep
<1>. QED BY <1>2, <1>4, <1>5

\* One leg of the row in hand: its order is acknowledged or refused.
LEMMA CloseLegLegs ==
    ASSUME Safe, IInv, LegsInv, NEW p \in Procs, PassStep(p), Holds(p),
           pass[p].pc \in {"close1", "close2", "cancel1", "cancel2"},
           NEW pc \in {"close2", "judge", "cancel2", "cancelled"},
           NEW m \in Legs(pass[p].cur.pair), CloseLeg(p, m, pc)
    PROVE  /\ \A k \in Markets : Covered(k, 0)'
           /\ SpareOK(pass[p])' /\ RowInHandOK(pass'[p], trades') /\ AbortOK(pass[p])'
           /\ pass'[p].pc = pc /\ pass'[p].cur = pass[p].cur /\ Moves(p)
           /\ pass'[p].positions = pass[p].positions
           /\ pass[p].acked \cup pass[p].failed \cup {m}
                  \subseteq pass'[p].acked \cup pass'[p].failed
<1>1. /\ pass[p].pc \in ClosingPcs /\ pass[p].pc \notin OpeningPcs
      /\ pc \in ClosingPcs /\ pc \notin OpeningPcs /\ trades' = trades
  BY DEF ClosingPcs, OpeningPcs, CloseLeg, NoRowChange, dbVars
<1>2. /\ pass[p].cur.row \in OpenIn(trades) /\ m \in Markets
      /\ trades[pass[p].cur.row].pair = pass[p].cur.pair
  BY <1>1, RowInHand, TwoLegs DEF LegsInv, RowInHandOK
<1>3. PICK l : /\ Local(p, l) /\ l.pc = pc /\ l.cur = pass[p].cur
               /\ l.positions = pass[p].positions
               /\ \/ /\ Accepted(m, CloseSide(pass[p].cur, m), LegLots, TRUE)
                     /\ l.acked = pass[p].acked \cup {m} /\ l.failed = pass[p].failed
                  \/ /\ Refused(m, CloseSide(pass[p].cur, m), LegLots, TRUE, {})
                     /\ l.acked = pass[p].acked /\ l.failed = pass[p].failed \cup {m}
  <2>. DEFINE l1 == [pass[p] EXCEPT !.pc = pc, !.acked = @ \cup {m}]
              l2 == [pass[p] EXCEPT !.pc = pc, !.failed = @ \cup {m}]
  <2>1. /\ l1.pc = pc /\ l1.cur = pass[p].cur /\ l1.positions = pass[p].positions
        /\ l1.acked = pass[p].acked \cup {m} /\ l1.failed = pass[p].failed
    BY HolderFacts DEF Locals
  <2>2. /\ l2.pc = pc /\ l2.cur = pass[p].cur /\ l2.positions = pass[p].positions
        /\ l2.acked = pass[p].acked /\ l2.failed = pass[p].failed \cup {m}
    BY HolderFacts DEF Locals
  <2>3. \/ Accepted(m, CloseSide(pass[p].cur, m), LegLots, TRUE) /\ Local(p, l1)
        \/ Refused(m, CloseSide(pass[p].cur, m), LegLots, TRUE, {}) /\ Local(p, l2)
    BY DEF CloseLeg
  <2>. HIDE DEF l1, l2
  <2>. QED BY <2>1, <2>2, <2>3
<1>4. pass'[p] = l /\ Moves(p)
  BY <1>3, LocalFacts
<1>5. Claims(m) >= 1
  BY <1>2, <1>4, ClaimOfRow
<1>6. /\ \A k \in Markets : \A n \in Nat : Covered(k, n) => Covered(k, n)'
      /\ m \in l.acked => Covered(m, 1)' \/ m \in pass[p].acked
  BY <1>1, <1>2, <1>3, <1>4, <1>5, Sold, NotSold
<1>7. \A k \in pass[p].acked : k \in Markets => Covered(k, 1)
  BY DEF LegsInv, SpareOK, Spare
<1>8. Spare(pass'[p]) = l.acked
  BY <1>3, <1>4 DEF Spare
<1>9. SpareOK(pass[p])'
  BY <1>2, <1>3, <1>6, <1>7, <1>8 DEF SpareOK
<1>10. RowInHandOK(pass'[p], trades') /\ AbortOK(pass[p])'
  BY <1>1, <1>2, <1>3, <1>4 DEF RowInHandOK, AbortOK
<1>11. \A k \in Markets : Covered(k, 0)'
  BY <1>6 DEF LegsInv
<1>. QED BY <1>3, <1>4, <1>9, <1>10, <1>11

\* The two closing orders of an exit.
LEMMA CloseLegs ==
    ASSUME Safe, IInv, LegsInv, NEW p \in Procs, PassStep(p), ExitClose1(p) \/ ExitClose2(p)
    PROVE  LegsInv'
<1>1. /\ Holds(p) /\ pass[p].pc \in {"close1", "close2"}
      /\ \E m \in {Leg1(p), Leg2(p)}, pc \in {"close2", "judge"} : CloseLeg(p, m, pc)
  BY DEF ExitClose1, ExitClose2, At
<1>2. PICK m \in {Leg1(p), Leg2(p)}, pc \in {"close2", "judge"} : CloseLeg(p, m, pc)
  BY <1>1
<1>3. m \in Legs(pass[p].cur.pair)
  BY DEF Leg1, Leg2, Legs
<1>4. /\ \A k \in Markets : Covered(k, 0)'
      /\ SpareOK(pass[p])' /\ RowInHandOK(pass'[p], trades') /\ AbortOK(pass[p])'
      /\ pass'[p].pc = pc /\ Moves(p)
  BY <1>1, <1>2, <1>3, CloseLegLegs
<1>5. CancelOK(pass'[p])
  BY <1>4 DEF CancelOK
<1>. QED BY <1>1, <1>4, <1>5, LegsStep

\* A row is closed that a close of each leg was acknowledged for, or it is kept.
LEMMA ExitEndLegs ==
    ASSUME IInv, LegsInv, NEW p \in Procs, PassStep(p), ExitKeepOpen(p) \/ ExitPersist(p)
    PROVE  LegsInv'
<1>0. pass[p] \in Locals
  BY HolderFacts
<1>1. CASE ExitKeepOpen(p)
  <2>. DEFINE l == [pass[p] EXCEPT !.pc = "exit", !.cur = Nothing, !.acked = {}, !.failed = {}]
  <2>1. Holds(p) /\ pass[p].pc = "judge" /\ NoAccountChange /\ trades' = trades /\ Local(p, l)
    BY <1>1 DEF ExitKeepOpen, At, NoRowChange, dbVars
  <2>2. l.pc = "exit"
    BY <1>0 DEF Locals
  <2>. HIDE DEF l
  <2>3. pass'[p].pc = "exit" /\ Moves(p)
    BY <2>1, <2>2, LocalFacts
  <2>. QED BY <2>1, <2>3, PlainLegs DEF OpenClaim, OpeningPcs
<1>2. CASE ExitPersist(p)
  <2>. DEFINE l == [pass[p] EXCEPT !.pc = "exit", !.cur = Nothing, !.acked = {}]
  <2>1. /\ Holds(p) /\ pass[p].pc \in {"judge", "persist"} /\ NoAccountChange /\ Local(p, l)
        /\ pass[p].pc = "judge" => pass[p].acked = Legs(pass[p].cur.pair)
        /\ CloseRow(pass[p].cur.row, pass[p].cur.reason)
    BY <1>2 DEF ExitPersist, At, BothClosed
  <2>2. l.pc = "exit"
    BY <1>0 DEF Locals
  <2>. HIDE DEF l
  <2>3. pass'[p].pc = "exit" /\ Moves(p)
    BY <2>1, <2>2, LocalFacts
  <2>4. Spare(pass[p]) = Legs(pass[p].cur.pair)
    BY <2>1 DEF Spare
  <2>5. PICK i \in OpenIn(trades), reason \in Reasons :
            /\ i = pass[p].cur.row /\ reason = pass[p].cur.reason
            /\ trades[i].pair = pass[p].cur.pair
    BY <2>1, RowInHand DEF LegsInv, RowInHandOK, ClosingPcs
  <2>6. \A m \in Markets : m \in Legs(trades[i].pair) => Covered(m, 1)
    BY <2>4, <2>5 DEF LegsInv, SpareOK
  <2>7. \A m \in Markets : Covered(m, 0)'
    BY <2>1, <2>3, <2>5, <2>6, RowClosed DEF OpeningPcs
  <2>. QED BY <2>1, <2>3, <2>7, PlainStep
<1>. QED BY <1>1, <1>2

\* Every step of an exit pass.
LEMMA ExitLegs ==
    ASSUME Safe, IInv, FillsOK, LegsInv, NEW p \in Procs, ExitStep(p)
    PROVE  LegsInv'
<1>1. PassStep(p)
  BY DEF PassStep
<1>. QED BY <1>1, ExitScanLegs, ReconcileLegs, ApprovedExitLegs, OrphanLegs, CloseLegs,
            ExitEndLegs DEF ExitStep

\* A step of an abort.
LEMMA AbortLegsStep ==
    ASSUME IInv, LegsInv, NEW p \in Procs, Holds(p), Moves(p),
           \A m \in Markets : Covered(m, 0)', pass'[p].pc \in {"abort", "mark"},
           AbortOK(pass[p])'
    PROVE  LegsInv'
<1>1. Spare(pass'[p]) = {}
  BY DEF Spare
<1>2. SpareOK(pass[p])' /\ RowInHandOK(pass'[p], trades') /\ CancelOK(pass'[p])
  BY <1>1 DEF SpareOK, RowInHandOK, CancelOK, ClosingPcs
<1>. QED BY <1>2, LegsStep

\* An abort lists every position there is.
LEMMA AbortStartLegs ==
    ASSUME Safe, IInv, LegsInv, NEW p \in Procs, PassStep(p), AbortStart(p)
    PROVE  LegsInv'
<1>1. PICK positions \in PositionReports :
          Local(p, [pass[p] EXCEPT !.pc = "abort", !.positions = positions,
                                   !.markets = Live(positions)])
  BY DEF AbortStart
<1>. DEFINE l == [pass[p] EXCEPT !.pc = "abort", !.positions = positions,
                                 !.markets = Live(positions)]
<1>2. positions = net
  BY <1>1 DEF PositionReports, Safe
<1>3. /\ l.pc = "abort" /\ l.positions = net /\ l.markets = Live(net) /\ Local(p, l)
  BY <1>1, <1>2, HolderFacts DEF Locals
<1>. HIDE DEF l
<1>4. /\ pass'[p].pc = "abort" /\ pass'[p].positions = net /\ pass'[p].markets = Live(net)
      /\ Moves(p)
  BY <1>3, LocalFacts
<1>5. Holds(p) /\ pass[p].pc = "start" /\ trades' = trades
  BY DEF AbortStart, Begins, At, NoRowChange, dbVars
<1>6. net' = net /\ AlarmsKept({}) /\ \A m \in Markets : Held(m)' = Held(m)
  BY SettleFacts, NetType DEF AbortStart, OrdersCancelled, AccountType, Held
<1>7. \A m \in Markets : Held(m)' <= Held(m) /\ AlarmKept(m)
  BY <1>6, AlarmStays, NetType
<1>8. \A m \in Markets : Covered(m, 0)'
  BY <1>4, <1>5, <1>7, AllKept DEF OpenClaim, OpeningPcs, LegsInv
<1>9. AbortOK(pass[p])'
  <2>1. ASSUME NEW m \in Markets
        PROVE  IF m \in Live(net) THEN Held(m)' <= Size(net[m]) ELSE Held(m)' = 0
    <3>1. net[m] \in Int /\ shortfall[m] \in Nat
      BY NetType DEF AccountType
    <3>2. Held(m) <= Size(net[m])
      BY <3>1, BesideNat DEF Held
    <3>3. net[m] = 0 => Held(m) = 0
      BY FlatIsHeld
    <3>. QED BY <1>6, <3>2, <3>3 DEF Live
  <2>. QED BY <1>4, <2>1 DEF AbortOK
<1>. QED BY <1>4, <1>5, <1>8, <1>9, AbortLegsStep

\* A position is closed, or noted as one that could not be.
LEMMA AbortCloseLegs ==
    ASSUME Safe, IInv, LegsInv, NEW p \in Procs, PassStep(p), NEW m \in Markets,
           AbortClose(p, m)
    PROVE  LegsInv'
<1>. DEFINE n == pass[p].positions[m]
            side == IF n > 0 THEN "SELL" ELSE "BUY"
            rest == [pass[p] EXCEPT !.markets = @ \ {m}]
            more == [rest EXCEPT !.failed = @ \cup {m}]
<1>1. Holds(p) /\ pass[p].pc = "abort" /\ m \in pass[p].markets /\ trades' = trades
  BY DEF AbortClose, At, NoRowChange, dbVars
<1>2. /\ rest.pc = "abort" /\ rest.positions = pass[p].positions
      /\ rest.markets = pass[p].markets \ {m} /\ rest.failed = pass[p].failed
      /\ more.pc = "abort" /\ more.positions = pass[p].positions
      /\ more.markets = pass[p].markets \ {m} /\ more.failed = pass[p].failed \cup {m}
  BY <1>1, HolderFacts DEF Locals
<1>3. n \in Int /\ Size(n) \in Nat
  BY HolderFacts, SizeNat DEF Locals
<1>4. \/ Accepted(m, side, Size(n), TRUE) /\ Local(p, rest)
      \/ Refused(m, side, Size(n), TRUE, {}) /\ Local(p, more)
  BY DEF AbortClose
<1>5. Held(m) <= Size(n)
  BY <1>1 DEF LegsInv, AbortOK
<1>. HIDE DEF rest, more, side
<1>6. CASE Accepted(m, side, Size(n), TRUE) /\ Local(p, rest)
  <2>1. pass'[p] = rest /\ Moves(p)
    BY <1>6, LocalFacts
  <2>2. /\ AlarmsKept({}) /\ \A k \in Markets \ {m} : Held(k)' = Held(k)
        /\ Held(m)' = 0
    BY <1>3, <1>5, <1>6, ReduceFacts, NetType DEF Accepted, Safe
  <2>4. \A k \in Markets : Held(k)' <= Held(k) /\ AlarmKept(k)
    BY <2>2, AlarmStays, NetType
  <2>5. \A k \in Markets : Covered(k, 0)'
    BY <1>1, <1>2, <2>1, <2>4, AllKept DEF OpenClaim, OpeningPcs, LegsInv
  <2>6. AbortOK(pass[p])
    BY DEF LegsInv
  <2>7. AbortOK(pass[p])'
    BY <1>1, <1>2, <2>1, <2>2, <2>6 DEF AbortOK
  <2>. QED BY <1>1, <1>2, <2>1, <2>5, <2>7, AbortLegsStep
<1>7. CASE Refused(m, side, Size(n), TRUE, {}) /\ Local(p, more)
  <2>1. pass'[p] = more /\ Moves(p)
    BY <1>7, LocalFacts
  <2>2. \A k \in Markets : Held(k)' = Held(k)
    BY <1>7, RefusedFacts, NetType DEF Safe
  <2>3. \A k \in Markets : Covered(k, 0)'
    BY <1>1, <1>2, <1>7, <2>1, NotSold DEF OpeningPcs, LegsInv
  <2>4. AbortOK(pass[p])
    BY DEF LegsInv
  <2>5. AbortOK(pass[p])'
    BY <1>1, <1>2, <2>1, <2>2, <2>4 DEF AbortOK
  <2>. QED BY <1>1, <1>2, <2>1, <2>3, <2>5, AbortLegsStep
<1>. QED BY <1>4, <1>6, <1>7

\* What could not be closed is alarmed, and nothing else is left.
LEMMA AbortEscalateLegs ==
    ASSUME IInv, LegsInv, NEW p \in Procs, PassStep(p), AbortEscalate(p)
    PROVE  LegsInv'
<1>. DEFINE l == [pass[p] EXCEPT !.pc = "mark", !.rows = OpenRows]
<1>1. /\ Holds(p) /\ pass[p].pc = "abort" /\ pass[p].markets = {} /\ trades' = trades
      /\ Settle(net, inflight, pass[p].failed, shortfall) /\ Local(p, l)
  BY DEF AbortEscalate, At, NoRowChange, dbVars
<1>2. l.pc = "mark"
  BY HolderFacts DEF Locals
<1>. HIDE DEF l
<1>3. pass'[p].pc = "mark" /\ Moves(p)
  BY <1>1, <1>2, LocalFacts
<1>0. net' = net /\ AlarmsKept(pass[p].failed) /\ \A m \in Markets : Held(m)' = Held(m)
  BY <1>1, SettleFacts, NetType DEF AccountType, Held
<1>4. \A m \in Markets : Held(m)' <= Held(m) /\ AlarmKept(m)
  BY <1>0, AlarmStays, NetType
<1>5. \A m \in Markets : Covered(m, 0)'
  BY <1>1, <1>3, <1>4, AllKept DEF OpenClaim, OpeningPcs, LegsInv
<1>6. \A m \in Markets : Held(m) = 0 \/ m \in pass[p].failed
  BY <1>1 DEF LegsInv, AbortOK
<1>7. AbortOK(pass[p])'
  BY <1>0, <1>3, <1>6, AlarmStays, FlatHeld, NetType DEF AbortOK
<1>. QED BY <1>1, <1>3, <1>5, <1>7, AbortLegsStep

\* A row is marked when nothing is left of it, or what is left is alarmed.
LEMMA AbortMarkLegs ==
    ASSUME IInv, LegsInv, NEW p \in Procs, PassStep(p),
           NEW i \in DOMAIN trades, AbortMark(p, i)
    PROVE  LegsInv'
<1>1. /\ Holds(p) /\ pass[p].pc = "mark" /\ NoAccountChange /\ i \in pass[p].rows
      /\ CloseRow(i, "ABORTED") /\ Local(p, [pass[p] EXCEPT !.rows = @ \ {i}])
  BY DEF AbortMark, At
<1>2. i \in OpenIn(trades)
  BY <1>1, DropRow
<1>3. pass'[p].pc = "mark" /\ Moves(p)
  BY <1>1, DropFacts
<1>4. \A m \in Markets : Held(m) = 0 \/ m \in alarmed
  BY <1>1 DEF LegsInv, AbortOK
<1>5. \A m \in Markets : Covered(m, 0)'
  BY <1>1, <1>2, <1>3, <1>4, RowClosed DEF Reasons, OpeningPcs
<1>6. AbortOK(pass[p])'
  BY <1>1, <1>3, <1>4 DEF AbortOK, NoAccountChange, accountVars, Held
<1>. QED BY <1>1, <1>3, <1>5, <1>6, AbortLegsStep

\* Every step of an abort.
LEMMA AbortLegs ==
    ASSUME Safe, IInv, LegsInv, NEW p \in Procs, AbortStep(p)
    PROVE  LegsInv'
<1>1. PassStep(p)
  BY DEF PassStep
<1>2. CASE AbortDone(p)
  BY <1>1, <1>2, ReleaseLegs DEF AbortDone, At, NoRowChange, dbVars, OpeningPcs
<1>. QED BY <1>1, <1>2, AbortStartLegs, AbortCloseLegs, AbortEscalateLegs, AbortMarkLegs
         DEF AbortStep

\* A /cancel takes a row up.
LEMMA CancelStartLegs ==
    ASSUME IInv, LegsInv, NEW p \in Procs, PassStep(p), CancelStart(p)
    PROVE  LegsInv'
<1>1. PICK i \in OpenRows, positions \in PositionReports :
          Local(p, [pass[p] EXCEPT !.pc = "cancel1", !.positions = positions,
                       !.cur = [pair |-> trades[i].pair, side |-> trades[i].side,
                                row |-> i, reason |-> "CANCELLED"]])
  BY DEF CancelStart
<1>. DEFINE cur == [pair |-> trades[i].pair, side |-> trades[i].side,
                    row |-> i, reason |-> "CANCELLED"]
            l == [pass[p] EXCEPT !.pc = "cancel1", !.positions = positions, !.cur = cur]
<1>2. cur.row = i /\ cur.pair = trades[i].pair /\ Local(p, l)
  BY <1>1
<1>. HIDE DEF cur
<1>3. l.pc = "cancel1" /\ l.acked = pass[p].acked /\ l.cur = cur
  BY HolderFacts DEF Locals
<1>. HIDE DEF l
<1>4. /\ Holds(p) /\ pass[p].pc = "start" /\ NoAccountChange /\ trades' = trades
  BY DEF CancelStart, Begins, At, NoRowChange, dbVars
<1>5. pass[p].acked = {}
  BY <1>4 DEF LegsInv, RowInHandOK
<1>6. /\ pass'[p].pc = "cancel1" /\ pass'[p].acked = {} /\ Moves(p)
      /\ pass'[p].cur.row = i /\ pass'[p].cur.pair = trades[i].pair
  BY <1>2, <1>3, <1>5, LocalFacts
<1>7. \A m \in Markets : Covered(m, 0)'
  BY <1>4, <1>6, QuietKept DEF OpenClaim, OpeningPcs, LegsInv
<1>8. Spare(pass'[p]) = {}
  BY <1>6 DEF Spare
<1>9. SpareOK(pass[p])'
  BY <1>8 DEF SpareOK
<1>10. RowInHandOK(pass'[p], trades') /\ CancelOK(pass'[p]) /\ AbortOK(pass[p])'
  BY <1>4, <1>6 DEF RowInHandOK, CancelOK, AbortOK
<1>. QED BY <1>4, <1>6, <1>7, <1>9, <1>10, LegsStep

\* One leg of a /cancel: closed, refused, or not there.
LEMMA CancelLegLegs ==
    ASSUME Safe, IInv, LegsInv, NEW p \in Procs, PassStep(p), CancelLeg1(p) \/ CancelLeg2(p)
    PROVE  LegsInv'
<1>1. PICK m \in {Leg1(p), Leg2(p)}, pc \in {"cancel2", "cancelled"} :
          /\ Holds(p) /\ CancelLeg(p, m, pc)
          /\ \/ pass[p].pc = "cancel1" /\ m = Leg1(p) /\ pc = "cancel2"
             \/ pass[p].pc = "cancel2" /\ m = Leg2(p) /\ pc = "cancelled"
  BY DEF CancelLeg1, CancelLeg2, At
<1>2. /\ pass[p].pc \in ClosingPcs /\ pass[p].pc \notin OpeningPcs
      /\ pc \in ClosingPcs /\ pc \notin OpeningPcs
  BY <1>1 DEF ClosingPcs, OpeningPcs
<1>3. m \in Markets /\ m \in Legs(pass[p].cur.pair)
  BY <1>1, <1>2, TwoLegs
<1>4. /\ \A k \in Markets : Covered(k, 0)'
      /\ SpareOK(pass[p])' /\ RowInHandOK(pass'[p], trades') /\ AbortOK(pass[p])'
      /\ pass'[p].pc = pc /\ pass'[p].cur = pass[p].cur /\ Moves(p)
      /\ pass'[p].positions = pass[p].positions
      /\ pass[p].acked \cup pass[p].failed \subseteq pass'[p].acked \cup pass'[p].failed
      /\ Settled(pass'[p], m)
  <2>1. CASE CloseLeg(p, m, pc)
    BY <1>1, <1>3, <2>1, CloseLegLegs DEF Settled
  <2>2. CASE m \notin Live(pass[p].positions) /\ Goto(p, pc) /\ NoAccountChange /\ NoRowChange
    <3>1. /\ pass'[p].pc = pc /\ pass'[p].cur = pass[p].cur
          /\ pass'[p].acked = pass[p].acked /\ pass'[p].failed = pass[p].failed
          /\ pass'[p].positions = pass[p].positions /\ Moves(p)
      BY <2>2, GotoFacts
    <3>2. trades' = trades
      BY <2>2 DEF NoRowChange, dbVars
    <3>3. \A k \in Markets : \A n \in Nat : Covered(k, n) => Covered(k, n)'
      BY <1>1, <1>2, <2>2, <3>1, <3>2, QuietKept DEF OpenClaim
    <3>4. Spare(pass[p]) = pass[p].acked /\ Spare(pass'[p]) = pass[p].acked
      BY <1>1, <3>1 DEF Spare
    <3>5. \A k \in Markets : k \in Spare(pass[p]) => Covered(k, 1)
      BY DEF LegsInv, SpareOK
    <3>6. SpareOK(pass[p])'
      BY <3>3, <3>4, <3>5 DEF SpareOK
    <3>7. trades[pass[p].cur.row].pair = pass[p].cur.pair
      BY <1>2 DEF LegsInv, RowInHandOK
    <3>8. RowInHandOK(pass'[p], trades') /\ AbortOK(pass[p])'
      BY <1>1, <3>1, <3>2, <3>7 DEF RowInHandOK, AbortOK
    <3>9. Settled(pass'[p], m)
      BY <1>3, <2>2, <3>1 DEF Settled, Live
    <3>10. \A k \in Markets : Covered(k, 0)'
      BY <3>3 DEF LegsInv
    <3>. QED BY <3>1, <3>6, <3>8, <3>9, <3>10
  <2>. QED BY <1>1, <2>1, <2>2 DEF CancelLeg
<1>5. CancelOK(pass[p])
  BY DEF LegsInv
<1>6. CancelOK(pass'[p])
  BY <1>1, <1>4, <1>5 DEF CancelOK, Settled, Leg1, Leg2
<1>. QED BY <1>1, <1>4, <1>6, LegsStep

\* A row is cancelled when each leg was closed or was not there.
LEMMA CancelEndLegs ==
    ASSUME IInv, FillsOK, LegsInv, NEW p \in Procs, PassStep(p),
           CancelEscalate(p) \/ CancelPersist(p)
    PROVE  LegsInv'
<1>1. Holds(p) /\ pass[p].pc = "cancelled" /\ Release(p)
  BY DEF CancelEscalate, CancelPersist, At
<1>2. pass'[p].pc = "idle" /\ Moves(p)
  BY <1>1, ReleaseFacts
<1>3. CASE CancelEscalate(p)
  <2>0. Settle(net, inflight, pass[p].failed, shortfall) /\ trades' = trades
    BY <1>3 DEF CancelEscalate, NoRowChange, dbVars
  <2>1. trades' = trades /\ AlarmsKept(pass[p].failed) /\ \A m \in Markets : Held(m)' = Held(m)
    BY <2>0, SettleFacts, NetType DEF AccountType, Held
  <2>2. \A m \in Markets : Held(m)' <= Held(m) /\ AlarmKept(m)
    BY <2>1, AlarmStays, NetType
  <2>3. \A m \in Markets : Covered(m, 0)'
    BY <1>1, <1>2, <2>1, <2>2, AllKept DEF OpenClaim, OpeningPcs, LegsInv
  <2>. QED BY <1>1, <1>2, <2>3, PlainStep
<1>4. CASE CancelPersist(p)
  <2>1. /\ NoAccountChange /\ pass[p].failed = {}
        /\ CloseRow(pass[p].cur.row, pass[p].cur.reason)
    BY <1>4 DEF CancelPersist
  <2>2. PICK i \in OpenIn(trades), reason \in Reasons :
            /\ i = pass[p].cur.row /\ reason = pass[p].cur.reason
            /\ trades[i].pair = pass[p].cur.pair
    BY <1>1, RowInHand DEF LegsInv, RowInHandOK, ClosingPcs
  <2>3. Legs(trades[i].pair) = {Leg1(p), Leg2(p)}
    BY <1>1, <2>2, TwoLegs DEF ClosingPcs
  <2>4. ASSUME NEW m \in Markets, m \in Legs(trades[i].pair)
        PROVE  Held(m) = 0 \/ Covered(m, 1)
    <3>1. Settled(pass[p], m)
      BY <1>1, <2>3, <2>4 DEF LegsInv, CancelOK, Leg1, Leg2
    <3>2. CASE m \in pass[p].acked
      BY <1>1, <3>2 DEF LegsInv, SpareOK, Spare
    <3>3. CASE pass[p].positions[m] = 0
      BY <1>1, <3>3, FlatIsHeld DEF FillsOK, ViewOK, ViewingPcs, ClosingPcs
    <3>. QED BY <2>1, <3>1, <3>2, <3>3 DEF Settled
  <2>5. \A m \in Markets : Covered(m, 0)'
    BY <1>1, <1>2, <2>1, <2>2, <2>4, RowClosed DEF OpeningPcs
  <2>. QED BY <1>1, <1>2, <2>5, PlainStep
<1>. QED BY <1>3, <1>4

\* Every step of a /cancel.
LEMMA CancelLegs ==
    ASSUME Safe, IInv, FillsOK, LegsInv, NEW p \in Procs, CancelStep(p)
    PROVE  LegsInv'
<1>1. PassStep(p)
  BY DEF PassStep
<1>2. CASE CancelMiss(p)
  BY <1>1, <1>2, ReleaseLegs DEF CancelMiss, Begins, At, NoRowChange, dbVars, OpeningPcs
<1>. QED BY <1>1, <1>2, CancelStartLegs, CancelLegLegs, CancelEndLegs DEF CancelStep

-----------------------------------------------------------------------------
(***************************************************************************)
(* Steps outside the passes.                                               *)
(***************************************************************************)

\* The claims on a market are a number, whoever moves.
LEMMA ClaimsNat ==
    ASSUME IInv, NEW m
    PROVE  Claims(m) \in Nat
<1>. DEFINE S == {q \in Procs : pass[q].pc \in OpeningPcs /\ m \in Legs(pass[q].cur.pair)}
<1>1. Claims(m) = RowClaims(trades, m) + Cardinality(S)
  BY DEF Claims, RowClaims, OpenRows, OpenIn, Opening, OpeningPcs
<1>2. RowClaims(trades, m) \in Nat
  BY RowClaimsNat, RowFacts
<1>3. Cardinality(S) \in Nat
  <2>1. ASSUME NEW p \in Procs, pass[p].pc \in OpeningPcs PROVE Cardinality(S) \in Nat
    <3>1. Holds(p)
      BY <2>1 DEF IInv, HandlersOK, LockOK, OpeningPcs, PassPcs
    <3>2. \A q \in Procs \ {p} : pass[q].pc \notin OpeningPcs
      BY <3>1, OthersOut DEF OpeningPcs, PassPcs
    <3>3. Cardinality(S) = OpenClaim(pass[p], m)
      BY <3>2, OneOpens
    <3>. QED BY <3>3 DEF OpenClaim
  <2>2. CASE \A p \in Procs : pass[p].pc \notin OpeningPcs
    <3>1. S = {}
      BY <2>2
    <3>. QED BY <3>1, FS_EmptySet
  <2>. QED BY <2>1, <2>2
<1>. HIDE DEF S
<1>. QED BY <1>1, <1>2, <1>3

\* Who is not opening anything may come and go.
LEMMA BystanderClaims ==
    ASSUME trades' = trades, NEW m,
           \A q \in Procs : \/ pass'[q] = pass[q]
                            \/ pass[q].pc \notin OpeningPcs /\ pass'[q].pc \notin OpeningPcs
    PROVE  Claims(m)' = Claims(m)
<1>. DEFINE S == {q \in Procs : pass[q].pc \in OpeningPcs /\ m \in Legs(pass[q].cur.pair)}
            T == {q \in Procs : pass'[q].pc \in OpeningPcs /\ m \in Legs(pass'[q].cur.pair)}
<1>1. Claims(m) = RowClaims(trades, m) + Cardinality(S)
  BY DEF Claims, RowClaims, OpenRows, OpenIn, Opening, OpeningPcs
<1>2. Claims(m)' = RowClaims(trades', m) + Cardinality(T)
  BY DEF Claims, RowClaims, OpenRows, OpenIn, Opening, OpeningPcs
<1>3. S = T
  OBVIOUS
<1>. HIDE DEF S, T
<1>. QED BY <1>1, <1>2, <1>3

\* What is held beside the shortfall is a number of lots.
LEMMA HeldNat ==
    ASSUME IInv, IInv'
    PROVE  \A m \in Markets : Held(m) \in Nat /\ Held(m)' \in Nat
BY BesideNat DEF Held, IInv, StoresOK, AccountType

\* Nothing is exposed more than before: what was covered stays so.
LEMMA BystanderKept ==
    ASSUME IInv, IInv', trades' = trades,
           \A q \in Procs : \/ pass'[q] = pass[q]
                            \/ pass[q].pc \notin OpeningPcs /\ pass'[q].pc \notin OpeningPcs,
           \A m \in Markets : Held(m)' <= Held(m) /\ AlarmKept(m)
    PROVE  \A m \in Markets : \A n \in Nat : Covered(m, n) => Covered(m, n)'
<1>1. ASSUME NEW m \in Markets, NEW n \in Nat, Covered(m, n) PROVE Covered(m, n)'
  <2>1. Claims(m) \in Nat /\ Claims(m)' = Claims(m)
    BY ClaimsNat, BystanderClaims
  <2>2. AccountType' /\ Held(m) \in Nat /\ Held(m)' \in Nat
    BY HeldNat DEF IInv, StoresOK
  <2>. QED BY <1>1, <2>1, <2>2, CoverKept
<1>. QED BY <1>1

\* A request joins the queue.
LEMMA RequestLegs ==
    ASSUME IInv, LegsInv, NEW p \in Procs, Request(p)
    PROVE  LegsInv'
<1>1. PICK kind \in Kinds, target \in Pairs :
          pass' = [pass EXCEPT ![p] =
                      [Idle EXCEPT !.kind = kind, !.pc = "start",
                                   !.target = IF kind = "cancel" THEN target ELSE NoPair]]
  BY DEF Request
<1>2. pass'[p].pc = "start" /\ pass'[p].acked = {} /\ Moves(p) /\ pass[p].pc = "idle"
  BY <1>1 DEF Idle, Moves, IInv, HandlersOK, Request
<1>3. trades' = trades /\ NoAccountChange /\ IInv'
  BY RequestInv DEF Request, NoRowChange, dbVars
<1>4. \A m \in Markets : Held(m)' <= Held(m) /\ AlarmKept(m)
  BY <1>3, HolderFacts, AccountKept
<1>5. \A m \in Markets : \A n \in Nat : Covered(m, n) => Covered(m, n)'
  BY <1>2, <1>3, <1>4, BystanderKept DEF Moves, OpeningPcs
<1>6. \A m \in Markets : Covered(m, 0)'
  BY <1>5 DEF LegsInv
<1>7. ASSUME NEW q \in Procs
      PROVE  /\ SpareOK(pass[q])' /\ RowInHandOK(pass'[q], trades')
             /\ CancelOK(pass'[q]) /\ AbortOK(pass[q])'
  <2>1. CASE q = p
    <3>1. Spare(pass'[q]) = {}
      BY <1>2, <2>1 DEF Spare
    <3>. QED BY <1>2, <2>1, <3>1 DEF SpareOK, RowInHandOK, CancelOK, AbortOK, ClosingPcs
  <2>2. CASE q # p
    <3>1. pass'[q] = pass[q]
      BY <1>2, <2>2 DEF Moves
    <3>2. /\ SpareOK(pass[q]) /\ RowInHandOK(pass[q], trades)
          /\ CancelOK(pass[q]) /\ AbortOK(pass[q])
      BY DEF LegsInv
    <3>3. SpareOK(pass[q])'
      BY <1>5, <3>1, <3>2 DEF SpareOK
    <3>. QED BY <1>3, <3>1, <3>2, <3>3 DEF AbortOK, NoAccountChange, accountVars, Held
  <2>. QED BY <2>1, <2>2
<1>. QED BY <1>6, <1>7 DEF LegsInv

\* Neither rows nor handlers move, and no more is held than before.
LEMMA BystanderLegs ==
    ASSUME IInv, IInv', LegsInv, trades' = trades, pass' = pass,
           \A m \in Markets : Held(m)' <= Held(m) /\ AlarmKept(m)
    PROVE  LegsInv'
<1>1. \A m \in Markets : Held(m) \in Nat /\ Held(m)' \in Nat
  BY HeldNat
<1>2. \A m \in Markets : \A n \in Nat : Covered(m, n) => Covered(m, n)'
  BY BystanderKept
<1>3. \A m \in Markets : Covered(m, 0)'
  BY <1>2 DEF LegsInv
<1>4. ASSUME NEW q \in Procs
      PROVE  /\ SpareOK(pass[q])' /\ RowInHandOK(pass'[q], trades')
             /\ CancelOK(pass'[q]) /\ AbortOK(pass[q])'
  <2>1. /\ SpareOK(pass[q]) /\ RowInHandOK(pass[q], trades)
        /\ CancelOK(pass[q]) /\ AbortOK(pass[q]) /\ pass[q] \in Locals
    BY HolderFacts DEF LegsInv
  <2>2. SpareOK(pass[q])'
    BY <1>2, <2>1 DEF SpareOK
  <2>3. \A m \in Markets : Size(pass[q].positions[m]) \in Nat
    BY <2>1, SizeNat DEF Locals
  <2>4. AbortOK(pass[q])'
    <3>1. ASSUME pass[q].pc = "abort", NEW m \in Markets
          PROVE  IF m \in pass[q].markets THEN Held(m)' <= Size(pass[q].positions[m])
                 ELSE Held(m)' = 0 \/ m \in pass[q].failed
      BY <1>1, <2>1, <2>3, <3>1 DEF AbortOK
    <3>2. ASSUME pass[q].pc = "mark", NEW m \in Markets
          PROVE  Held(m)' = 0 \/ m \in alarmed'
      <4>1. net'[m] = 0 => Held(m)' = 0
        BY FlatHeld DEF IInv, StoresOK
      <4>. QED BY <1>1, <2>1, <3>2, <4>1 DEF AbortOK, AlarmKept
    <3>. QED BY <3>1, <3>2 DEF AbortOK
  <2>. QED BY <2>1, <2>2, <2>4
<1>. QED BY <1>3, <1>4 DEF LegsInv

\* With nothing in flight, the exchange only closes a position from outside.
LEMMA ExchangeLegs ==
    ASSUME IInv, FillsOK, LegsInv, ExchangeStep
    PROVE  LegsInv'
<1>1. PICK m \in Markets : ClosedOutside(m)
  BY DEF ExchangeStep, OrderEnds, FillsOK
<1>2. net \in [Markets -> Int] /\ trades' = trades /\ pass' = pass /\ IInv'
  BY ExchangeInv DEF IInv, StoresOK, AccountType, ExchangeStep, dbVars
<1>. DEFINE positions == [net EXCEPT ![m] = 0]
<1>3. Settle(positions, inflight, {}, shortfall) /\ positions \in [Markets -> Int]
      /\ shortfall \in [Markets -> Nat]
  BY <1>1 DEF ClosedOutside, IInv, StoresOK, AccountType
<1>4. \A k \in Markets : Held(k)' <= Held(k) /\ AlarmKept(k)
  <2>1. \A k \in Markets : positions[k] = net[k] \/ positions[k] = 0
    BY <1>2
  <2>. HIDE DEF positions
  <2>2. AlarmsKept({}) /\ \A k \in Markets : Held(k)' = Beside(positions[k], shortfall[k])
    BY <1>3, SettleFacts
  <2>3. ASSUME NEW k \in Markets PROVE Held(k)' <= Held(k)
    <3>1. Held(k) \in Nat /\ Beside(0, shortfall[k]) = 0
      BY <1>2, <1>3, HeldNat DEF Beside, Size
    <3>. QED BY <2>1, <2>2, <2>3, <3>1 DEF Held
  <2>. QED BY <2>2, <2>3, AlarmStays
<1>. QED BY <1>2, <1>4, BystanderLegs

\* Every step preserves LegsInv: with these faults there is no restart, no
\* database error and no failed connection.
LEMMA NextLegs ==
    ASSUME Safe, IInv, FillsOK, LegsInv, [Next]_vars
    PROVE  LegsInv'
<1>1. ASSUME NEW p \in Procs, PassStep(p) \/ DbError(p) PROVE LegsInv'
  <2>1. ~ ConnectFails(p) /\ ~ DbError(p)
    BY DEF Safe, ConnectFails, DbError
  <2>. QED BY <1>1, <2>1, EntryLegs, ExitLegs, AbortLegs, CancelLegs DEF PassStep
<1>2. CASE SessionStep \/ UNCHANGED vars
  <2>1. UNCHANGED <<accountVars, trades, pass>>
    BY <1>2 DEF SessionStep, StartSession, CreateSession, StopSession, SessionVars, vars
  <2>2. IInv'
    BY NextInv
  <2>3. \A m \in Markets : Held(m)' <= Held(m) /\ AlarmKept(m)
    BY <2>1, <2>2, HeldNat DEF accountVars, AlarmKept, Held
  <2>. QED BY <2>1, <2>2, <2>3, BystanderLegs
<1>3. ~ Crash
  BY DEF Safe, Crash
<1>. QED BY <1>1, <1>2, <1>3, RequestLegs, ExchangeLegs DEF Next

\* In the beginning nobody holds or claims anything.
LEMMA InitLegs == ASSUME Init PROVE LegsInv
<1>1. IInv /\ net = Flat /\ pass = [p \in Procs |-> Idle]
  BY InitInv DEF Init, AccountInit
<1>2. ASSUME NEW m \in Markets PROVE Covered(m, 0)
  <2>1. Held(m) = 0 /\ Claims(m) \in Nat
    BY <1>1, ClaimsNat, FlatIsHeld DEF Flat
  <2>. QED BY <2>1, LegsAdd DEF Covered
<1>3. ASSUME NEW p \in Procs
      PROVE  /\ SpareOK(pass[p]) /\ RowInHandOK(pass[p], trades)
             /\ CancelOK(pass[p]) /\ AbortOK(pass[p])
  <2>1. pass[p].pc = "idle"
    BY <1>1, IdleOK
  <2>2. Spare(pass[p]) = {}
    BY <2>1 DEF Spare
  <2>. QED BY <2>1, <2>2 DEF SpareOK, RowInHandOK, CancelOK, AbortOK, ClosingPcs
<1>. QED BY <1>2, <1>3 DEF LegsInv

\* What is held beside the claims is within the shortfalls, or alarmed.
LEMMA LegsFollow ==
    ASSUME IInv, LegsInv, NEW m \in Markets
    PROVE  Size(net[m]) <= LegLots * Claims(m) + shortfall[m] \/ m \in alarmed
<1>1. /\ Covered(m, 0) /\ Size(net[m]) \in Nat /\ shortfall[m] \in Nat
      /\ Claims(m) \in Nat
  BY SizeNat, ClaimsNat DEF LegsInv, IInv, StoresOK, AccountType
<1>2. LegLots * 0 = 0 /\ LegLots * Claims(m) \in Nat
  BY <1>1, LegsAdd
<1>3. Held(m) \in Nat /\ Size(net[m]) <= Held(m) + shortfall[m]
  BY <1>1 DEF Held, Beside
<1>. QED BY <1>1, <1>2, <1>3 DEF Covered

\* With a client that answers with the fill, as Hyperliquid's does, and an
\* environment that loses no reply, fails no read, does not restart and whose
\* database answers, the account never holds more lots of a market than OPEN
\* rows and the entry under way account for, but for what closes that were
\* filled in part and taken for done left behind; or a CODE RED about it
\* stands. Whatever orders are refused or filled in part, whatever is closed
\* from outside, and however entries, exits, aborts and cancels alternate.
THEOREM NothingElseLeaks ==
    ASSUME Safe
    PROVE  Spec => []OnlyShortfallsLeak
<1>1. Prompt
  BY DEF Safe, Prompt
<1>2. IInv /\ FillsOK /\ LegsInv /\ [Next]_vars => LegsInv'
  BY NextLegs
<1>3. Init => LegsInv
  BY InitLegs
<1>4. IInv /\ LegsInv => OnlyShortfallsLeak
  BY LegsFollow DEF OnlyShortfallsLeak
<1>. QED BY <1>1, <1>2, <1>3, <1>4, PromptFills, Invariance, PTL DEF Spec

=============================================================================
