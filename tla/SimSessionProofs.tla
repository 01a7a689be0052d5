-------------------------- MODULE SimSessionProofs --------------------------
(***************************************************************************)
(* Proofs about SimSession, for any number of handlers, pairs, rows and    *)
(* hours, any capital and any P&L. The first invariant is about the lock   *)
(* and the rows and holds whatever fails; money, trades and hours are then *)
(* accounted for one by one on top of it, as long as nothing failed.       *)
(***************************************************************************)
EXTENDS SimSession, TLAPS, SequenceTheorems, FiniteSetTheorems, NaturalsInduction

Working == {"fund", "exits", "close", "entries", "stopping"}

(***************************************************************************)
(* What is said of one handler's locals l. A handler outside a pass (idle, *)
(* or waiting for the lock) satisfies it whatever the rows are.            *)
(***************************************************************************)
KindOK(l) ==
    /\ l.pc \in {"fund", "entries"} => l.kind = "tick"
    /\ l.pc \in {"exits", "close"} => l.kind \in {"tick", "stop"}
    /\ l.pc = "stopping" => l.kind = "stop"

\* A tick runs in a RUNNING session, a stop closes in one that is not yet
\* STOPPED: no status change comes between.
StatusOK(l) ==
    /\ l.pc \in Working /\ l.kind = "tick" => status = "RUNNING"
    /\ l.pc \in {"exits", "close"} => status # "STOPPED"
    /\ l.pc = "stopping" => OpenRows = {}

\* Rows to visit are open; an open row is still to visit or held, and at the
\* entries its pair is one of the open pairs the tick knows.
RowsOK(l) ==
    /\ l.pc \in {"fund", "exits", "close"} => l.todo \subseteq OpenRows
    /\ l.pc \in {"exits", "close"} => OpenRows \subseteq l.todo \cup l.held
    /\ l.kind = "stop" => l.held = {}
    /\ l.pc = "close" => l.closing \in l.todo
    /\ l.pc # "close" => l.closing = 0
    /\ l.held \subseteq DOMAIN positions
    /\ IsFiniteSet(l.fresh)
    /\ l.pc = "entries" =>
          \A i \in OpenRows : positions[i].pair \in
              {positions[j].pair : j \in l.held} \cup l.fresh

\* The hour of a tick is not before the last one: no negative hours are due.
\* Nor is the hour of a stop before the last stop.
TimeOK(l) ==
    l.pc \in Working =>
        /\ l.now <= clock
        /\ l.kind = "tick" => lastTick <= l.now
        /\ l.kind = "stop" => stoppedAt <= l.now

HandlerOK(h) ==
    /\ KindOK(pass[h])
    /\ StatusOK(pass[h])
    /\ TimeOK(pass[h])
    /\ RowsOK(pass[h])
    /\ pass[h].pc \in Working => Holds(h)

IInv ==
    /\ TypeOK
    /\ \A h \in Handlers : HandlerOK(h)
    /\ WithinLimits
    /\ lastTick <= clock /\ stoppedAt <= clock
    /\ status = "STOPPED" => OpenRows = {}

(***************************************************************************)
(* The accounts, one by one.                                               *)
(***************************************************************************)
\* A row has the trade of its close, already while its pass closes it.
BeingClosed(i) == \E h \in Handlers : pass[h].pc = "close" /\ pass[h].closing = i

TradesOK ==
    downs = 0 =>
        \A i \in DOMAIN positions :
            positions[i].trades =
                IF positions[i].status = "CLOSED" \/ BeingClosed(i) THEN 1 ELSE 0

\* Funding is charged up to some hour and no further, on a row opened by then.
ChargedTo(i, hour) ==
    /\ positions[i].opened <= hour
    /\ positions[i].funded <= hour - positions[i].opened

Ticking(h) == pass[h].pc \in Working /\ pass[h].kind = "tick"

\* Between ticks that hour is last_tick_at; in a tick it is its own `now', and
\* still last_tick_at for the rows to charge.
HoursOK ==
    downs = 0 =>
        /\ (\A h \in Handlers : ~ Ticking(h)) =>
              \A i \in DOMAIN positions : ChargedTo(i, lastTick)
        /\ \A h \in Handlers : Ticking(h) =>
              /\ \A i \in DOMAIN positions : ChargedTo(i, pass[h].now)
              /\ pass[h].pc = "fund" =>
                    \A i \in pass[h].todo : ChargedTo(i, lastTick)


-----------------------------------------------------------------------------
(***************************************************************************)
(* Lemmas about the model's operators.                                     *)
(***************************************************************************)

\* The oldest of some rows is one of them.
LEMMA OldestIn ==
    ASSUME NEW rows \in SUBSET Nat, rows # {}
    PROVE  /\ Oldest(rows) \in rows
           /\ \A j \in rows : Oldest(rows) <= j
<1>. DEFINE Less == {ss \in Nat \X Nat : ss[1] < ss[2]}
<1>1. IsWellFoundedOn(Less, Nat)
  BY NatLessThanWellFounded DEF OpToRel
<1>2. PICK i \in rows : \A j \in rows : ~ (<<j, i>> \in Less)
  <2>. HIDE DEF Less
  <2>. QED BY <1>1, WFMin
<1>3. ASSUME NEW j \in Nat, j < i PROVE <<j, i>> \in Less
  <2>1. <<j, i>> \in Nat \X Nat /\ <<j, i>>[1] = j /\ <<j, i>>[2] = i
    OBVIOUS
  <2>. QED BY <1>3, <2>1
<1>4. ASSUME NEW j \in rows PROVE i <= j
  <2>1. i \in Nat /\ j \in Nat
    OBVIOUS
  <2>2. ~ (j < i)
    <3>. HIDE DEF Less
    <3>. QED BY <1>2, <1>3, <2>1
  <2>. QED BY <2>1, <2>2
<1>. QED BY <1>4 DEF Oldest

\* The waiters stay known when one joins and when the holder leaves.
LEMMA LockType ==
    ASSUME lock \in Seq(Handlers)
    PROVE  /\ lock # <<>> => Tail(lock) \in Seq(Handlers)
           /\ \A h \in Handlers : Append(lock, h) \in Seq(Handlers)
BY HeadTailProperties, AppendProperties

\* A newcomer does not take the lock from its holder.
LEMMA StillHolds ==
    ASSUME lock \in Seq(Handlers), NEW h \in Handlers, lock' = Append(lock, h)
    PROVE  \A q : Holds(q) => Holds(q)'
<1>1. lock # <<>> => lock' # <<>> /\ Head(lock') = Head(lock)
  BY AppendProperties, HeadTailAppend
<1>. QED BY <1>1 DEF Holds

\* Rows that keep their pairs and statuses keep every limit.
LEMMA QuietRows ==
    ASSUME DOMAIN positions' = DOMAIN positions,
           \A i \in DOMAIN positions : /\ positions'[i].pair = positions[i].pair
                                       /\ positions'[i].status = positions[i].status
    PROVE  /\ OpenRows' = OpenRows
           /\ WithinLimits => WithinLimits'
<1>1. OpenRows' = OpenRows
  BY DEF OpenRows
<1>2. \A i \in OpenRows : i \in DOMAIN positions
  BY DEF OpenRows
<1>. QED BY <1>1, <1>2 DEF WithinLimits

\* One row that changes leaves a sequence of rows.
LEMMA RowType ==
    ASSUME positions \in Seq(Positions), NEW i \in DOMAIN positions,
           NEW row \in Positions, positions' = [positions EXCEPT ![i] = row]
    PROVE  /\ positions' \in Seq(Positions)
           /\ DOMAIN positions' = DOMAIN positions
           /\ positions'[i] = row
           /\ \A j \in DOMAIN positions : j # i => positions'[j] = positions[j]
BY ExceptSeq, LenProperties

\* A row is a row of the table.
LEMMA RowIn ==
    ASSUME TypeOK
    PROVE  /\ \A i \in DOMAIN positions : positions[i] \in Positions /\ i \in Nat \ {0}
           /\ DOMAIN positions = 1 .. Len(positions) /\ Len(positions) \in Nat
           /\ IsFiniteSet(DOMAIN positions)
           /\ OpenRows \subseteq DOMAIN positions
<1>1. /\ DOMAIN positions = 1 .. Len(positions) /\ Len(positions) \in Nat
      /\ \A i \in DOMAIN positions : positions[i] \in Positions
  BY LenProperties, ElementOfSeq DEF TypeOK
<1>2. IsFiniteSet(1 .. Len(positions))
  BY <1>1, FS_Interval, 1 \in Int
<1>. QED BY <1>1, <1>2 DEF OpenRows

-----------------------------------------------------------------------------
(***************************************************************************)
(* Steps of the lock's holder.                                             *)
(***************************************************************************)

\* The holder is the only handler inside a pass.
LEMMA Alone ==
    ASSUME IInv, NEW h \in Handlers, Holds(h), NEW q \in Handlers, q # h
    PROVE  pass[q].pc \notin Working
BY DEF IInv, HandlerOK, Holds

\* A step of the holder is looked at for the holder only.
LEMMA TurnInv ==
    ASSUME IInv, NEW h \in Handlers, Holds(h),
           \A q \in Handlers \ {h} : pass'[q] = pass[q],
           DOMAIN positions \subseteq DOMAIN positions',
           TypeOK', HandlerOK(h)', WithinLimits', lastTick' <= clock',
           stoppedAt' <= clock',
           status' = "STOPPED" => OpenRows' = {}
    PROVE  IInv'
<1>1. ASSUME NEW q \in Handlers, q # h PROVE HandlerOK(q)'
  <2>1. pass[q].pc \notin Working /\ pass'[q] = pass[q]
    BY <1>1, Alone
  <2>2. KindOK(pass[q]) /\ RowsOK(pass[q])
    BY DEF IInv, HandlerOK
  <2>. QED BY <2>1, <2>2 DEF HandlerOK, KindOK, StatusOK, TimeOK, RowsOK, Working
<1>. QED BY <1>1 DEF IInv

\* A handler that is done has nothing left to say.
LEMMA Released ==
    ASSUME IInv, NEW h \in Handlers, Holds(h), Release(h)
    PROVE  /\ lock' \in Seq(Handlers)
           /\ pass' \in [Handlers -> Locals]
           /\ pass'[h] = Idle
           /\ \A q \in Handlers \ {h} : pass'[q] = pass[q]
           /\ HandlerOK(h)'
<1>1. /\ pass \in [Handlers -> Locals] /\ pass' = [pass EXCEPT ![h] = Idle]
      /\ lock \in Seq(Handlers) /\ lock # <<>> /\ lock' = Tail(lock)
  BY DEF IInv, TypeOK, Release, Holds
<1>2. Idle \in Locals
  BY DEF Idle, Locals
<1>3. pass'[h] = Idle
  BY <1>1
<1>4. HandlerOK(h)'
  BY <1>3, FS_EmptySet DEF HandlerOK, KindOK, StatusOK, TimeOK, RowsOK, Idle, Working
<1>. QED BY <1>1, <1>2, <1>3, <1>4, LockType

\* A handler that goes on has new locals, and the lock still.
LEMMA Continued ==
    ASSUME IInv, NEW h \in Handlers, Holds(h), NEW l \in Locals, Local(h, l)
    PROVE  /\ lock' = lock /\ lock' \in Seq(Handlers) /\ Holds(h)'
           /\ pass' \in [Handlers -> Locals]
           /\ pass'[h] = l
           /\ \A q \in Handlers \ {h} : pass'[q] = pass[q]
BY DEF IInv, TypeOK, Local, Holds

\* A pass that ends without a word about the rows.
LEMMA EndInv ==
    ASSUME IInv, NEW h \in Handlers, Holds(h), Release(h),
           positions' = positions,
           status' \in Statuses, status' = "STOPPED" => OpenRows = {},
           capital' \in Int, lastTick' \in Nat \cup {-1}, realised' \in Int,
           topUps' \in Nat, job' \in BOOLEAN, clock' \in Nat, downs' \in Nat,
           stoppedAt' \in Nat \cup {-1}, lastTick' <= clock', stoppedAt' <= clock'
    PROVE  IInv'
<1>1. OpenRows' = OpenRows /\ WithinLimits'
  BY QuietRows DEF IInv
<1>2. TypeOK'
  BY Released DEF IInv, TypeOK
<1>. QED BY <1>1, <1>2, Released, TurnInv

\* A pass that goes on without a word about pairs and statuses.
LEMMA GoOnInv ==
    ASSUME IInv, NEW h \in Handlers, Holds(h), NEW l \in Locals, Local(h, l),
           DOMAIN positions' = DOMAIN positions,
           \A i \in DOMAIN positions : /\ positions'[i].pair = positions[i].pair
                                       /\ positions'[i].status = positions[i].status,
           positions' \in Seq(Positions),
           status' = status, capital' \in Int, realised' \in Int,
           UNCHANGED <<lastTick, topUps, stoppedAt, job, clock, downs>>,
           KindOK(l), StatusOK(l), TimeOK(l), RowsOK(l)
    PROVE  IInv'
<1>1. OpenRows' = OpenRows /\ WithinLimits'
  BY QuietRows DEF IInv
<1>2. TypeOK'
  BY Continued DEF IInv, TypeOK
<1>3. HandlerOK(h)'
  <2>1. pass'[h] = l /\ Holds(h)'
    BY Continued
  <2>2. KindOK(pass[h])' /\ StatusOK(pass[h])' /\ TimeOK(pass[h])'
    BY <1>1, <2>1 DEF KindOK, StatusOK, TimeOK
  <2>3. RowsOK(pass[h])'
    <3>1. \A i \in OpenRows : positions'[i].pair = positions[i].pair
      BY DEF OpenRows
    <3>2. l.held \subseteq DOMAIN positions =>
             {positions'[j].pair : j \in l.held} = {positions[j].pair : j \in l.held}
      OBVIOUS
    <3>. QED BY <1>1, <2>1, <3>1, <3>2 DEF RowsOK
  <2>. QED BY <2>1, <2>2, <2>3 DEF HandlerOK
<1>4. (status = "STOPPED" => OpenRows = {})' /\ lastTick' <= clock' /\ stoppedAt' <= clock'
  BY <1>1 DEF IInv
<1>. QED BY <1>1, <1>2, <1>3, <1>4, Continued, TurnInv

-----------------------------------------------------------------------------
(***************************************************************************)
(* Requests and controls.                                                  *)
(***************************************************************************)

\* A request waits for the lock and says nothing of the rows.
LEMMA RequestInv ==
    ASSUME IInv, NEW h \in Handlers, Request(h)
    PROVE  IInv'
<1>1. PICK kind \in Kinds : pass' = [pass EXCEPT ![h] = [Idle EXCEPT !.kind = kind, !.pc = "start"]]
  BY DEF Request
<1>. DEFINE l == [Idle EXCEPT !.kind = kind, !.pc = "start"]
<1>2. /\ l \in Locals /\ l.pc = "start" /\ l.held = {} /\ l.fresh = {} /\ l.closing = 0
  <2>1. Idle \in Locals
    BY DEF Idle, Locals
  <2>2. Idle.held = {} /\ Idle.fresh = {} /\ Idle.closing = 0
    BY DEF Idle
  <2>3. l \in Locals
    BY <2>1 DEF Locals
  <2>. QED BY <2>1, <2>2, <2>3 DEF Locals
<1>3. /\ UNCHANGED <<rowVars, job, clock, downs>>
      /\ lock' = Append(lock, h) /\ lock \in Seq(Handlers)
      /\ pass \in [Handlers -> Locals]
  BY DEF Request, IInv, TypeOK
<1>. HIDE DEF l
<1>4. pass' \in [Handlers -> Locals] /\ pass'[h] = l
      /\ \A q \in Handlers \ {h} : pass'[q] = pass[q]
  BY <1>1, <1>2, <1>3 DEF l
<1>5. TypeOK'
  BY <1>3, <1>4, LockType DEF IInv, TypeOK, rowVars, bookVars
<1>6. OpenRows' = OpenRows /\ WithinLimits'
  BY <1>3, QuietRows DEF IInv, rowVars, bookVars
<1>7. ASSUME NEW q \in Handlers PROVE HandlerOK(q)'
  <2>1. CASE q = h
    BY <2>1, <1>2, <1>4, FS_EmptySet DEF HandlerOK, KindOK, StatusOK, TimeOK, RowsOK, Working
  <2>2. CASE q # h
    <3>1. pass'[q] = pass[q] /\ HandlerOK(q)
      BY <2>2, <1>4 DEF IInv
    <3>2. Holds(q) => Holds(q)'
      BY <1>3, StillHolds
    <3>. QED BY <1>3, <1>6, <3>1, <3>2
         DEF HandlerOK, KindOK, StatusOK, TimeOK, RowsOK, rowVars, bookVars
  <2>. QED BY <2>1, <2>2
<1>. QED BY <1>3, <1>5, <1>6, <1>7 DEF IInv, rowVars, bookVars

\* What a terminal session refuses changes nothing; the controls change the
\* status, which no pass sees.
LEMMA ControlInv ==
    ASSUME IInv, NEW h \in Handlers, Refused(h) \/ Pause(h) \/ Resume(h) \/ TopUp(h)
    PROVE  IInv'
<1>1. CASE Refused(h)
  BY <1>1, EndInv DEF IInv, TypeOK, Refused, Begins, At, rowVars, bookVars
<1>2. CASE Pause(h)
  BY <1>2, EndInv DEF IInv, TypeOK, Pause, SetStatus, Begins, At, Statuses, Unscheduled
<1>3. CASE Resume(h)
  BY <1>3, EndInv DEF IInv, TypeOK, Resume, SetStatus, Begins, At, Statuses
<1>4. CASE TopUp(h)
  BY <1>4, EndInv DEF IInv, TypeOK, TopUp, Begins, At
<1>. QED BY <1>1, <1>2, <1>3, <1>4

-----------------------------------------------------------------------------
(***************************************************************************)
(* Steps that end a pass.                                                  *)
(***************************************************************************)

\* A tick that is skipped or empty, and the end of a tick or of a stop.
LEMMA LastStepInv ==
    ASSUME IInv, NEW h \in Handlers,
           TickSkip(h) \/ TickEmpty(h) \/ TickEnd(h) \/ StopStatus(h) \/ DbError(h)
    PROVE  IInv'
<1>1. CASE TickSkip(h)
  BY <1>1, EndInv DEF IInv, TypeOK, TickSkip, Begins, At, rowVars, bookVars
<1>2. CASE TickEmpty(h)
  BY <1>2, EndInv DEF IInv, TypeOK, TickEmpty, Begins, At
<1>3. CASE TickEnd(h)
  <2>1. /\ pass[h].capital \in Int /\ pass[h].now \in Nat
        /\ pass[h].now <= clock
    BY <1>3 DEF IInv, TypeOK, Locals, HandlerOK, KindOK, TimeOK, Working, TickEnd, At
  <2>. QED BY <1>3, <2>1, EndInv DEF IInv, TypeOK, TickEnd, At, NewCapital, Stamped
<1>4. CASE StopStatus(h)
  <2>1. /\ OpenRows = {} /\ pass[h].now \in Nat
        /\ pass[h].now <= clock
    BY <1>4 DEF IInv, TypeOK, Locals, HandlerOK, StatusOK, TimeOK, Working, StopStatus, At
  <2>. QED BY <1>4, <2>1, EndInv DEF IInv, TypeOK, StopStatus, At, Statuses, Unscheduled
<1>5. CASE DbError(h)
  BY <1>5, EndInv DEF IInv, TypeOK, DbError, rowVars, bookVars
<1>. QED BY <1>1, <1>2, <1>3, <1>4, <1>5

-----------------------------------------------------------------------------
(***************************************************************************)
(* Steps of a pass that say nothing of pairs and statuses.                 *)
(***************************************************************************)

\* A tick begins with the open rows to visit.
LEMMA TickStartInv ==
    ASSUME IInv, NEW h \in Handlers, TickStart(h)
    PROVE  IInv'
<1>1. PICK snaps \in Priced, rates \in BOOLEAN :
        Local(h, [pass[h] EXCEPT !.pc = IF rates THEN "fund" ELSE "exits",
                     !.capital = capital, !.now = clock,
                     !.snaps = snaps, !.todo = OpenRows])
  BY DEF TickStart
<1>. DEFINE l == [pass[h] EXCEPT !.pc = IF rates THEN "fund" ELSE "exits",
                     !.capital = capital, !.now = clock,
                     !.snaps = snaps, !.todo = OpenRows]
<1>2. /\ Holds(h) /\ pass[h].kind = "tick" /\ pass[h].pc = "start" /\ status = "RUNNING"
      /\ UNCHANGED <<rowVars, job, clock, downs>>
  BY DEF TickStart, Begins, At
<1>3. /\ l \in Locals /\ l.pc \in {"fund", "exits"} /\ l.kind = "tick"
      /\ l.todo = OpenRows /\ l.held = pass[h].held /\ l.fresh = pass[h].fresh
      /\ l.closing = pass[h].closing /\ l.now = clock
  <2>1. pass[h] \in Locals /\ capital \in Int /\ clock \in Nat /\ OpenRows \in SUBSET Nat
        /\ snaps \in SUBSET SimPairs
    BY RowIn DEF IInv, TypeOK, Priced
  <2>. QED BY <1>2, <2>1 DEF Locals
<1>. HIDE DEF l
<1>4. KindOK(l) /\ StatusOK(l) /\ TimeOK(l) /\ RowsOK(l)
  BY <1>2, <1>3 DEF IInv, TypeOK, HandlerOK, KindOK, StatusOK, TimeOK, RowsOK
<1>. QED BY <1>1, <1>2, <1>3, <1>4, GoOnInv DEF IInv, TypeOK, rowVars, bookVars, l

\* Funding is charged row by row, and then the exits begin.
LEMMA FundingInv ==
    ASSUME IInv, NEW h \in Handlers, Accrue(h) \/ AccrueDone(h)
    PROVE  IInv'
<1>1. CASE Accrue(h)
  <2>. DEFINE i == Oldest(pass[h].todo)
              l == [pass[h] EXCEPT !.todo = @ \ {i}]
  <2>1. /\ Holds(h) /\ pass[h].pc = "fund" /\ pass[h].todo # {} /\ Local(h, l)
        /\ UNCHANGED <<status, capital, lastTick, realised, topUps, stoppedAt, job, clock, downs>>
    BY <1>1 DEF Accrue, At
  <2>2. /\ pass[h] \in Locals /\ pass[h].todo \subseteq OpenRows
        /\ KindOK(pass[h]) /\ StatusOK(pass[h]) /\ RowsOK(pass[h])
    BY <2>1 DEF IInv, TypeOK, HandlerOK, RowsOK
  <2>3. i \in OpenRows /\ i \in DOMAIN positions
    BY <2>1, <2>2, OldestIn, RowIn DEF IInv, Locals
  <2>4. PICK due \in {0, Elapsed(h)} : positions' = [positions EXCEPT ![i].funded = @ + due]
    BY <1>1 DEF Accrue
  <2>5. /\ l \in Locals /\ l.todo = pass[h].todo \ {i} /\ l.kind = pass[h].kind
        /\ l.pc = pass[h].pc /\ l.held = pass[h].held /\ l.fresh = pass[h].fresh
        /\ l.closing = pass[h].closing /\ l.now = pass[h].now
    BY <2>2 DEF Locals
  <2>. HIDE DEF l, i
  <2>6. KindOK(l) /\ StatusOK(l) /\ RowsOK(l)
    BY <2>1, <2>2, <2>5 DEF KindOK, StatusOK, RowsOK
  <2>7. TimeOK(l)
    BY <2>1, <2>5 DEF IInv, HandlerOK, TimeOK, Working
  <2>8. Elapsed(h) \in Nat
    <3>1. lastTick <= pass[h].now /\ pass[h].now \in Nat /\ lastTick \in Nat \cup {-1}
      BY <2>1, <2>2 DEF IInv, TypeOK, HandlerOK, KindOK, TimeOK, Working, Locals
    <3>. QED BY <3>1 DEF Elapsed
  <2>9. /\ positions' \in Seq(Positions) /\ DOMAIN positions' = DOMAIN positions
        /\ \A j \in DOMAIN positions : /\ positions'[j].pair = positions[j].pair
                                       /\ positions'[j].status = positions[j].status
    <3>. DEFINE row == [positions[i] EXCEPT !.funded = @ + due]
    <3>1. /\ positions[i] \in Positions /\ row \in Positions
          /\ row.pair = positions[i].pair /\ row.status = positions[i].status
      BY <2>3, <2>8, RowIn DEF IInv, Positions
    <3>2. positions' = [positions EXCEPT ![i] = row]
      BY <2>4
    <3>. HIDE DEF row
    <3>. QED BY <2>3, <3>1, <3>2, RowType DEF IInv, TypeOK
  <2>. QED BY <2>1, <2>5, <2>6, <2>7, <2>9, GoOnInv DEF IInv, TypeOK
<1>2. CASE AccrueDone(h)
  <2>. DEFINE l == [pass[h] EXCEPT !.pc = "exits", !.todo = OpenRows]
  <2>1. /\ Holds(h) /\ pass[h].pc = "fund" /\ Local(h, l)
        /\ UNCHANGED <<rowVars, job, clock, downs>>
    BY <1>2 DEF AccrueDone, At
  <2>2. /\ pass[h] \in Locals /\ OpenRows \in SUBSET Nat
    BY RowIn DEF IInv, TypeOK
  <2>3. /\ l \in Locals /\ l.todo = OpenRows /\ l.kind = pass[h].kind
        /\ l.pc = "exits" /\ l.held = pass[h].held /\ l.fresh = pass[h].fresh
        /\ l.closing = pass[h].closing /\ l.now = pass[h].now
    BY <2>2 DEF Locals
  <2>. HIDE DEF l
  <2>4. KindOK(l) /\ StatusOK(l) /\ TimeOK(l) /\ RowsOK(l)
    BY <2>1, <2>3 DEF IInv, HandlerOK, KindOK, StatusOK, TimeOK, RowsOK, Working
  <2>. QED BY <2>1, <2>3, <2>4, GoOnInv DEF IInv, TypeOK, rowVars, bookVars
<1>. QED BY <1>1, <1>2

\* The exits pass over a row, or are done.
LEMMA HoldInv ==
    ASSUME IInv, NEW h \in Handlers, Hold(h) \/ ExitsDone(h)
    PROVE  IInv'
<1>1. CASE Hold(h)
  <2>. DEFINE i == Oldest(pass[h].todo)
              l == [pass[h] EXCEPT !.todo = @ \ {i}, !.held = @ \cup {i}]
  <2>1. /\ Holds(h) /\ pass[h].pc = "exits" /\ pass[h].kind = "tick" /\ pass[h].todo # {}
        /\ Local(h, l) /\ UNCHANGED <<rowVars, job, clock, downs>>
    BY <1>1 DEF Hold, At
  <2>2. /\ pass[h] \in Locals /\ pass[h].todo \subseteq OpenRows
        /\ StatusOK(pass[h]) /\ RowsOK(pass[h]) /\ TimeOK(pass[h])
    BY <2>1 DEF IInv, TypeOK, HandlerOK, RowsOK
  <2>3. i \in DOMAIN positions /\ i \in Nat
    BY <2>1, <2>2, OldestIn, RowIn DEF IInv, Locals
  <2>4. /\ l \in Locals /\ l.todo = pass[h].todo \ {i} /\ l.kind = "tick"
        /\ l.pc = "exits" /\ l.held = pass[h].held \cup {i} /\ l.fresh = pass[h].fresh
        /\ l.closing = pass[h].closing /\ l.now = pass[h].now
    BY <2>1, <2>2, <2>3 DEF Locals
  <2>. HIDE DEF l, i
  <2>5. KindOK(l) /\ StatusOK(l) /\ TimeOK(l)
    BY <2>1, <2>2, <2>4 DEF KindOK, StatusOK, TimeOK
  <2>6. RowsOK(l)
    BY <2>1, <2>2, <2>3, <2>4 DEF RowsOK
  <2>. QED BY <2>1, <2>4, <2>5, <2>6, GoOnInv DEF IInv, TypeOK, rowVars, bookVars
<1>2. CASE ExitsDone(h)
  <2>. DEFINE l == [pass[h] EXCEPT !.pc = "entries"]
  <2>1. /\ Holds(h) /\ pass[h].pc = "exits" /\ pass[h].kind = "tick" /\ pass[h].todo = {}
        /\ Local(h, l) /\ UNCHANGED <<rowVars, job, clock, downs>>
    BY <1>2 DEF ExitsDone, At
  <2>2. /\ pass[h] \in Locals
        /\ StatusOK(pass[h]) /\ RowsOK(pass[h]) /\ TimeOK(pass[h])
    BY DEF IInv, TypeOK, HandlerOK
  <2>3. /\ l \in Locals /\ l.todo = {} /\ l.kind = "tick"
        /\ l.pc = "entries" /\ l.held = pass[h].held /\ l.fresh = pass[h].fresh
        /\ l.closing = pass[h].closing /\ l.now = pass[h].now
    BY <2>1, <2>2 DEF Locals
  <2>. HIDE DEF l
  <2>4. KindOK(l) /\ StatusOK(l) /\ TimeOK(l)
    BY <2>1, <2>2, <2>3 DEF KindOK, StatusOK, TimeOK, Working
  <2>5. RowsOK(l)
    BY <2>1, <2>2, <2>3 DEF RowsOK
  <2>. QED BY <2>1, <2>3, <2>4, <2>5, GoOnInv DEF IInv, TypeOK, rowVars, bookVars
<1>. QED BY <1>1, <1>2

\* A stop begins with the open rows, and comes to its end without any.
LEMMA StopInv ==
    ASSUME IInv, NEW h \in Handlers, StopStart(h) \/ StopCapital(h)
    PROVE  IInv'
<1>1. CASE StopStart(h)
  <2>. DEFINE l == [pass[h] EXCEPT !.pc = IF OpenRows = {} THEN "stopping" ELSE "exits",
                                   !.capital = capital, !.now = clock, !.todo = OpenRows]
  <2>1. /\ Holds(h) /\ pass[h].pc = "start" /\ pass[h].kind = "stop"
        /\ Local(h, l) /\ UNCHANGED <<rowVars, job, clock, downs>>
    BY <1>1 DEF StopStart, Begins, At
  <2>2. /\ pass[h] \in Locals /\ OpenRows \in SUBSET Nat /\ capital \in Int
        /\ RowsOK(pass[h]) /\ clock \in Nat
    BY RowIn DEF IInv, TypeOK, HandlerOK
  <2>3. /\ l \in Locals /\ l.todo = OpenRows /\ l.kind = "stop"
        /\ l.pc = IF OpenRows = {} THEN "stopping" ELSE "exits"
        /\ l.held = pass[h].held /\ l.fresh = pass[h].fresh
        /\ l.closing = pass[h].closing /\ l.now = clock
    BY <2>1, <2>2 DEF Locals
  <2>. HIDE DEF l
  <2>4. KindOK(l) /\ StatusOK(l) /\ TimeOK(l)
    BY <2>2, <2>3 DEF IInv, KindOK, StatusOK, TimeOK
  <2>5. RowsOK(l)
    BY <2>1, <2>2, <2>3 DEF RowsOK
  <2>. QED BY <2>1, <2>3, <2>4, <2>5, GoOnInv DEF IInv, TypeOK, rowVars, bookVars
<1>2. CASE StopCapital(h)
  <2>. DEFINE l == [pass[h] EXCEPT !.pc = "stopping"]
  <2>1. /\ Holds(h) /\ pass[h].pc = "exits" /\ pass[h].kind = "stop" /\ pass[h].todo = {}
        /\ Local(h, l) /\ capital' = pass[h].capital
        /\ UNCHANGED <<status, lastTick, positions, realised, topUps, stoppedAt, job, clock, downs>>
    BY <1>2 DEF StopCapital, At, NewCapital
  <2>2. /\ pass[h] \in Locals /\ RowsOK(pass[h]) /\ pass[h].capital \in Int
        /\ TimeOK(pass[h])
    BY DEF IInv, TypeOK, HandlerOK, Locals
  <2>3. /\ l \in Locals /\ l.todo = {} /\ l.kind = "stop" /\ l.pc = "stopping"
        /\ l.held = pass[h].held /\ l.fresh = pass[h].fresh
        /\ l.closing = pass[h].closing /\ l.now = pass[h].now
    BY <2>1, <2>2 DEF Locals
  <2>. HIDE DEF l
  <2>4. OpenRows = {}
    BY <2>1, <2>2 DEF RowsOK
  <2>5. KindOK(l) /\ StatusOK(l) /\ TimeOK(l)
    BY <2>1, <2>2, <2>3, <2>4 DEF KindOK, StatusOK, TimeOK, Working
  <2>6. RowsOK(l)
    BY <2>1, <2>2, <2>3 DEF RowsOK
  <2>. QED BY <2>1, <2>2, <2>3, <2>5, <2>6, GoOnInv DEF IInv, TypeOK
<1>. QED BY <1>1, <1>2

-----------------------------------------------------------------------------
(***************************************************************************)
(* Steps that change the book.                                             *)
(***************************************************************************)

\* The trade row of a close: its position is still open.
LEMMA CreateTradeInv ==
    ASSUME IInv, NEW h \in Handlers, CreateTrade(h)
    PROVE  IInv'
<1>. DEFINE i == Oldest(pass[h].todo)
<1>1. /\ Holds(h) /\ pass[h].pc = "exits" /\ pass[h].todo # {}
      /\ positions' = [positions EXCEPT ![i].trades = @ + 1]
      /\ UNCHANGED <<status, capital, lastTick, topUps, stoppedAt, job, clock, downs>>
  BY DEF CreateTrade, At
<1>2. PICK pnl \in PnLs :
         /\ realised' = realised + pnl
         /\ Local(h, [pass[h] EXCEPT !.pc = "close", !.closing = i, !.capital = @ + pnl])
  BY DEF CreateTrade
<1>. DEFINE l == [pass[h] EXCEPT !.pc = "close", !.closing = i, !.capital = @ + pnl]
<1>3. /\ pass[h] \in Locals /\ pass[h].todo \subseteq OpenRows
      /\ KindOK(pass[h]) /\ StatusOK(pass[h]) /\ RowsOK(pass[h]) /\ TimeOK(pass[h])
      /\ pnl \in Int /\ realised \in Int
  BY <1>1, MoneyAssumption DEF IInv, TypeOK, HandlerOK, RowsOK
<1>4. i \in pass[h].todo /\ i \in DOMAIN positions /\ i \in Nat
  BY <1>1, <1>3, OldestIn, RowIn DEF IInv, Locals
<1>. HIDE DEF i
<1>5. /\ l \in Locals /\ l.todo = pass[h].todo /\ l.kind = pass[h].kind
      /\ l.pc = "close" /\ l.held = pass[h].held /\ l.fresh = pass[h].fresh
      /\ l.closing = i /\ l.now = pass[h].now
  <2>1. pass[h].capital + pnl \in Int
    BY <1>3 DEF Locals
  <2>2. l = [pass[h] EXCEPT !.pc = "close", !.closing = i, !.capital = pass[h].capital + pnl]
    OBVIOUS
  <2>3. ASSUME NEW c \in Int,
               NEW r, r = [pass[h] EXCEPT !.pc = "close", !.closing = i, !.capital = c]
        PROVE  /\ r \in Locals /\ r.todo = pass[h].todo /\ r.kind = pass[h].kind
               /\ r.pc = "close" /\ r.held = pass[h].held /\ r.fresh = pass[h].fresh
               /\ r.closing = i /\ r.now = pass[h].now
    BY <1>3, <1>4, <2>3 DEF Locals
  <2>. HIDE DEF l
  <2>. QED BY <2>1, <2>2, <2>3
<1>. HIDE DEF l
<1>6. KindOK(l) /\ StatusOK(l) /\ TimeOK(l)
  BY <1>1, <1>3, <1>5 DEF KindOK, StatusOK, TimeOK, Working
<1>7. RowsOK(l)
  BY <1>1, <1>3, <1>4, <1>5 DEF RowsOK
<1>8. /\ positions' \in Seq(Positions) /\ DOMAIN positions' = DOMAIN positions
      /\ \A j \in DOMAIN positions : /\ positions'[j].pair = positions[j].pair
                                     /\ positions'[j].status = positions[j].status
  <2>. DEFINE row == [positions[i] EXCEPT !.trades = @ + 1]
  <2>1. /\ positions[i] \in Positions /\ row \in Positions
        /\ row.pair = positions[i].pair /\ row.status = positions[i].status
    BY <1>4, RowIn DEF IInv, Positions
  <2>2. positions' = [positions EXCEPT ![i] = row]
    BY <1>1 DEF i
  <2>. HIDE DEF row
  <2>. QED BY <1>4, <2>1, <2>2, RowType DEF IInv, TypeOK
<1>9. realised' \in Int /\ capital' \in Int /\ Local(h, l)
  BY <1>1, <1>2, <1>3 DEF IInv, TypeOK, l
<1>. QED BY <1>1, <1>5, <1>6, <1>7, <1>8, <1>9, GoOnInv

\* The position row of a close.
LEMMA ClosePositionInv ==
    ASSUME IInv, NEW h \in Handlers, ClosePosition(h)
    PROVE  IInv'
<1>. DEFINE i == pass[h].closing
            row == ClosedRow(positions[i])
            l == [pass[h] EXCEPT !.pc = "exits", !.closing = 0, !.todo = @ \ {i},
                                 !.exited = @ \cup {positions[i].pair}]
<1>1. /\ Holds(h) /\ pass[h].pc = "close"
      /\ positions' = [positions EXCEPT ![i] = row]
      /\ Local(h, l)
      /\ UNCHANGED <<status, capital, lastTick, realised, topUps, stoppedAt, job, clock, downs>>
  BY DEF ClosePosition, At
<1>2. /\ pass[h] \in Locals
      /\ KindOK(pass[h]) /\ StatusOK(pass[h]) /\ RowsOK(pass[h]) /\ TimeOK(pass[h])
  BY DEF IInv, TypeOK, HandlerOK
<1>3. i \in pass[h].todo /\ i \in OpenRows /\ i \in DOMAIN positions
  BY <1>1, <1>2, RowIn DEF IInv, RowsOK
<1>4. /\ positions[i] \in Positions /\ row \in Positions
      /\ row.pair = positions[i].pair /\ row.status = "CLOSED"
  BY <1>3, RowIn DEF IInv, Positions, ClosedRow
<1>5. /\ l \in Locals /\ l.todo = pass[h].todo \ {i} /\ l.kind = pass[h].kind
      /\ l.pc = "exits" /\ l.held = pass[h].held /\ l.fresh = pass[h].fresh
      /\ l.closing = 0 /\ l.now = pass[h].now
  BY <1>2, <1>4 DEF Locals, Positions
<1>. HIDE DEF l, i, row
<1>6. /\ positions' \in Seq(Positions) /\ DOMAIN positions' = DOMAIN positions
      /\ positions'[i] = row
      /\ \A j \in DOMAIN positions : j # i => positions'[j] = positions[j]
  BY <1>1, <1>3, <1>4, RowType DEF IInv, TypeOK
<1>7. OpenRows' = OpenRows \ {i}
  BY <1>4, <1>6 DEF OpenRows
<1>8. WithinLimits'
  <2>1. IsFiniteSet(OpenRows) /\ OpenRows \subseteq DOMAIN positions
    BY RowIn, FS_Subset DEF IInv
  <2>2. /\ Cardinality(OpenRows \ {i}) = Cardinality(OpenRows) - 1
        /\ Cardinality(OpenRows) \in Nat
    BY <1>3, <2>1, FS_RemoveElement, FS_CardinalityType
  <2>3. Cardinality(OpenRows') <= MaxActive
    BY <1>7, <2>2, LimitsAssumption DEF IInv, WithinLimits
  <2>. QED BY <1>6, <1>7, <2>1, <2>3 DEF IInv, WithinLimits
<1>9. HandlerOK(h)'
  <2>1. pass'[h] = l /\ Holds(h)'
    BY <1>1, <1>5, Continued
  <2>2. KindOK(pass[h])' /\ StatusOK(pass[h])' /\ TimeOK(pass[h])'
    BY <1>1, <1>2, <1>5, <2>1 DEF KindOK, StatusOK, TimeOK, Working
  <2>3. RowsOK(pass[h])'
    BY <1>1, <1>2, <1>5, <1>6, <1>7, <2>1 DEF RowsOK
  <2>. QED BY <2>1, <2>2, <2>3 DEF HandlerOK
<1>10. TypeOK'
  BY <1>1, <1>5, <1>6, Continued DEF IInv, TypeOK
<1>11. status' = "STOPPED" => OpenRows' = {}
  BY <1>1, <1>7 DEF IInv
<1>12. lastTick' <= clock' /\ stoppedAt' <= clock'
  BY <1>1 DEF IInv
<1>. QED BY <1>1, <1>5, <1>6, <1>8, <1>9, <1>10, <1>11, <1>12, Continued, TurnInv

\* At the entries the tick knows every open pair, and the slots and the margin
\* it counts are at least those in use.
LEMMA KnownPairs ==
    ASSUME IInv, NEW h \in Handlers, At(h, "entries")
    PROVE  /\ \A i \in OpenRows : positions[i].pair \in HeldPairs(h)
           /\ IsFiniteSet(HeldPairs(h)) /\ IsFiniteSet(OpenRows)
           /\ Cardinality(HeldPairs(h)) \in Nat /\ Cardinality(OpenRows) \in Nat
           /\ Committed(h) \in Nat
           /\ Cardinality(OpenRows) <= Cardinality(HeldPairs(h))
           /\ Cardinality(HeldPairs(h)) <= Committed(h)
<1>. DEFINE held == pass[h].held
            heldPairs == {positions[j].pair : j \in held}
            fresh == pass[h].fresh
<1>1. /\ RowsOK(pass[h]) /\ held \subseteq DOMAIN positions /\ IsFiniteSet(fresh)
      /\ \A i \in OpenRows : positions[i].pair \in HeldPairs(h)
  BY DEF IInv, HandlerOK, RowsOK, At, HeldPairs
<1>2. IsFiniteSet(held) /\ IsFiniteSet(OpenRows)
  BY <1>1, RowIn, FS_Subset DEF IInv
<1>3. IsFiniteSet(heldPairs) /\ Cardinality(heldPairs) <= Cardinality(held)
  <2>. DEFINE f == [j \in held |-> positions[j].pair]
  <2>1. f \in Surjection(held, heldPairs)
    BY DEF Surjection
  <2>. HIDE DEF f, held, heldPairs
  <2>. QED BY <1>2, <2>1, FS_Surjection
<1>4. HeldPairs(h) = heldPairs \cup fresh
  BY DEF HeldPairs
<1>5. /\ IsFiniteSet(HeldPairs(h))
      /\ Cardinality(HeldPairs(h)) =
            Cardinality(heldPairs) + Cardinality(fresh) - Cardinality(heldPairs \cap fresh)
  <2>. HIDE DEF heldPairs, fresh
  <2>. QED BY <1>1, <1>3, <1>4, FS_Union
<1>6. IsFiniteSet(heldPairs \cap fresh)
  <2>. HIDE DEF heldPairs, fresh
  <2>. QED BY <1>3, FS_Intersection
<1>7. /\ Cardinality(held) \in Nat /\ Cardinality(fresh) \in Nat
      /\ Cardinality(heldPairs) \in Nat /\ Cardinality(heldPairs \cap fresh) \in Nat
      /\ Cardinality(HeldPairs(h)) \in Nat /\ Cardinality(OpenRows) \in Nat
  <2>. HIDE DEF held, heldPairs, fresh
  <2>. QED BY <1>1, <1>2, <1>3, <1>5, <1>6, FS_CardinalityType
<1>8. Committed(h) = Cardinality(held) + Cardinality(fresh)
  BY DEF Committed
<1>9. Cardinality(OpenRows) <= Cardinality(HeldPairs(h))
  <2>. DEFINE f == [i \in OpenRows |-> positions[i].pair]
  <2>1. f \in [OpenRows -> HeldPairs(h)]
    BY <1>1
  <2>2. \A i, j \in OpenRows : f[i] = f[j] => i = j
    BY DEF IInv, WithinLimits
  <2>3. f \in Injection(OpenRows, HeldPairs(h))
    <3>1. DOMAIN f = OpenRows
      OBVIOUS
    <3>. HIDE DEF f
    <3>. QED BY <2>1, <2>2, <3>1 DEF Injection, IsInjective
  <2>. HIDE DEF f
  <2>. QED BY <1>5, <2>3, FS_Injection
<1>10. /\ Committed(h) \in Nat
       /\ Cardinality(HeldPairs(h)) <= Committed(h)
  <2>. HIDE DEF held, heldPairs, fresh
  <2>. QED BY <1>3, <1>5, <1>7, <1>8
<1>. QED BY <1>1, <1>2, <1>5, <1>7, <1>9, <1>10

\* A new row for a pair that is not open.
LEMMA OpenPositionInv ==
    ASSUME IInv, NEW h \in Handlers, NEW pair \in SimPairs, OpenPosition(h, pair)
    PROVE  IInv'
<1>. DEFINE n == Len(positions) + 1
            row == NewPosition(h, pair)
            l == [pass[h] EXCEPT !.fresh = @ \cup {pair}]
<1>1. /\ Holds(h) /\ At(h, "entries") /\ pass[h].pc = "entries"
      /\ pair \notin HeldPairs(h)
      /\ Cardinality(HeldPairs(h)) < MaxActive
      /\ positions' = Append(positions, row)
      /\ Local(h, l)
      /\ UNCHANGED <<status, capital, lastTick, realised, topUps, stoppedAt, job, clock, downs>>
  BY DEF OpenPosition, At, HasSlot
<1>2. /\ pass[h] \in Locals
      /\ KindOK(pass[h]) /\ StatusOK(pass[h]) /\ RowsOK(pass[h]) /\ TimeOK(pass[h])
  BY DEF IInv, TypeOK, HandlerOK
<1>3. row \in Positions /\ row.pair = pair /\ row.status = "OPEN"
  BY <1>2 DEF NewPosition, Positions, Locals
<1>4. /\ l \in Locals /\ l.todo = pass[h].todo /\ l.kind = pass[h].kind
      /\ l.pc = "entries" /\ l.held = pass[h].held
      /\ l.fresh = pass[h].fresh \cup {pair}
      /\ l.closing = pass[h].closing /\ l.now = pass[h].now
  BY <1>1, <1>2 DEF Locals
<1>. HIDE DEF l, row
<1>5. /\ positions' \in Seq(Positions)
      /\ DOMAIN positions' = DOMAIN positions \cup {n}
      /\ n \notin DOMAIN positions /\ positions'[n] = row
      /\ \A j \in DOMAIN positions : positions'[j] = positions[j]
  BY <1>1, <1>3, AppendProperties DEF IInv, TypeOK
<1>. HIDE DEF n
<1>6. OpenRows' = OpenRows \cup {n} /\ n \notin OpenRows /\ OpenRows \subseteq DOMAIN positions
  BY <1>3, <1>5 DEF OpenRows
<1>7. WithinLimits'
  <2>1. Cardinality(OpenRows \cup {n}) = Cardinality(OpenRows) + 1
    BY <1>1, <1>6, KnownPairs, FS_AddElement
  <2>2. Cardinality(OpenRows') <= MaxActive
    BY <1>1, <1>6, <2>1, KnownPairs, LimitsAssumption
  <2>3. \A i \in OpenRows : positions'[i].pair # pair
    BY <1>1, <1>5, <1>6, KnownPairs
  <2>. QED BY <1>3, <1>5, <1>6, <2>2, <2>3 DEF IInv, WithinLimits
<1>8. HandlerOK(h)'
  <2>1. pass'[h] = l /\ Holds(h)'
    BY <1>1, <1>4, Continued
  <2>2. KindOK(pass[h])' /\ StatusOK(pass[h])' /\ TimeOK(pass[h])'
    BY <1>1, <1>2, <1>4, <2>1 DEF KindOK, StatusOK, TimeOK, Working
  <2>3. {positions'[j].pair : j \in pass[h].held} = {positions[j].pair : j \in pass[h].held}
    BY <1>2, <1>5 DEF RowsOK
  <2>4. \A i \in OpenRows' : positions'[i].pair \in
              {positions'[j].pair : j \in l.held} \cup l.fresh
    BY <1>1, <1>2, <1>3, <1>4, <1>5, <1>6, <2>3 DEF RowsOK
  <2>5. IsFiniteSet(l.fresh)
    BY <1>2, <1>4, FS_AddElement DEF RowsOK
  <2>6. l.held \subseteq DOMAIN positions'
    BY <1>2, <1>4, <1>5 DEF RowsOK
  <2>7. (l.kind = "stop" => l.held = {}) /\ l.closing = 0
    BY <1>1, <1>2, <1>4 DEF RowsOK
  <2>8. RowsOK(pass[h])'
    BY <1>4, <2>1, <2>4, <2>5, <2>6, <2>7 DEF RowsOK
  <2>. QED BY <2>1, <2>2, <2>8 DEF HandlerOK
<1>9. TypeOK'
  BY <1>1, <1>4, <1>5, Continued DEF IInv, TypeOK
<1>10. status' # "STOPPED"
  BY <1>1, <1>2 DEF KindOK, StatusOK, Working
<1>11. lastTick' <= clock' /\ stoppedAt' <= clock'
  BY <1>1 DEF IInv
<1>. QED BY <1>1, <1>4, <1>5, <1>7, <1>8, <1>9, <1>10, <1>11, Continued, TurnInv

-----------------------------------------------------------------------------
(***************************************************************************)
(* The invariant.                                                          *)
(***************************************************************************)

\* A restart leaves the rows as they are and no pass under way.
LEMMA CrashInv ==
    ASSUME IInv, Crash
    PROVE  IInv'
<1>1. /\ pass' = [h \in Handlers |-> Idle] /\ lock' = <<>>
      /\ downs' = downs + 1 /\ job' \in BOOLEAN
      /\ UNCHANGED <<rowVars, clock>>
  BY DEF Crash
<1>2. Idle \in Locals
  BY DEF Idle, Locals
<1>3. OpenRows' = OpenRows /\ WithinLimits'
  BY <1>1, QuietRows DEF IInv, rowVars, bookVars
<1>4. TypeOK'
  BY <1>1, <1>2, EmptySeq DEF IInv, TypeOK, rowVars, bookVars
<1>5. ASSUME NEW h \in Handlers PROVE HandlerOK(h)'
  <2>1. pass'[h] = Idle
    BY <1>1
  <2>. QED BY <2>1, FS_EmptySet DEF HandlerOK, KindOK, StatusOK, TimeOK, RowsOK, Idle, Working
<1>. QED BY <1>1, <1>3, <1>4, <1>5 DEF IInv, rowVars, bookVars

\* Time goes on, or nothing happens.
LEMMA HourInv ==
    ASSUME IInv, Hour \/ UNCHANGED vars
    PROVE  IInv'
<1>1. /\ UNCHANGED <<rowVars, job, lock, pass, downs>>
      /\ clock' \in Nat /\ clock <= clock'
  BY DEF Hour, vars, IInv, TypeOK
<1>2. OpenRows' = OpenRows /\ WithinLimits'
  BY <1>1, QuietRows DEF IInv, rowVars, bookVars
<1>3. TypeOK'
  BY <1>1 DEF IInv, TypeOK, rowVars, bookVars
<1>4. ASSUME NEW h \in Handlers PROVE HandlerOK(h)'
  <2>1. pass'[h] = pass[h] /\ HandlerOK(h) /\ pass[h] \in Locals
    BY <1>1 DEF IInv, TypeOK
  <2>2. TimeOK(pass[h])'
    BY <1>1, <2>1 DEF IInv, TypeOK, HandlerOK, TimeOK, rowVars, bookVars, Locals
  <2>. QED BY <1>1, <1>2, <2>1, <2>2 DEF HandlerOK, KindOK, StatusOK, RowsOK, Holds, rowVars, bookVars
<1>5. (lastTick <= clock /\ stoppedAt <= clock)'
  BY <1>1 DEF IInv, TypeOK, rowVars, bookVars
<1>. QED BY <1>1, <1>2, <1>3, <1>4, <1>5 DEF IInv, rowVars, bookVars

\* Every step of a handler keeps the invariant.
LEMMA HandlerInv ==
    ASSUME IInv, NEW h \in Handlers, Request(h) \/ HandlerStep(h) \/ DbError(h)
    PROVE  IInv'
<1>1. CASE TickStep(h)
  BY <1>1, LastStepInv, TickStartInv, FundingInv, HoldInv, OpenPositionInv DEF TickStep
<1>2. CASE CreateTrade(h) \/ ClosePosition(h)
  BY <1>2, CreateTradeInv, ClosePositionInv
<1>3. CASE StopStart(h) \/ StopCapital(h) \/ StopStatus(h)
  BY <1>3, StopInv, LastStepInv
<1>. QED BY <1>1, <1>2, <1>3, RequestInv, ControlInv, LastStepInv DEF HandlerStep

\* A new session satisfies the invariant.
LEMMA InitInv == Init => IInv
<1>. SUFFICES ASSUME Init PROVE IInv
  OBVIOUS
<1>1. Idle \in Locals
  BY DEF Idle, Locals
<1>2. TypeOK
  BY <1>1, EmptySeq, MoneyAssumption DEF Init, TypeOK, Statuses
<1>3. OpenRows = {}
  BY DEF Init, OpenRows
<1>4. WithinLimits
  BY <1>3, FS_EmptySet, LimitsAssumption DEF WithinLimits
<1>5. \A h \in Handlers : HandlerOK(h)
  BY FS_EmptySet DEF Init, HandlerOK, KindOK, StatusOK, TimeOK, RowsOK, Idle, Working
<1>. QED BY <1>2, <1>3, <1>4, <1>5 DEF Init, IInv

\* IInv is an invariant of a session, restarts and database errors included.
THEOREM Invariance == Spec => []IInv
<1>1. IInv /\ [Next]_vars => IInv'
  BY HandlerInv, CrashInv, HourInv DEF Next
<1>. QED BY InitInv, <1>1, PTL DEF Spec

\* A session keeps its types.
THEOREM TypeCorrect == Spec => []TypeOK
<1>1. IInv => TypeOK
  BY DEF IInv
<1>. QED BY <1>1, Invariance, PTL

\* The book keeps its limits and never holds a pair twice, also after a restart
\* in the middle of a tick.
THEOREM Limits == Spec => []WithinLimits
<1>1. IInv => WithinLimits
  BY DEF IInv
<1>. QED BY <1>1, Invariance, PTL

-----------------------------------------------------------------------------
(***************************************************************************)
(* A stopped session is final.                                             *)
(***************************************************************************)

\* Nothing is written to the rows of a stopped session.
LEMMA StoppedStep ==
    ASSUME IInv, status = "STOPPED", NEW h \in Handlers, HandlerStep(h)
    PROVE  UNCHANGED bookVars /\ stoppedAt <= stoppedAt'
<1>0. stoppedAt <= stoppedAt
  BY DEF IInv, TypeOK
<1>1. HandlerOK(h)
  BY DEF IInv
<1>2. CASE TickStep(h)
  <2>1. ~ TickEmpty(h) /\ ~ TickEnd(h) /\ ~ Accrue(h)
        /\ \A pair \in SimPairs : ~ OpenPosition(h, pair)
    BY <1>1 DEF HandlerOK, KindOK, StatusOK, Working, TickEmpty, TickEnd, Accrue,
                OpenPosition, At
  <2>2. TickSkip(h) \/ TickStart(h) \/ AccrueDone(h) \/ Hold(h) \/ ExitsDone(h)
    BY <1>2, <2>1 DEF TickStep
  <2>. QED BY <1>0, <2>2 DEF TickSkip, TickStart, AccrueDone, Hold, ExitsDone, rowVars
<1>3. ~ CreateTrade(h) /\ ~ ClosePosition(h) /\ ~ StopCapital(h)
  BY <1>1 DEF HandlerOK, StatusOK, CreateTrade, ClosePosition, StopCapital, At
<1>4. ~ Pause(h) /\ ~ Resume(h) /\ ~ TopUp(h)
  BY DEF Pause, Resume, SetStatus, TopUp, Terminal
<1>5. CASE StopStart(h) \/ Refused(h)
  BY <1>0, <1>5 DEF StopStart, Refused, rowVars, bookVars
<1>6. CASE StopStatus(h)
  <2>1. stoppedAt <= pass[h].now
    BY <1>1, <1>6 DEF HandlerOK, TimeOK, KindOK, Working, StopStatus, At
  <2>. QED BY <1>6, <2>1 DEF StopStatus, bookVars
<1>. QED BY <1>2, <1>3, <1>4, <1>5, <1>6 DEF HandlerStep

\* After a stop nothing is open, and no tick, control or second stop changes
\* the status, the capital, the positions or the trades of the session; a
\* second stop stamps its time anew, and no earlier than before.
THEOREM Final == Spec => StoppedIsFinal
<1>1. IInv /\ [Next]_vars
        => [status = "STOPPED" => /\ OpenRows = {}
                                  /\ UNCHANGED bookVars
                                  /\ stoppedAt <= stoppedAt']_vars
  <2>. SUFFICES ASSUME IInv, [Next]_vars, status = "STOPPED"
                PROVE  /\ OpenRows = {} /\ UNCHANGED bookVars
                       /\ stoppedAt <= stoppedAt'
    OBVIOUS
  <2>0. stoppedAt <= stoppedAt
    BY DEF IInv, TypeOK
  <2>1. OpenRows = {}
    BY DEF IInv
  <2>2. ASSUME NEW h \in Handlers, Request(h) \/ HandlerStep(h) \/ DbError(h)
        PROVE  UNCHANGED bookVars /\ stoppedAt <= stoppedAt'
    BY <2>0, <2>2, StoppedStep DEF Request, DbError, rowVars
  <2>. QED BY <2>0, <2>1, <2>2 DEF Next, Crash, Hour, vars, rowVars
<1>. QED BY <1>1, Invariance, PTL DEF Spec, StoppedIsFinal

-----------------------------------------------------------------------------
(***************************************************************************)
(* Money.                                                                  *)
(***************************************************************************)

\* What CapitalBalances comes to for the holder of the lock.
Balance(h) == IF Carries(h) THEN pass[h].capital = Funds ELSE capital = Funds

\* Without a failure, the balance is kept if the holder keeps it.
LEMMA HolderBalances ==
    ASSUME IInv, CapitalBalances, NEW h \in Handlers, Holds(h),
           \A q \in Handlers \ {h} : pass'[q] = pass[q],
           downs' = downs, Balance(h) => Balance(h)'
    PROVE  CapitalBalances'
<1>1. \A q \in Handlers : q # h => ~ Carries(q) /\ ~ Carries(q)'
  BY Alone DEF Carries, Working
<1>2. downs = 0 => Balance(h)
  BY <1>1 DEF CapitalBalances, Balance
<1>. QED BY <1>1, <1>2 DEF CapitalBalances, Balance

\* The integers of the balance.
LEMMA MoneyTypes ==
    ASSUME IInv
    PROVE  /\ Starting \in Int /\ topUps \in Int /\ realised \in Int /\ capital \in Int
           /\ \A h \in Handlers : pass[h] \in Locals /\ pass[h].capital \in Int
           /\ \A pnl \in PnLs : pnl \in Int
BY MoneyAssumption DEF IInv, TypeOK, Locals

\* Every step of a handler keeps the balance: a P&L enters the trades and the
\* capital of the pass at once, and the pass writes back what it carries.
LEMMA BalanceStep ==
    ASSUME IInv, CapitalBalances, NEW h \in Handlers, HandlerStep(h)
    PROVE  CapitalBalances'
<1>1. pass \in [Handlers -> Locals] /\ pass[h] \in Locals
  BY DEF IInv, TypeOK
<1>2. Idle.pc = "idle"
  BY DEF Idle
<1>3. CASE Refused(h) \/ Pause(h) \/ Resume(h) \/ TickSkip(h) \/ TickEmpty(h) \/ StopStatus(h)
  <2>1. /\ Holds(h) /\ pass' = [pass EXCEPT ![h] = Idle] /\ downs' = downs
        /\ pass[h].pc \in {"start", "stopping"}
        /\ capital' = capital /\ topUps' = topUps /\ realised' = realised
    BY <1>3 DEF Refused, Pause, Resume, SetStatus, TickSkip, TickEmpty, StopStatus,
                Begins, At, Release, rowVars, bookVars
  <2>2. Balance(h) => Balance(h)'
    BY <1>1, <1>2, <2>1 DEF Balance, Carries, Funds
  <2>. QED BY <1>1, <2>1, <2>2, HolderBalances
<1>4. CASE TopUp(h)
  <2>1. /\ Holds(h) /\ pass' = [pass EXCEPT ![h] = Idle] /\ downs' = downs
        /\ pass[h].pc = "start"
        /\ capital' = capital + 1 /\ topUps' = topUps + 1 /\ realised' = realised
    BY <1>4 DEF TopUp, Begins, At, Release
  <2>2. Balance(h) => Balance(h)'
    BY <1>1, <1>2, <2>1, MoneyTypes DEF Balance, Carries, Funds
  <2>. QED BY <1>1, <2>1, <2>2, HolderBalances
<1>5. CASE TickEnd(h)
  <2>1. /\ Holds(h) /\ pass' = [pass EXCEPT ![h] = Idle] /\ downs' = downs
        /\ pass[h].pc = "entries"
        /\ capital' = pass[h].capital /\ topUps' = topUps /\ realised' = realised
    BY <1>5 DEF TickEnd, At, Release, NewCapital
  <2>2. Balance(h) => Balance(h)'
    BY <1>1, <1>2, <2>1 DEF Balance, Carries, Funds
  <2>. QED BY <1>1, <2>1, <2>2, HolderBalances
<1>6. CASE StopCapital(h)
  <2>1. /\ Holds(h) /\ pass' = [pass EXCEPT ![h] = [pass[h] EXCEPT !.pc = "stopping"]]
        /\ pass[h].pc = "exits" /\ downs' = downs
        /\ capital' = pass[h].capital /\ topUps' = topUps /\ realised' = realised
    BY <1>6 DEF StopCapital, At, Local, NewCapital
  <2>2. pass'[h].pc = "stopping"
    BY <1>1, <2>1 DEF Locals
  <2>3. Balance(h) => Balance(h)'
    BY <2>1, <2>2 DEF Balance, Carries, Funds
  <2>. QED BY <1>1, <2>1, <2>3, HolderBalances
<1>7. CASE CreateTrade(h)
  <2>1. PICK pnl, i :
           /\ pnl \in PnLs
           /\ realised' = realised + pnl
           /\ pass' = [pass EXCEPT ![h] = [pass[h] EXCEPT !.pc = "close", !.closing = i,
                                                          !.capital = @ + pnl]]
    BY <1>7 DEF CreateTrade, Local
  <2>2. /\ Holds(h) /\ pass[h].pc = "exits" /\ downs' = downs
        /\ capital' = capital /\ topUps' = topUps
    BY <1>7 DEF CreateTrade, At
  <2>3. pass'[h].pc = "close" /\ pass'[h].capital = pass[h].capital + pnl
    BY <1>1, <2>1 DEF Locals
  <2>4. Balance(h) => Balance(h)'
    BY <2>1, <2>2, <2>3, MoneyTypes DEF Balance, Carries, Funds
  <2>. QED BY <1>1, <2>1, <2>2, <2>4, HolderBalances
<1>8. CASE TickStart(h) \/ StopStart(h)
  <2>1. /\ Holds(h) /\ pass[h].pc = "start" /\ downs' = downs
        /\ capital' = capital /\ topUps' = topUps /\ realised' = realised
    BY <1>8 DEF TickStart, StopStart, Begins, At, rowVars, bookVars
  <2>2. /\ pass'[h].capital = capital
        /\ \A q \in Handlers \ {h} : pass'[q] = pass[q]
    BY <1>1, <1>8 DEF TickStart, StopStart, Local, Locals
  <2>3. Balance(h) => Balance(h)'
    BY <2>1, <2>2 DEF Balance, Carries, Funds
  <2>. QED BY <2>1, <2>2, <2>3, HolderBalances
<1>9. CASE Accrue(h) \/ AccrueDone(h) \/ Hold(h) \/ ExitsDone(h) \/ ClosePosition(h)
           \/ \E pair \in SimPairs : OpenPosition(h, pair)
  <2>1. /\ Holds(h) /\ Carries(h) /\ downs' = downs
        /\ capital' = capital /\ topUps' = topUps /\ realised' = realised
    BY <1>9 DEF Accrue, AccrueDone, Hold, ExitsDone, ClosePosition, OpenPosition, At,
                Carries, rowVars, bookVars
  <2>2. /\ pass'[h].capital = pass[h].capital
        /\ pass'[h].pc \in {"fund", "exits", "close", "entries"}
        /\ \A q \in Handlers \ {h} : pass'[q] = pass[q]
    <3>1. CASE Accrue(h)
      <4>1. PICK i : pass' = [pass EXCEPT ![h] = [pass[h] EXCEPT !.todo = @ \ {i}]]
        BY <3>1 DEF Accrue, Local
      <4>. QED BY <1>1, <3>1, <4>1 DEF Accrue, At, Locals
    <3>2. CASE Hold(h)
      <4>1. PICK i : pass' = [pass EXCEPT ![h] = [pass[h] EXCEPT !.todo = @ \ {i},
                                                                 !.held = @ \cup {i}]]
        BY <3>2 DEF Hold, Local
      <4>. QED BY <1>1, <3>2, <4>1 DEF Hold, At, Locals
    <3>3. CASE ClosePosition(h)
      <4>1. PICK i, pair :
               pass' = [pass EXCEPT ![h] = [pass[h] EXCEPT !.pc = "exits", !.closing = 0,
                                               !.todo = @ \ {i}, !.exited = @ \cup {pair}]]
        BY <3>3 DEF ClosePosition, Local
      <4>. QED BY <1>1, <3>3, <4>1 DEF ClosePosition, At, Locals
    <3>4. CASE AccrueDone(h)
      <4>1. PICK rows : pass' = [pass EXCEPT ![h] = [pass[h] EXCEPT !.pc = "exits",
                                                                    !.todo = rows]]
        BY <3>4 DEF AccrueDone, Local
      <4>. QED BY <1>1, <4>1 DEF Locals
    <3>5. CASE ExitsDone(h)
      BY <1>1, <3>5 DEF ExitsDone, Local, Locals
    <3>6. CASE \E pair \in SimPairs : OpenPosition(h, pair)
      BY <1>1, <3>6 DEF OpenPosition, At, Local, Locals
    <3>. QED BY <1>9, <3>1, <3>2, <3>3, <3>4, <3>5, <3>6
  <2>3. Balance(h) => Balance(h)'
    BY <2>1, <2>2 DEF Balance, Carries, Funds
  <2>. QED BY <2>1, <2>2, <2>3, HolderBalances
<1>. QED BY <1>3, <1>4, <1>5, <1>6, <1>7, <1>8, <1>9 DEF HandlerStep, TickStep

\* As long as nothing failed, the capital of a session is what it started with,
\* its top-ups and the P&L of its trades; during a pass, the pass carries it.
THEOREM Balanced == Spec => []CapitalBalances
<1>1. Init => CapitalBalances
  BY MoneyAssumption DEF Init, CapitalBalances, Carries, Idle, Funds
<1>2. IInv /\ CapitalBalances /\ [Next]_vars => CapitalBalances'
  <2>. SUFFICES ASSUME IInv, CapitalBalances, [Next]_vars PROVE CapitalBalances'
    OBVIOUS
  <2>1. ASSUME NEW h \in Handlers, Request(h) PROVE CapitalBalances'
    <3>1. /\ UNCHANGED <<rowVars, downs>>
          /\ \A q \in Handlers : (~ Carries(q) /\ ~ Carries(q)') \/ pass'[q] = pass[q]
      BY <2>1 DEF Request, IInv, TypeOK, Idle, Carries
    <3>. QED BY <3>1 DEF CapitalBalances, Carries, Funds, rowVars, bookVars
  <2>2. CASE Crash \/ \E h \in Handlers : DbError(h)
    <3>1. downs' = downs + 1 /\ downs \in Nat
      BY <2>2 DEF Crash, DbError, IInv, TypeOK
    <3>. QED BY <3>1 DEF CapitalBalances
  <2>3. CASE Hour \/ UNCHANGED vars
    BY <2>3 DEF Hour, vars, rowVars, bookVars, CapitalBalances, Carries, Funds
  <2>. QED BY <2>1, <2>2, <2>3, BalanceStep DEF Next
<1>. QED BY <1>1, <1>2, Invariance, PTL DEF Spec

-----------------------------------------------------------------------------
(***************************************************************************)
(* Trades.                                                                 *)
(***************************************************************************)

\* The steps that write no row of the book.
PlainStep(h) ==
    \/ TickSkip(h) \/ TickEmpty(h) \/ TickStart(h) \/ AccrueDone(h) \/ Hold(h)
    \/ ExitsDone(h) \/ TickEnd(h) \/ StopStart(h) \/ StopCapital(h) \/ StopStatus(h)
    \/ Refused(h) \/ Pause(h) \/ Resume(h) \/ TopUp(h)

\* They are not about a close either.
LEMMA PlainMoves ==
    ASSUME IInv, NEW h \in Handlers, PlainStep(h)
    PROVE  /\ Holds(h) /\ positions' = positions /\ downs' = downs
           /\ \A q \in Handlers \ {h} : pass'[q] = pass[q]
           /\ pass[h].pc # "close" /\ pass'[h].pc # "close"
<1>1. pass \in [Handlers -> Locals] /\ pass[h] \in Locals /\ Idle.pc = "idle"
  BY DEF IInv, TypeOK, Idle
<1>2. CASE \/ TickSkip(h) \/ TickEmpty(h) \/ TickEnd(h) \/ StopStatus(h)
           \/ Refused(h) \/ Pause(h) \/ Resume(h) \/ TopUp(h)
  BY <1>1, <1>2 DEF TickSkip, TickEmpty, TickEnd, StopStatus, Refused, Pause, Resume,
                    SetStatus, TopUp, Begins, At, Release, rowVars, bookVars
<1>3. CASE TickStart(h)
  <2>1. PICK pc \in {"fund", "exits"} : \E snaps, rows :
           pass' = [pass EXCEPT ![h] = [pass[h] EXCEPT !.pc = pc, !.capital = capital,
                                           !.now = clock, !.snaps = snaps, !.todo = rows]]
    BY <1>3 DEF TickStart, Local
  <2>. QED BY <1>1, <1>3, <2>1 DEF TickStart, Begins, At, Locals, rowVars, bookVars
<1>4. CASE StopStart(h)
  <2>1. PICK pc \in {"stopping", "exits"} : \E rows :
           pass' = [pass EXCEPT ![h] = [pass[h] EXCEPT !.pc = pc, !.capital = capital,
                                                       !.now = clock, !.todo = rows]]
    BY <1>4 DEF StopStart, Local
  <2>. QED BY <1>1, <1>4, <2>1 DEF StopStart, Begins, At, Locals, rowVars, bookVars
<1>5. CASE AccrueDone(h)
  <2>1. PICK rows : pass' = [pass EXCEPT ![h] = [pass[h] EXCEPT !.pc = "exits",
                                                                !.todo = rows]]
    BY <1>5 DEF AccrueDone, Local
  <2>. QED BY <1>1, <1>5, <2>1 DEF AccrueDone, At, Locals, rowVars, bookVars
<1>6. CASE Hold(h)
  <2>1. PICK i : pass' = [pass EXCEPT ![h] = [pass[h] EXCEPT !.todo = @ \ {i},
                                                             !.held = @ \cup {i}]]
    BY <1>6 DEF Hold, Local
  <2>. QED BY <1>1, <1>6, <2>1 DEF Hold, At, Locals, rowVars, bookVars
<1>7. CASE ExitsDone(h)
  BY <1>1, <1>7 DEF ExitsDone, At, Local, Locals, rowVars, bookVars
<1>8. CASE StopCapital(h)
  BY <1>1, <1>8 DEF StopCapital, At, Local, Locals
<1>. QED BY <1>2, <1>3, <1>4, <1>5, <1>6, <1>7, <1>8 DEF PlainStep

\* What the rows' trades come to for the holder of the lock.
LEMMA HolderCloses ==
    ASSUME IInv, NEW h \in Handlers, Holds(h),
           \A q \in Handlers \ {h} : pass'[q] = pass[q]
    PROVE  \A i : /\ BeingClosed(i) <=> pass[h].pc = "close" /\ pass[h].closing = i
                  /\ BeingClosed(i)' <=> pass'[h].pc = "close" /\ pass'[h].closing = i
<1>1. \A q \in Handlers : q # h => pass[q].pc # "close" /\ pass'[q].pc # "close"
  BY Alone DEF Working
<1>. QED BY <1>1 DEF BeingClosed

\* Rows that keep their trades and statuses while nothing is being closed.
LEMMA TradesKept ==
    ASSUME IInv, TradesOK, NEW h \in Handlers, Holds(h),
           \A q \in Handlers \ {h} : pass'[q] = pass[q],
           pass[h].pc # "close", pass'[h].pc # "close", downs' = downs,
           DOMAIN positions' = DOMAIN positions,
           \A i \in DOMAIN positions : /\ positions'[i].trades = positions[i].trades
                                       /\ positions'[i].status = positions[i].status
    PROVE  TradesOK'
BY HolderCloses DEF TradesOK

\* A trade is created for a row without one, and its row is closed next.
LEMMA TradesStep ==
    ASSUME IInv, TradesOK, NEW h \in Handlers, HandlerStep(h)
    PROVE  TradesOK'
<1>1. /\ pass \in [Handlers -> Locals] /\ pass[h] \in Locals
      /\ HandlerOK(h) /\ positions \in Seq(Positions)
      /\ \A i \in DOMAIN positions : positions[i] \in Positions
  BY RowIn DEF IInv, TypeOK
<1>2. CASE PlainStep(h)
  BY <1>2, PlainMoves, TradesKept
<1>3. CASE Accrue(h)
  <2>1. PICK i, due : /\ positions' = [positions EXCEPT ![i].funded = @ + due]
                      /\ pass' = [pass EXCEPT ![h] = [pass[h] EXCEPT !.todo = @ \ {i}]]
    BY <1>3 DEF Accrue, Local
  <2>2. Holds(h) /\ pass[h].pc = "fund" /\ downs' = downs
    BY <1>3 DEF Accrue, At
  <2>3. /\ pass'[h].pc = "fund" /\ \A q \in Handlers \ {h} : pass'[q] = pass[q]
    BY <1>1, <2>1, <2>2 DEF Locals
  <2>4. /\ DOMAIN positions' = DOMAIN positions
        /\ \A j \in DOMAIN positions : /\ positions'[j].trades = positions[j].trades
                                       /\ positions'[j].status = positions[j].status
    BY <1>1, <2>1 DEF Positions
  <2>. QED BY <2>2, <2>3, <2>4, TradesKept
<1>4. CASE CreateTrade(h)
  <2>. DEFINE i == Oldest(pass[h].todo)
  <2>1. /\ Holds(h) /\ pass[h].pc = "exits" /\ pass[h].todo # {} /\ downs' = downs
        /\ positions' = [positions EXCEPT ![i].trades = @ + 1]
    BY <1>4 DEF CreateTrade, At
  <2>2. i \in OpenRows /\ i \in DOMAIN positions
    BY <1>1, <2>1, OldestIn, RowIn DEF IInv, HandlerOK, RowsOK, Locals
  <2>3. /\ pass'[h].pc = "close" /\ pass'[h].closing = i
        /\ \A q \in Handlers \ {h} : pass'[q] = pass[q]
    <3>. HIDE DEF i
    <3>1. PICK pnl : pass' = [pass EXCEPT ![h] = [pass[h] EXCEPT
                                !.pc = "close", !.closing = i, !.capital = @ + pnl]]
      BY <1>4 DEF CreateTrade, Local, i
    <3>. QED BY <1>1, <3>1 DEF Locals
  <2>. HIDE DEF i
  <2>4. /\ DOMAIN positions' = DOMAIN positions
        /\ positions'[i].trades = positions[i].trades + 1
        /\ \A j \in DOMAIN positions : j # i => positions'[j] = positions[j]
        /\ \A j \in DOMAIN positions : positions'[j].status = positions[j].status
    BY <1>1, <2>1, <2>2 DEF Positions
  <2>5. downs = 0 => positions[i].trades = 0
    BY <2>1, <2>2, HolderCloses, <2>3 DEF TradesOK, OpenRows
  <2>. QED BY <2>1, <2>2, <2>3, <2>4, <2>5, HolderCloses DEF TradesOK
<1>5. CASE ClosePosition(h)
  <2>. DEFINE i == pass[h].closing
  <2>1. /\ Holds(h) /\ pass[h].pc = "close" /\ downs' = downs
        /\ positions' = [positions EXCEPT ![i] = ClosedRow(@)]
    BY <1>5 DEF ClosePosition, At
  <2>2. i \in DOMAIN positions
    BY <1>1, <2>1, RowIn DEF IInv, HandlerOK, RowsOK
  <2>3. /\ pass'[h].pc = "exits" /\ \A q \in Handlers \ {h} : pass'[q] = pass[q]
    <3>1. PICK pair : pass' = [pass EXCEPT ![h] = [pass[h] EXCEPT
                                  !.pc = "exits", !.closing = 0, !.todo = @ \ {i},
                                  !.exited = @ \cup {pair}]]
      BY <1>5 DEF ClosePosition, Local
    <3>. QED BY <1>1, <3>1 DEF Locals
  <2>4. /\ DOMAIN positions' = DOMAIN positions
        /\ positions'[i].trades = positions[i].trades /\ positions'[i].status = "CLOSED"
        /\ \A j \in DOMAIN positions : j # i => positions'[j] = positions[j]
    BY <1>1, <2>1, <2>2 DEF Positions, ClosedRow
  <2>. QED BY <2>1, <2>2, <2>3, <2>4, HolderCloses DEF TradesOK
<1>6. CASE \E pair \in SimPairs : OpenPosition(h, pair)
  <2>1. PICK pair \in SimPairs : OpenPosition(h, pair)
    BY <1>6
  <2>. DEFINE row == NewPosition(h, pair)
  <2>2. /\ Holds(h) /\ pass[h].pc = "entries" /\ downs' = downs
        /\ positions' = Append(positions, row)
    BY <2>1 DEF OpenPosition, At
  <2>3. /\ pass'[h].pc = "entries" /\ \A q \in Handlers \ {h} : pass'[q] = pass[q]
    BY <1>1, <2>1, <2>2 DEF OpenPosition, Local, Locals
  <2>4. row.trades = 0 /\ row.status = "OPEN"
    BY DEF NewPosition
  <2>. HIDE DEF row
  <2>5. /\ DOMAIN positions' = DOMAIN positions \cup {Len(positions) + 1}
        /\ Len(positions) + 1 \notin DOMAIN positions
        /\ positions'[Len(positions) + 1] = row
        /\ \A j \in DOMAIN positions : positions'[j] = positions[j]
    <3>1. row \in Positions
      BY <1>1, <2>1 DEF NewPosition, Positions, Locals, row
    <3>. QED BY <1>1, <2>2, <3>1, AppendProperties
  <2>. QED BY <2>2, <2>3, <2>4, <2>5, HolderCloses DEF TradesOK
<1>. QED BY <1>2, <1>3, <1>4, <1>5, <1>6 DEF HandlerStep, TickStep, PlainStep

\* Nothing but a close adds a trade.
LEMMA TradesAccounted == Spec => []TradesOK
<1>1. Init => TradesOK
  BY DEF Init, TradesOK
<1>2. IInv /\ TradesOK /\ [Next]_vars => TradesOK'
  <2>. SUFFICES ASSUME IInv, TradesOK, [Next]_vars PROVE TradesOK'
    OBVIOUS
  <2>1. ASSUME NEW h \in Handlers, Request(h) PROVE TradesOK'
    <3>1. /\ UNCHANGED <<rowVars, downs>>
          /\ \A q \in Handlers : (pass[q].pc # "close" /\ pass'[q].pc # "close")
                                 \/ pass'[q] = pass[q]
      BY <2>1 DEF Request, IInv, TypeOK, Idle
    <3>2. \A i : BeingClosed(i)' <=> BeingClosed(i)
      BY <3>1 DEF BeingClosed
    <3>. QED BY <3>1, <3>2 DEF TradesOK, rowVars, bookVars
  <2>2. CASE Crash \/ \E h \in Handlers : DbError(h)
    <3>1. downs' = downs + 1 /\ downs \in Nat
      BY <2>2 DEF Crash, DbError, IInv, TypeOK
    <3>. QED BY <3>1 DEF TradesOK
  <2>3. CASE Hour \/ UNCHANGED vars
    BY <2>3 DEF Hour, vars, rowVars, bookVars, TradesOK, BeingClosed
  <2>. QED BY <2>1, <2>2, <2>3, TradesStep DEF Next
<1>. QED BY <1>1, <1>2, Invariance, PTL DEF Spec

\* As long as nothing failed, no P&L is realised twice on a position and none is
\* forgotten: a closed row has one trade, an open one none, except the one whose
\* close is under way.
THEOREM Realised == Spec => []OneTradeEach
<1>1. IInv /\ TradesOK => OneTradeEach
  <2>. SUFFICES ASSUME IInv, TradesOK, downs = 0, NEW i \in DOMAIN positions
                PROVE  \/ positions[i].trades =
                             (IF positions[i].status = "CLOSED" THEN 1 ELSE 0)
                       \/ \E h \in Handlers : pass[h].closing = i /\ positions[i].trades = 1
    BY DEF OneTradeEach
  <2>. QED BY DEF TradesOK, BeingClosed
<1>. QED BY <1>1, Invariance, TradesAccounted, PTL

-----------------------------------------------------------------------------
(***************************************************************************)
(* Hours.                                                                  *)
(***************************************************************************)

\* What HoursOK comes to for the holder of the lock.
Charged(h) ==
    IF Ticking(h)
    THEN /\ \A i \in DOMAIN positions : ChargedTo(i, pass[h].now)
         /\ pass[h].pc = "fund" => \A i \in pass[h].todo : ChargedTo(i, lastTick)
    ELSE \A i \in DOMAIN positions : ChargedTo(i, lastTick)

\* Without a failure, hours are charged once if the holder sees to it.
LEMMA HolderCharges ==
    ASSUME IInv, HoursOK, NEW h \in Handlers, Holds(h),
           \A q \in Handlers \ {h} : pass'[q] = pass[q],
           downs' = downs, Charged(h) => Charged(h)'
    PROVE  HoursOK'
<1>1. \A q \in Handlers : q # h => ~ Ticking(q) /\ ~ Ticking(q)'
  BY Alone DEF Ticking
<1>2. downs = 0 => Charged(h)
  BY <1>1 DEF HoursOK, Charged
<1>3. downs' = 0 => Charged(h)'
  BY <1>2
<1>. QED BY <1>1, <1>3 DEF HoursOK, Charged

\* The integers of the hours, and their order.
LEMMA HourTypes ==
    ASSUME IInv
    PROVE  /\ lastTick \in Int /\ -1 <= lastTick /\ clock \in Nat /\ lastTick <= clock
           /\ \A i \in DOMAIN positions :
                 /\ positions[i] \in Positions
                 /\ positions[i].opened \in Nat /\ positions[i].funded \in Nat
           /\ \A h \in Handlers :
                 /\ pass[h] \in Locals /\ pass[h].now \in Nat
                 /\ Ticking(h) => lastTick <= pass[h].now /\ pass[h].now <= clock
<1>1. /\ lastTick \in Int /\ -1 <= lastTick /\ clock \in Nat /\ lastTick <= clock
  BY DEF IInv, TypeOK
<1>2. \A i \in DOMAIN positions : positions[i] \in Positions
  BY RowIn DEF IInv
<1>3. ASSUME NEW h \in Handlers
      PROVE  /\ pass[h] \in Locals /\ pass[h].now \in Nat
             /\ Ticking(h) => lastTick <= pass[h].now /\ pass[h].now <= clock
  BY DEF IInv, TypeOK, Locals, HandlerOK, TimeOK, Ticking
<1>. QED BY <1>1, <1>2, <1>3 DEF Positions

\* A row charged to an hour is charged to a later one.
LEMMA ChargedLater ==
    ASSUME IInv, NEW i \in DOMAIN positions, NEW a \in Int, NEW b \in Int, a <= b,
           ChargedTo(i, a)
    PROVE  ChargedTo(i, b)
BY HourTypes DEF ChargedTo

\* Steps of a tick or a stop after the funding charge nothing.
LEMMA ChargedOn ==
    ASSUME IInv, HoursOK, NEW h \in Handlers, Holds(h),
           \A q \in Handlers \ {h} : pass'[q] = pass[q],
           downs' = downs, lastTick' = lastTick,
           DOMAIN positions' = DOMAIN positions,
           \A i \in DOMAIN positions : /\ positions'[i].opened = positions[i].opened
                                       /\ positions'[i].funded = positions[i].funded,
           Ticking(h)' = Ticking(h), Ticking(h) => pass'[h].now = pass[h].now,
           pass'[h].pc # "fund"
    PROVE  HoursOK'
BY HolderCharges DEF Charged, ChargedTo

\* The steps that only end a pass or a request: a tick stamps the hour up to
\* which it has charged.
LEMMA ChargedEnds ==
    ASSUME IInv, HoursOK, NEW h \in Handlers,
           \/ TickSkip(h) \/ TickEmpty(h) \/ TickEnd(h) \/ StopStatus(h)
           \/ Refused(h) \/ Pause(h) \/ Resume(h) \/ TopUp(h)
    PROVE  HoursOK'
<1>1. /\ Holds(h) /\ pass' = [pass EXCEPT ![h] = Idle]
      /\ positions' = positions /\ downs' = downs
  BY DEF TickSkip, TickEmpty, TickEnd, StopStatus, Refused, Pause, Resume, SetStatus,
         TopUp, Begins, At, Release, rowVars, bookVars
<1>2. /\ pass'[h] = Idle /\ \A q \in Handlers \ {h} : pass'[q] = pass[q]
      /\ ~ Ticking(h)'
  BY <1>1 DEF IInv, TypeOK, Idle, Ticking, Working
<1>3. CASE TickEnd(h)
  <2>1. Ticking(h) /\ lastTick' = pass[h].now
    BY <1>3 DEF TickEnd, At, Stamped, Ticking, Working, IInv, HandlerOK, KindOK
  <2>2. Charged(h) => Charged(h)'
    BY <1>1, <1>2, <2>1 DEF Charged, ChargedTo
  <2>. QED BY <1>1, <1>2, <2>2, HolderCharges
<1>4. CASE TickEmpty(h)
  <2>1. ~ Ticking(h) /\ lastTick' = clock
    BY <1>4 DEF TickEmpty, Begins, At, Ticking, Working
  <2>2. Charged(h) => \A i \in DOMAIN positions : ChargedTo(i, clock)
    BY <2>1, HourTypes, ChargedLater DEF Charged
  <2>3. Charged(h) => Charged(h)'
    BY <1>1, <1>2, <2>1, <2>2 DEF Charged, ChargedTo
  <2>. QED BY <1>1, <1>2, <2>3, HolderCharges
<1>5. CASE TickSkip(h) \/ StopStatus(h) \/ Refused(h) \/ Pause(h) \/ Resume(h) \/ TopUp(h)
  <2>1. lastTick' = lastTick
    BY <1>5 DEF TickSkip, StopStatus, Refused, Pause, Resume, SetStatus, TopUp, rowVars, bookVars
  <2>2. ~ Ticking(h)
    BY <1>5 DEF TickSkip, StopStatus, Refused, Pause, Resume, SetStatus, TopUp, Begins, At,
                Ticking, Working, IInv, HandlerOK, KindOK
  <2>3. Charged(h) => Charged(h)'
    BY <1>1, <1>2, <2>1, <2>2 DEF Charged, ChargedTo
  <2>. QED BY <1>1, <1>2, <2>3, HolderCharges
<1>. QED BY <1>3, <1>4, <1>5

\* The steps of a tick's funding: what is due is due since last_tick_at.
LEMMA ChargedFunding ==
    ASSUME IInv, HoursOK, NEW h \in Handlers, TickStart(h) \/ Accrue(h)
    PROVE  HoursOK'
<1>1. pass \in [Handlers -> Locals] /\ pass[h] \in Locals /\ HandlerOK(h)
  BY DEF IInv, TypeOK
<1>2. CASE TickStart(h)
  <2>0. PICK pc \in {"fund", "exits"} : \E snaps :
           pass' = [pass EXCEPT ![h] = [pass[h] EXCEPT !.pc = pc, !.capital = capital,
                                           !.now = clock, !.snaps = snaps, !.todo = OpenRows]]
    BY <1>2 DEF TickStart, Local
  <2>1. PICK snaps :
           pass' = [pass EXCEPT ![h] = [pass[h] EXCEPT !.pc = pc, !.capital = capital,
                                           !.now = clock, !.snaps = snaps, !.todo = OpenRows]]
    BY <2>0
  <2>2. /\ Holds(h) /\ ~ Ticking(h) /\ pass[h].kind = "tick" /\ downs' = downs
        /\ positions' = positions /\ lastTick' = lastTick
    BY <1>2 DEF TickStart, Begins, At, Ticking, Working, rowVars, bookVars
  <2>. DEFINE open == OpenRows
  <2>3. open \subseteq DOMAIN positions
    BY DEF OpenRows
  <2>. HIDE DEF open
  <2>4. /\ pass'[h].pc = pc /\ pass'[h].now = clock /\ pass'[h].todo = open
        /\ pass'[h].kind = "tick"
        /\ \A q \in Handlers \ {h} : pass'[q] = pass[q]
    BY <1>1, <2>1, <2>2 DEF Locals, open
  <2>5. Charged(h) => \A i \in DOMAIN positions : ChargedTo(i, clock) /\ ChargedTo(i, lastTick)
    BY <2>2, HourTypes, ChargedLater DEF Charged
  <2>6. Ticking(h)'
    BY <2>4 DEF Ticking, Working
  <2>7. Charged(h) => Charged(h)'
    BY <2>2, <2>3, <2>4, <2>5, <2>6 DEF Charged, ChargedTo
  <2>. QED BY <2>2, <2>4, <2>7, HolderCharges
<1>3. CASE Accrue(h)
  <2>. DEFINE i == Oldest(pass[h].todo)
  <2>1. /\ Holds(h) /\ pass[h].pc = "fund" /\ pass[h].todo # {} /\ Ticking(h)
        /\ downs' = downs /\ lastTick' = lastTick
    BY <1>1, <1>3 DEF Accrue, At, Ticking, Working, HandlerOK, KindOK
  <2>2. i \in pass[h].todo /\ i \in DOMAIN positions
        /\ pass[h].todo \subseteq DOMAIN positions
    BY <1>1, <2>1, OldestIn, RowIn DEF IInv, HandlerOK, RowsOK, Locals
  <2>. HIDE DEF i
  <2>3. PICK due \in {0, Elapsed(h)} : positions' = [positions EXCEPT ![i].funded = @ + due]
    BY <1>3 DEF Accrue, i
  <2>4. pass' = [pass EXCEPT ![h] = [pass[h] EXCEPT !.todo = @ \ {i}]]
    BY <1>3 DEF Accrue, Local, i
  <2>5. /\ pass'[h].pc = "fund" /\ pass'[h].kind = pass[h].kind
        /\ pass'[h].now = pass[h].now /\ pass'[h].todo = pass[h].todo \ {i}
        /\ \A q \in Handlers \ {h} : pass'[q] = pass[q]
    BY <1>1, <2>1, <2>4 DEF Locals
  <2>6. /\ DOMAIN positions' = DOMAIN positions
        /\ positions'[i].opened = positions[i].opened
        /\ positions'[i].funded = positions[i].funded + due
        /\ \A j \in DOMAIN positions : j # i => positions'[j] = positions[j]
    BY <2>2, <2>3, HourTypes DEF Positions
  <2>7. ASSUME Charged(h) PROVE Charged(h)'
    <3>1. /\ \A j \in DOMAIN positions : ChargedTo(j, pass[h].now)
          /\ \A j \in pass[h].todo : ChargedTo(j, lastTick)
      BY <2>1, <2>7 DEF Charged
    <3>2. due = 0 \/ due = pass[h].now - lastTick
      BY <2>3 DEF Elapsed
    <3>3. /\ positions[i].opened \in Nat /\ positions[i].funded \in Nat
          /\ pass[h].now \in Nat /\ lastTick \in Int
      BY <2>2, HourTypes
    <3>4. /\ positions[i].opened <= pass[h].now
          /\ positions[i].funded <= pass[h].now - positions[i].opened
          /\ positions[i].funded <= lastTick - positions[i].opened
      BY <2>2, <3>1 DEF ChargedTo
    <3>5. positions[i].funded + due <= pass[h].now - positions[i].opened
      BY <3>2, <3>3, <3>4
    <3>6. \A j \in DOMAIN positions :
             /\ positions'[j].opened <= pass[h].now
             /\ positions'[j].funded <= pass[h].now - positions'[j].opened
      BY <2>6, <3>1, <3>4, <3>5 DEF ChargedTo
    <3>7. \A j \in pass[h].todo \ {i} :
             /\ positions'[j].opened <= lastTick
             /\ positions'[j].funded <= lastTick - positions'[j].opened
      BY <2>2, <2>6, <3>1 DEF ChargedTo
    <3>8. Ticking(h)'
      BY <2>1, <2>5 DEF Ticking, Working
    <3>9. \A j \in DOMAIN positions' : ChargedTo(j, pass[h].now)'
      BY <2>5, <2>6, <3>6 DEF ChargedTo
    <3>10. \A j \in pass'[h].todo : ChargedTo(j, lastTick)'
      BY <2>1, <2>5, <3>7 DEF ChargedTo
    <3>. QED BY <3>8, <3>9, <3>10 DEF Charged
  <2>. QED BY <2>1, <2>5, <2>7, HolderCharges
<1>. QED BY <1>2, <1>3

\* The steps after the funding.
LEMMA ChargedRest ==
    ASSUME IInv, HoursOK, NEW h \in Handlers,
           \/ AccrueDone(h) \/ Hold(h) \/ ExitsDone(h) \/ StopStart(h) \/ StopCapital(h)
           \/ CreateTrade(h) \/ ClosePosition(h)
    PROVE  HoursOK'
<1>1. /\ pass \in [Handlers -> Locals] /\ pass[h] \in Locals /\ HandlerOK(h)
      /\ positions \in Seq(Positions)
      /\ \A i \in DOMAIN positions : positions[i] \in Positions
  BY RowIn DEF IInv, TypeOK
<1>2. Holds(h) /\ downs' = downs /\ lastTick' = lastTick
  BY DEF AccrueDone, Hold, ExitsDone, StopStart, StopCapital, CreateTrade, ClosePosition,
         Begins, At, rowVars, bookVars
<1>3. /\ \A q \in Handlers \ {h} : pass'[q] = pass[q]
      /\ Ticking(h) => pass'[h].now = pass[h].now
      /\ pass'[h].pc # "fund" /\ Ticking(h)' = Ticking(h)
  <2>1. CASE AccrueDone(h)
    <3>1. PICK rows : pass' = [pass EXCEPT ![h] = [pass[h] EXCEPT !.pc = "exits",
                                                                  !.todo = rows]]
      BY <2>1 DEF AccrueDone, Local
    <3>2. pass[h].pc = "fund"
      BY <2>1 DEF AccrueDone, At
    <3>. QED BY <1>1, <3>1, <3>2 DEF Locals, Ticking, Working
  <2>2. CASE Hold(h)
    <3>1. PICK i : pass' = [pass EXCEPT ![h] = [pass[h] EXCEPT !.todo = @ \ {i},
                                                               !.held = @ \cup {i}]]
      BY <2>2 DEF Hold, Local
    <3>2. pass[h].pc = "exits"
      BY <2>2 DEF Hold, At
    <3>. QED BY <1>1, <3>1, <3>2 DEF Locals, Ticking, Working
  <2>3. CASE ExitsDone(h)
    BY <1>1, <2>3 DEF ExitsDone, At, Local, Locals, Ticking, Working
  <2>4. CASE StopStart(h)
    <3>1. PICK pc \in {"stopping", "exits"} : \E rows :
             pass' = [pass EXCEPT ![h] = [pass[h] EXCEPT !.pc = pc, !.capital = capital,
                                                         !.now = clock, !.todo = rows]]
      BY <2>4 DEF StopStart, Local
    <3>2. pass[h].kind = "stop"
      BY <2>4 DEF StopStart, Begins
    <3>. QED BY <1>1, <3>1, <3>2 DEF Locals, Ticking
  <2>5. CASE StopCapital(h)
    BY <1>1, <2>5 DEF StopCapital, At, Local, Locals, Ticking
  <2>6. CASE CreateTrade(h)
    <3>1. PICK pnl, i : pass' = [pass EXCEPT ![h] = [pass[h] EXCEPT
                                    !.pc = "close", !.closing = i, !.capital = @ + pnl]]
      BY <2>6 DEF CreateTrade, Local
    <3>2. pass[h].pc = "exits"
      BY <2>6 DEF CreateTrade, At
    <3>. QED BY <1>1, <3>1, <3>2 DEF Locals, Ticking, Working
  <2>7. CASE ClosePosition(h)
    <3>1. PICK i, pair : pass' = [pass EXCEPT ![h] = [pass[h] EXCEPT
                                     !.pc = "exits", !.closing = 0, !.todo = @ \ {i},
                                     !.exited = @ \cup {pair}]]
      BY <2>7 DEF ClosePosition, Local
    <3>2. pass[h].pc = "close"
      BY <2>7 DEF ClosePosition, At
    <3>. QED BY <1>1, <3>1, <3>2 DEF Locals, Ticking, Working
  <2>. QED BY <2>1, <2>2, <2>3, <2>4, <2>5, <2>6, <2>7
<1>4. /\ DOMAIN positions' = DOMAIN positions
      /\ \A j \in DOMAIN positions : /\ positions'[j].opened = positions[j].opened
                                     /\ positions'[j].funded = positions[j].funded
  <2>1. CASE AccrueDone(h) \/ Hold(h) \/ ExitsDone(h) \/ StopStart(h) \/ StopCapital(h)
    BY <2>1 DEF AccrueDone, Hold, ExitsDone, StopStart, StopCapital, rowVars, bookVars
  <2>2. CASE CreateTrade(h)
    <3>1. PICK i : positions' = [positions EXCEPT ![i].trades = @ + 1]
      BY <2>2 DEF CreateTrade
    <3>. QED BY <1>1, <3>1 DEF Positions
  <2>3. CASE ClosePosition(h)
    <3>1. PICK i : positions' = [positions EXCEPT ![i].status = "CLOSED"]
      BY <2>3 DEF ClosePosition, ClosedRow
    <3>. QED BY <1>1, <3>1 DEF Positions
  <2>. QED BY <2>1, <2>2, <2>3
<1>. QED BY <1>2, <1>3, <1>4, ChargedOn

\* A new row is opened at the hour of its tick.
LEMMA ChargedOpen ==
    ASSUME IInv, HoursOK, NEW h \in Handlers, NEW pair \in SimPairs, OpenPosition(h, pair)
    PROVE  HoursOK'
<1>. DEFINE row == NewPosition(h, pair)
<1>1. pass \in [Handlers -> Locals] /\ pass[h] \in Locals /\ HandlerOK(h)
  BY DEF IInv, TypeOK
<1>2. /\ Holds(h) /\ pass[h].pc = "entries" /\ Ticking(h)
      /\ downs' = downs /\ lastTick' = lastTick /\ positions' = Append(positions, row)
  BY <1>1 DEF OpenPosition, At, HandlerOK, KindOK, Ticking, Working
<1>3. /\ pass'[h].pc = "entries" /\ pass'[h].now = pass[h].now /\ Ticking(h)'
      /\ \A q \in Handlers \ {h} : pass'[q] = pass[q]
  BY <1>1, <1>2 DEF OpenPosition, Local, Locals, Ticking, Working
<1>4. /\ row \in Positions /\ row.opened = pass[h].now /\ row.funded = 0
      /\ pass[h].now \in Nat
  BY <1>1 DEF NewPosition, Positions, Locals
<1>. HIDE DEF row
<1>5. /\ DOMAIN positions' = DOMAIN positions \cup {Len(positions) + 1}
      /\ Len(positions) + 1 \notin DOMAIN positions
      /\ positions'[Len(positions) + 1] = row
      /\ \A j \in DOMAIN positions : positions'[j] = positions[j]
  BY <1>2, <1>4, AppendProperties DEF IInv, TypeOK
<1>6. Charged(h) => Charged(h)'
  BY <1>2, <1>3, <1>4, <1>5 DEF Charged, ChargedTo
<1>. QED BY <1>2, <1>3, <1>6, HolderCharges

\* As long as nothing failed, a position is never charged more hours of funding
\* than have passed since it was opened: ticks, empty ticks, skipped ones, pauses
\* and stops hand last_tick_at on without a gap or an overlap that would count
\* twice.
THEOREM Funded == Spec => []FundedOnce
<1>1. Init => HoursOK
  BY DEF Init, HoursOK, Ticking, Idle, Working
<1>2. IInv /\ HoursOK /\ [Next]_vars => HoursOK'
  <2>. SUFFICES ASSUME IInv, HoursOK, [Next]_vars PROVE HoursOK'
    OBVIOUS
  <2>1. ASSUME NEW h \in Handlers, Request(h) PROVE HoursOK'
    <3>1. PICK kind : pass' = [pass EXCEPT ![h] = [Idle EXCEPT !.kind = kind,
                                                               !.pc = "start"]]
      BY <2>1 DEF Request
    <3>2. UNCHANGED <<rowVars, downs>> /\ pass[h] = Idle
      BY <2>1 DEF Request
    <3>3. /\ pass'[h].pc = "start" /\ pass[h].pc = "idle"
          /\ \A q \in Handlers \ {h} : pass'[q] = pass[q]
      BY <3>1, <3>2 DEF IInv, TypeOK, Idle
    <3>4. ~ Ticking(h) /\ ~ Ticking(h)'
      BY <3>3 DEF Ticking, Working
    <3>5. \A q \in Handlers : Ticking(q)' <=> Ticking(q)
      BY <3>3, <3>4 DEF Ticking
    <3>6. \A q \in Handlers : Ticking(q) => pass'[q] = pass[q]
      BY <3>3, <3>4
    <3>. QED BY <3>2, <3>5, <3>6 DEF HoursOK, ChargedTo, rowVars, bookVars
  <2>2. CASE Crash \/ \E h \in Handlers : DbError(h)
    <3>1. downs' = downs + 1 /\ downs \in Nat
      BY <2>2 DEF Crash, DbError, IInv, TypeOK
    <3>. QED BY <3>1 DEF HoursOK
  <2>3. CASE Hour \/ UNCHANGED vars
    BY <2>3 DEF Hour, vars, rowVars, bookVars, HoursOK, Ticking, ChargedTo
  <2>4. ASSUME NEW h \in Handlers, HandlerStep(h) PROVE HoursOK'
    BY <2>4, ChargedEnds, ChargedFunding, ChargedRest, ChargedOpen DEF HandlerStep, TickStep
  <2>. QED BY <2>1, <2>2, <2>3, <2>4 DEF Next
<1>3. IInv /\ HoursOK => FundedOnce
  <2>. SUFFICES ASSUME IInv, HoursOK, downs = 0, NEW i \in DOMAIN positions
                PROVE  positions[i].funded <= clock - positions[i].opened
    BY DEF FundedOnce
  <2>1. CASE \E h \in Handlers : Ticking(h)
    BY <2>1, HourTypes, ChargedLater DEF HoursOK, ChargedTo
  <2>2. CASE \A h \in Handlers : ~ Ticking(h)
    BY <2>2, HourTypes, ChargedLater DEF HoursOK, ChargedTo
  <2>. QED BY <2>1, <2>2
<1>. QED BY <1>1, <1>2, <1>3, Invariance, PTL DEF Spec

-----------------------------------------------------------------------------
(***************************************************************************)
(* The scheduler's job.                                                    *)
(***************************************************************************)

\* As long as nothing failed, the scheduler has a job for the session exactly
\* while it is RUNNING.
THEOREM Scheduled == Spec => []JobMatchesStatus
<1>1. Init => JobMatchesStatus
  BY DEF Init, JobMatchesStatus
<1>2. IInv /\ JobMatchesStatus /\ [Next]_vars => JobMatchesStatus'
  <2>. SUFFICES ASSUME IInv, JobMatchesStatus, [Next]_vars PROVE JobMatchesStatus'
    OBVIOUS
  <2>1. CASE Crash \/ \E h \in Handlers : DbError(h)
    <3>1. downs' = downs + 1 /\ downs \in Nat
      BY <2>1 DEF Crash, DbError, IInv, TypeOK
    <3>. QED BY <3>1 DEF JobMatchesStatus
  <2>2. ASSUME NEW h \in Handlers, HandlerStep(h) PROVE JobMatchesStatus'
    <3>1. CASE Pause(h) \/ Resume(h) \/ StopStatus(h)
      BY <3>1 DEF Pause, Resume, SetStatus, StopStatus, Unscheduled, JobMatchesStatus
    <3>2. CASE TickStep(h)
      BY <3>2 DEF TickStep, TickSkip, TickEmpty, TickStart, Accrue, AccrueDone, Hold,
                  ExitsDone, TickEnd, OpenPosition, JobMatchesStatus, rowVars, bookVars
    <3>3. CASE \/ CreateTrade(h) \/ ClosePosition(h) \/ StopStart(h) \/ StopCapital(h)
               \/ Refused(h) \/ TopUp(h)
      BY <3>3 DEF CreateTrade, ClosePosition, StopStart, StopCapital, Refused, TopUp,
                  JobMatchesStatus, rowVars, bookVars
    <3>. QED BY <2>2, <3>1, <3>2, <3>3 DEF HandlerStep
  <2>3. CASE Hour \/ UNCHANGED vars \/ \E h \in Handlers : Request(h)
    BY <2>3 DEF Hour, vars, Request, rowVars, bookVars, JobMatchesStatus
  <2>. QED BY <2>1, <2>2, <2>3 DEF Next
<1>. QED BY <1>1, <1>2, Invariance, PTL DEF Spec

-----------------------------------------------------------------------------
(***************************************************************************)
(* The refinement: without failures a session is the abstract ledger.      *)
(***************************************************************************)

\* The open positions without a trade, and their pairs.
Untraded == {i \in OpenRows : positions[i].trades = 0}
Book == {positions[i].pair : i \in Untraded}

Unfailed == downs = 0

LInv == IInv /\ CapitalBalances /\ TradesOK /\ Unfailed

\* What the ledger does not see.
LEMMA Unseen ==
    ASSUME status' = status, topUps' = topUps, realised' = realised, Book' = Book
    PROVE  UNCHANGED Ledger!ledgerVars
BY DEF Ledger!ledgerVars, Funds, Book, Untraded

\* Rows that keep what the book depends on.
LEMMA BookKept ==
    ASSUME DOMAIN positions' = DOMAIN positions,
           \A i \in DOMAIN positions : /\ positions'[i].pair = positions[i].pair
                                       /\ positions'[i].status = positions[i].status
                                       /\ positions'[i].trades = positions[i].trades
    PROVE  Book' = Book
<1>1. Untraded' = Untraded
  BY DEF Untraded, OpenRows
<1>. QED BY <1>1 DEF Book, Untraded, OpenRows

\* The trade row of a close takes its pair off the book.
LEMMA CloseRefines ==
    ASSUME LInv, NEW h \in Handlers, CreateTrade(h)
    PROVE  \E pair \in SimPairs, pnl \in PnLs : Ledger!Close(pair, pnl)
<1>. DEFINE i == Oldest(pass[h].todo)
<1>1. /\ Holds(h) /\ pass[h].pc = "exits" /\ pass[h].todo # {} /\ status' = status
      /\ positions' = [positions EXCEPT ![i].trades = @ + 1] /\ topUps' = topUps
  BY DEF CreateTrade, At
<1>2. PICK pnl \in PnLs : realised' = realised + pnl
  BY DEF CreateTrade
<1>3. /\ pass[h] \in Locals /\ HandlerOK(h)
      /\ \A j \in DOMAIN positions : positions[j] \in Positions
  BY RowIn DEF LInv, IInv, TypeOK
<1>4. i \in OpenRows /\ i \in DOMAIN positions
  BY <1>1, <1>3, OldestIn, RowIn DEF LInv, IInv, HandlerOK, RowsOK, Locals
<1>. HIDE DEF i
<1>5. positions[i].trades = 0
  <2>1. ~ BeingClosed(i)
    BY <1>1, Alone DEF LInv, BeingClosed, Working
  <2>. QED BY <1>4, <2>1 DEF LInv, Unfailed, TradesOK, OpenRows
<1>6. /\ DOMAIN positions' = DOMAIN positions
      /\ positions'[i].trades = 1
      /\ \A j \in DOMAIN positions : j # i => positions'[j] = positions[j]
      /\ \A j \in DOMAIN positions : /\ positions'[j].status = positions[j].status
                                     /\ positions'[j].pair = positions[j].pair
  BY <1>1, <1>3, <1>4, <1>5 DEF Positions
<1>7. Untraded' = Untraded \ {i} /\ i \in Untraded
  BY <1>4, <1>5, <1>6 DEF Untraded, OpenRows
<1>8. \A j \in Untraded : positions[j].pair = positions[i].pair => j = i
  BY <1>4 DEF Untraded, LInv, IInv, WithinLimits
<1>9. /\ Book' = Book \ {positions[i].pair} /\ positions[i].pair \in Book
  <2>1. Untraded \subseteq DOMAIN positions
    BY DEF Untraded, OpenRows
  <2>2. Book' = {positions'[j].pair : j \in Untraded'}
    BY DEF Book
  <2>3. Book' = {positions[j].pair : j \in Untraded \ {i}}
    BY <1>6, <1>7, <2>1, <2>2
  <2>. QED BY <1>7, <1>8, <2>3 DEF Book
<1>10. Funds' = Funds + pnl /\ status # "STOPPED"
  BY <1>1, <1>2, <1>3, MoneyTypes DEF LInv, Funds, HandlerOK, StatusOK
<1>11. Ledger!Close(positions[i].pair, pnl)
  BY <1>1, <1>9, <1>10 DEF Ledger!Close, Book, Untraded
<1>. QED BY <1>3, <1>4, <1>11 DEF Positions

\* The status of its row is no news to the book.
LEMMA RowCloseUnseen ==
    ASSUME LInv, NEW h \in Handlers, ClosePosition(h)
    PROVE  UNCHANGED Ledger!ledgerVars
<1>. DEFINE i == pass[h].closing
<1>1. /\ Holds(h) /\ pass[h].pc = "close"
      /\ positions' = [positions EXCEPT ![i] = ClosedRow(@)]
      /\ UNCHANGED <<status, topUps, realised>>
  BY DEF ClosePosition, At
<1>2. /\ \A j \in DOMAIN positions : positions[j] \in Positions
      /\ i \in DOMAIN positions /\ HandlerOK(h)
  BY <1>1, RowIn DEF LInv, IInv, HandlerOK, RowsOK
<1>3. positions[i].trades = 1
  BY <1>1, <1>2 DEF LInv, Unfailed, TradesOK, BeingClosed
<1>4. /\ DOMAIN positions' = DOMAIN positions
      /\ positions'[i].trades = 1 /\ positions'[i].status = "CLOSED"
      /\ \A j \in DOMAIN positions : j # i => positions'[j] = positions[j]
  BY <1>1, <1>2, <1>3 DEF Positions, ClosedRow
<1>5. Untraded' = Untraded /\ i \notin Untraded /\ Untraded \subseteq DOMAIN positions
  BY <1>2, <1>3, <1>4 DEF Untraded, OpenRows
<1>6. Book' = {positions'[j].pair : j \in Untraded'}
  BY DEF Book
<1>7. Book' = Book
  BY <1>4, <1>5, <1>6 DEF Book
<1>. QED BY <1>1, <1>7, Unseen

\* A new row is one more pair on the book, within its limit and its margin: the
\* slots and the margin the tick counts cover the book.
LEMMA OpenRefines ==
    ASSUME LInv, NEW h \in Handlers, NEW pair \in SimPairs, OpenPosition(h, pair)
    PROVE  Ledger!Open(pair)
<1>. DEFINE n == Len(positions) + 1
            row == NewPosition(h, pair)
<1>1. /\ Holds(h) /\ At(h, "entries") /\ pass[h].pc = "entries"
      /\ pair \notin HeldPairs(h) /\ Cardinality(HeldPairs(h)) < MaxActive
      /\ Committed(h) + 1 <= pass[h].capital
      /\ positions' = Append(positions, row)
      /\ UNCHANGED <<status, topUps, realised>>
  BY DEF OpenPosition, At, HasSlot, HasMargin
<1>2. IInv /\ pass[h] \in Locals /\ HandlerOK(h)
  BY DEF LInv, IInv, TypeOK
<1>3. row \in Positions /\ row.pair = pair /\ row.status = "OPEN" /\ row.trades = 0
  BY <1>2 DEF NewPosition, Positions, Locals
<1>. HIDE DEF row
<1>4. /\ DOMAIN positions' = DOMAIN positions \cup {n}
      /\ n \notin DOMAIN positions /\ positions'[n] = row
      /\ \A j \in DOMAIN positions : positions'[j] = positions[j]
  BY <1>1, <1>2, <1>3, AppendProperties DEF IInv, TypeOK
<1>. HIDE DEF n
<1>5. Untraded' = Untraded \cup {n} /\ Untraded \subseteq DOMAIN positions
  BY <1>3, <1>4 DEF Untraded, OpenRows
<1>6. Book' = Book \cup {pair}
  <2>1. Book' = {positions'[j].pair : j \in Untraded'}
    BY DEF Book
  <2>. QED BY <1>3, <1>4, <1>5, <2>1 DEF Book
<1>7. Book \subseteq HeldPairs(h)
  BY <1>1, <1>2, KnownPairs DEF Book, Untraded
<1>8. /\ IsFiniteSet(HeldPairs(h)) /\ Cardinality(HeldPairs(h)) \in Nat
      /\ Committed(h) \in Nat /\ Cardinality(HeldPairs(h)) <= Committed(h)
  BY <1>1, <1>2, KnownPairs
<1>9. Cardinality(Book) <= Cardinality(HeldPairs(h)) /\ Cardinality(Book) \in Nat
  BY <1>7, <1>8, FS_Subset, FS_CardinalityType
<1>10. pass[h].capital = Funds /\ pass[h].capital \in Int
  BY <1>1, <1>2, MoneyTypes DEF LInv, Unfailed, CapitalBalances, Carries
<1>11. Cardinality(Book) < MaxActive /\ Cardinality(Book) + 1 <= Funds
  BY <1>1, <1>8, <1>9, <1>10, LimitsAssumption
<1>12. status = "RUNNING" /\ pair \notin Book /\ Funds' = Funds
  BY <1>1, <1>2, <1>7 DEF HandlerOK, KindOK, StatusOK, Working, Funds
<1>13. /\ Book = {positions[i].pair : i \in {j \in OpenRows : positions[j].trades = 0}}
       /\ Book' = {positions[i].pair : i \in {j \in OpenRows : positions[j].trades = 0}}'
  BY Zenon DEF Book, Untraded
<1>14. Ledger!Cardinality(Book) = Cardinality(Book)
  BY Zenon DEF Ledger!Cardinality, Cardinality
<1>. HIDE DEF Book
<1>. QED BY <1>1, <1>6, <1>11, <1>12, <1>13, <1>14 DEF Ledger!Open

\* Pause, resume and stop are the ledger's controls; a second stop is nothing.
LEMMA ControlRefines ==
    ASSUME LInv, NEW h \in Handlers, Pause(h) \/ Resume(h) \/ TopUp(h) \/ StopStatus(h)
    PROVE  Ledger!Control \/ Ledger!Deposit \/ UNCHANGED Ledger!ledgerVars
<1>1. positions' = positions /\ realised' = realised /\ Book' = Book
  BY DEF Pause, Resume, SetStatus, TopUp, StopStatus, Book, Untraded, OpenRows
<1>2. CASE TopUp(h)
  <2>1. Funds' = Funds + 1 /\ status' = status /\ status # "STOPPED"
    BY <1>1, <1>2, MoneyTypes DEF LInv, TopUp, Terminal, Funds
  <2>. QED BY <1>1, <2>1 DEF Ledger!Deposit, Book, Untraded
<1>3. CASE Pause(h) \/ Resume(h)
  <2>1. Funds' = Funds /\ status # "STOPPED" /\ status' \in {"RUNNING", "PAUSED"}
    BY <1>1, <1>3 DEF Pause, Resume, SetStatus, Terminal, Funds
  <2>. QED BY <1>1, <2>1 DEF Ledger!Control, Book, Untraded
<1>4. CASE StopStatus(h)
  <2>1. Funds' = Funds /\ status' = "STOPPED" /\ Book = {} /\ topUps' = topUps
    BY <1>1, <1>4 DEF LInv, IInv, HandlerOK, StatusOK, StopStatus, At, Funds, Book, Untraded
  <2>2. CASE status = "STOPPED"
    BY <1>1, <2>1, <2>2, Unseen
  <2>3. CASE status # "STOPPED"
    BY <1>1, <2>1, <2>3 DEF Ledger!Control, Book, Untraded
  <2>. QED BY <2>2, <2>3
<1>. QED BY <1>2, <1>3, <1>4

\* Nothing else concerns the ledger: not what a pass writes back at its end, nor
\* the hours it charges.
LEMMA OthersUnseen ==
    ASSUME LInv, NEW h \in Handlers,
           \/ TickSkip(h) \/ TickEmpty(h) \/ TickStart(h) \/ Accrue(h) \/ AccrueDone(h)
           \/ Hold(h) \/ ExitsDone(h) \/ TickEnd(h) \/ StopStart(h) \/ StopCapital(h)
           \/ Refused(h) \/ Request(h)
    PROVE  UNCHANGED Ledger!ledgerVars
<1>1. UNCHANGED <<status, topUps, realised>>
  BY DEF TickSkip, TickEmpty, TickStart, Accrue, AccrueDone, Hold, ExitsDone, TickEnd,
         StopStart, StopCapital, Refused, Request, rowVars, bookVars
<1>2. CASE Accrue(h)
  <2>1. PICK i, due : positions' = [positions EXCEPT ![i].funded = @ + due]
    BY <1>2 DEF Accrue
  <2>2. \A j \in DOMAIN positions : positions[j] \in Positions
    BY RowIn DEF LInv, IInv
  <2>3. /\ DOMAIN positions' = DOMAIN positions
        /\ \A j \in DOMAIN positions : /\ positions'[j].pair = positions[j].pair
                                       /\ positions'[j].status = positions[j].status
                                       /\ positions'[j].trades = positions[j].trades
    BY <2>1, <2>2 DEF Positions
  <2>. QED BY <1>1, <2>3, BookKept, Unseen
<1>3. CASE ~ Accrue(h)
  <2>1. positions' = positions
    BY <1>3 DEF TickSkip, TickEmpty, TickStart, AccrueDone, Hold, ExitsDone, TickEnd,
                StopStart, StopCapital, Refused, Request, rowVars, bookVars
  <2>. QED BY <1>1, <2>1, BookKept, Unseen
<1>. QED BY <1>2, <1>3

\* Without failures a session implements the abstract ledger: its fund changes
\* only by deposits and by the P&L of a close, its book stays within the limit
\* and the margin the fund covers at that moment, and STOPPED is final, although
\* a tick works on the capital it loaded at its start and writes its rows one by
\* one.
THEOREM Implements ==
    ASSUME Faults = {}
    PROVE  Spec => ImplementsLedger
<1>1. Init => LInv /\ Ledger!Init
  <2>1. Init => IInv
    BY InitInv
  <2>2. Init => /\ CapitalBalances /\ TradesOK /\ Unfailed
                /\ status = "RUNNING" /\ Funds = Starting /\ positions = <<>>
    BY MoneyAssumption DEF Init, CapitalBalances, Carries, Idle, Funds, TradesOK, Unfailed
  <2>3. positions = <<>> => Book = {}
    BY DEF Book, Untraded, OpenRows
  <2>. QED BY <2>1, <2>2, <2>3 DEF LInv, Ledger!Init, Book, Untraded
<1>2. LInv /\ [Next]_vars => [Ledger!Next]_(Ledger!ledgerVars)
  <2>. SUFFICES ASSUME LInv, [Next]_vars
                PROVE  Ledger!Next \/ UNCHANGED Ledger!ledgerVars
    OBVIOUS
  <2>1. ASSUME NEW h \in Handlers, HandlerStep(h) \/ Request(h)
        PROVE  Ledger!Next \/ UNCHANGED Ledger!ledgerVars
    BY <2>1, CloseRefines, RowCloseUnseen, OpenRefines, ControlRefines, OthersUnseen
       DEF HandlerStep, TickStep, Ledger!Next
  <2>2. ~ Crash /\ \A h \in Handlers : ~ DbError(h)
    BY DEF Crash, DbError
  <2>3. CASE Hour \/ UNCHANGED vars
    <3>1. UNCHANGED <<status, topUps, realised, positions>>
      BY <2>3 DEF Hour, vars, rowVars, bookVars
    <3>. QED BY <3>1, BookKept, Unseen
  <2>. QED BY <2>1, <2>2, <2>3 DEF Next
<1>3. Unfailed /\ [Next]_vars => Unfailed'
  <2>. SUFFICES ASSUME downs = 0, [Next]_vars PROVE downs' = 0
    BY DEF Unfailed
  <2>1. ~ Crash /\ \A h \in Handlers : ~ DbError(h)
    BY DEF Crash, DbError
  <2>2. ASSUME NEW h \in Handlers, HandlerStep(h) PROVE downs' = downs
    BY <2>2 DEF HandlerStep, TickStep, TickSkip, TickEmpty, TickStart, Accrue, AccrueDone,
                Hold, ExitsDone, TickEnd, OpenPosition, CreateTrade, ClosePosition,
                StopStart, StopCapital, StopStatus, Refused, Pause, Resume, SetStatus, TopUp
  <2>. QED BY <2>1, <2>2 DEF Next, Request, Hour, vars
<1>4. Spec => []Unfailed
  BY <1>1, <1>3, PTL DEF Spec, LInv
<1>5. Spec => []LInv
  BY <1>4, Invariance, Balanced, TradesAccounted, PTL DEF LInv
<1>. QED BY <1>1, <1>2, <1>5, PTL DEF Spec, ImplementsLedger, Ledger!Spec
=============================================================================
