--------------------------- MODULE CampaignProofs ---------------------------
(***************************************************************************)
(* Proofs about Campaign and the engine it is composed with, for any       *)
(* strategies, windows, campaigns, faults and number of requests. What is  *)
(* said of the cost flags needs the hypothesis that there is one campaign. *)
(***************************************************************************)
EXTENDS Campaign, TLAPS, SequenceTheorems, FiniteSetTheorems

\* The windows before a cursor, in order.
Prefix(n) == [i \in 1..n |-> i - 1]

\* A row has the windows before its cursor.
RowOK(s) ==
    /\ recorded[s] = Prefix(processed[s])
    /\ status[s] = "COMPLETED" => processed[s] = Windows
    /\ status[s] = "DELETED" => processed[s] = 0

\* The sweep has taken its row over, and nobody else writes its cursor.
Owning == {"clear", "load", "boundary", "scan", "checkpoint", "final"}

SweepOK(s) ==
    /\ ~ At(s, "idle") <=> s \in running
    /\ sweep[s].pc \in {"init", "clear", "load", "boundary", "scan", "final"} =>
          sweep[s].windows = Prefix(sweep[s].next)
    /\ At(s, "checkpoint") => sweep[s].windows = Prefix(sweep[s].next + 1)
    /\ sweep[s].pc \in {"scan", "checkpoint"} => sweep[s].next < Windows
    /\ At(s, "clear") => sweep[s].next = 0
    /\ At(s, "final") /\ sweep[s].terminal = "COMPLETED" => sweep[s].next = Windows
    /\ sweep[s].pc \in Owning => status[s] # "COMPLETED"
    /\ sweep[s].pc \in Owning /\ Exists(s) => processed[s] = sweep[s].next
    /\ At(s, "init") /\ Exists(s) /\ ~ Fresh(s) => processed[s] = sweep[s].next

\* A row is RUNNING only under a sweep that will write its end.
StatusOK(s) ==
    downs = 0 /\ status[s] = "RUNNING" => sweep[s].pc \in Owning \cup {"failing"}

EngineOK(s) == RowOK(s) /\ SweepOK(s) /\ StatusOK(s)

NonePending(c) == \A s \in Members(c) : status[s] # "PENDING"

\* A driver puts back only its own members, and not after it has decided; its
\* sweeps run while it waits for them.
DriverOK(c) ==
    /\ \A stale \in driver[c].stale : CampaignOf[stale[1]] = c
    /\ driver[c].pc \in {"list", "normalise", "queue"} => campaign[c] # "DONE"
    /\ DriverAt(c, "finalise") /\ driver[c].verdict = "DONE" => NonePending(c)
    /\ campaign[c] = "DONE" => NonePending(c)
    /\ Launched(c) # {} => DriverAt(c, "queue")
    /\ downs = 0 /\ driver[c].pc \in {"end", "idle"} => campaign[c] # "RUNNING"

IInv ==
    /\ TypeOK
    /\ \A s \in Strategies : EngineOK(s)
    /\ \A c \in Campaigns : DriverOK(c)

\* Between Begin and DriverEnd the flags are the campaign's, if it is the only one.
Driving == {"mark", "list", "normalise", "queue", "finalise", "excepted", "end"}

\* (Two of them restore each other's flags: the run campaign_flags.)
SoleCampaign == \A c, d \in Campaigns : c = d

FlagsOK ==
    /\ \A c \in Campaigns :
          /\ driver[c].pc \in Driving => flags = c
          /\ downs = 0 =>
                IF driver[c].pc \in Driving THEN driver[c].saved = Nobody ELSE flags = Nobody
    /\ HonestCosts

\* The batches inserted for a window of s.
Batches(s, w) ==
    IF w < processed[s] \/ (Exists(s) /\ At(s, "checkpoint") /\ w = sweep[s].next)
    THEN 1 ELSE 0

BlotterOK(s) ==
    downs = 0 /\ ~ At(s, "clear") => \A w \in Indices : blotter[s][w] = Batches(s, w)

-----------------------------------------------------------------------------
(***************************************************************************)
(* The windows before a cursor.                                            *)
(***************************************************************************)

\* The first n windows in order are a sequence of length n.
LEMMA PrefixIsSeq ==
    ASSUME NEW n \in 0..Windows
    PROVE  Prefix(n) \in Seq(Indices) /\ Len(Prefix(n)) = n
<1>1. n \in Nat /\ Windows \in Nat
  BY WindowsAssumption
<1>2. \A i \in 1..n : i - 1 \in Indices
  BY <1>1 DEF Indices
<1>3. Prefix(n) \in [1..n -> Indices]
  BY <1>2 DEF Prefix
<1>. QED BY <1>1, <1>3, SeqDef, LenProperties

\* No window is the empty sequence.
LEMMA PrefixOfNone == Prefix(0) = <<>>
<1>1. Prefix(0) \in Seq(Indices) /\ Len(Prefix(0)) = 0
  BY PrefixIsSeq, WindowsAssumption
<1>. QED BY <1>1, EmptySeq

\* The next window makes the next prefix.
LEMMA PrefixAppended ==
    ASSUME NEW n \in Indices
    PROVE  Append(Prefix(n), n) = Prefix(n + 1)
<1>1. n \in Nat /\ n \in 0..Windows /\ n + 1 \in 0..Windows
  BY WindowsAssumption DEF Indices
<1>2. Prefix(n) \in Seq(Indices) /\ Len(Prefix(n)) = n
  BY <1>1, PrefixIsSeq
<1>3. Prefix(n + 1) \in Seq(Indices) /\ Len(Prefix(n + 1)) = n + 1
  BY <1>1, PrefixIsSeq
<1>. DEFINE longer == Append(Prefix(n), n)
<1>4. /\ longer \in Seq(Indices)
      /\ Len(longer) = n + 1
      /\ \A i \in 1..n : longer[i] = Prefix(n)[i]
      /\ longer[n + 1] = n
  BY <1>2, AppendProperties
<1>5. \A i \in 1..n : Prefix(n)[i] = i - 1
  BY DEF Prefix
<1>6. \A i \in 1..(n + 1) : Prefix(n + 1)[i] = i - 1
  BY DEF Prefix
<1>7. ASSUME NEW i \in 1..(n + 1) PROVE longer[i] = Prefix(n + 1)[i]
  <2>. HIDE DEF longer
  <2>1. CASE i = n + 1
    BY <2>1, <1>1, <1>4, <1>6
  <2>2. CASE i # n + 1
    BY <2>2, <1>1, <1>4, <1>5, <1>6
  <2>. QED BY <2>1, <2>2
<1>. HIDE DEF longer
<1>8. longer = Prefix(n + 1)
  BY <1>3, <1>4, <1>7, SeqEqual
<1>. QED BY <1>8 DEF longer

-----------------------------------------------------------------------------
(***************************************************************************)
(* The locals of a sweep, as its steps change them.                        *)
(***************************************************************************)

Places == {"idle", "read", "init", "clear", "load", "boundary", "scan",
           "checkpoint", "final", "ranks", "failing", "end"}

\* The locals of a sweep that does not run are well formed.
LEMMA Rested == Resting \in Sweeps /\ Resting.pc = "idle" /\ Resting.by = Nobody
BY LaunchersAssumption, WindowsAssumption, EmptySeq DEF Resting, Sweeps

\* The locals of a sweep that has just been claimed are well formed.
LEMMA Claimed ==
    ASSUME NEW by \in Launchers
    PROVE  LET new == [Resting EXCEPT !.pc = "read", !.by = by]
           IN  new \in Sweeps /\ new.pc = "read" /\ new.by = by
<1>1. ASSUME NEW r \in Sweeps
      PROVE  LET new == [r EXCEPT !.pc = "read", !.by = by]
             IN  new \in Sweeps /\ new.pc = "read" /\ new.by = by
  BY DEF Sweeps
<1>. QED BY <1>1, Rested

-----------------------------------------------------------------------------
(***************************************************************************)
(* The steps of the engine.                                                *)
(***************************************************************************)

Sound == EngineTypeOK /\ \A s \in Strategies : EngineOK(s)

\* What the campaigns rely on: no strategy becomes PENDING and no sweep is launched.
Calm ==
    /\ \A s \in Strategies : status'[s] = "PENDING" => status[s] = "PENDING"
    /\ \A s \in Strategies : sweep'[s].by \in {sweep[s].by, Nobody}
    /\ downs' = 0 => downs = 0

\* A row and a sweep that a step leaves alone stay sound.
LEMMA Untouched ==
    ASSUME NEW s \in Strategies, EngineOK(s), sweep'[s] = sweep[s],
           status'[s] = status[s], processed'[s] = processed[s],
           recorded'[s] = recorded[s], s \in running' <=> s \in running,
           downs' = 0 => downs = 0
    PROVE  EngineOK(s)'
<1>1. RowOK(s)'
  BY DEF EngineOK, RowOK
<1>2. SweepOK(s)'
  BY DEF EngineOK, SweepOK, At, Exists, Fresh
<1>3. StatusOK(s)'
  BY DEF EngineOK, StatusOK
<1>. QED BY <1>1, <1>2, <1>3 DEF EngineOK

\* Only the sweep of s moves.
LEMMA OneSweep ==
    ASSUME Sound, NEW s \in Strategies, NEW r \in Sweeps, Continue(s, r),
           r.by \in {sweep[s].by, Nobody}
    PROVE  /\ sweep' \in [Strategies -> Sweeps] /\ sweep'[s] = r
           /\ \A t \in Strategies \ {s} : sweep'[t] = sweep[t]
           /\ \A t \in Strategies : sweep'[t].by \in {sweep[t].by, Nobody}
BY DEF Sound, EngineTypeOK, Continue

\* A step that moves the sweep of s and leaves the rows, the flags and the
\* claims alone is sound when it is sound for s.
LEMMA OnlySweep ==
    ASSUME Sound, NEW s \in Strategies, NEW r \in Sweeps, Continue(s, r),
           r.by = sweep[s].by, SweepOK(s)', StatusOK(s)',
           UNCHANGED <<rowVars, control, running, asked, flags, calls>>,
           downs' \in {downs, downs + 1}
    PROVE  Sound' /\ Calm
<1>0. downs \in Nat
  BY DEF Sound, EngineTypeOK
<1>1. downs' \in Nat /\ (downs' = 0 => downs = 0)
  BY <1>0
<1>2. /\ sweep' \in [Strategies -> Sweeps] /\ sweep'[s] = r
      /\ \A t \in Strategies \ {s} : sweep'[t] = sweep[t]
      /\ \A t \in Strategies : sweep'[t].by \in {sweep[t].by, Nobody}
  BY OneSweep
<1>3. EngineTypeOK'
  BY <1>1, <1>2 DEF Sound, EngineTypeOK, rowVars
<1>4. ASSUME NEW t \in Strategies PROVE EngineOK(t)'
  <2>1. CASE t = s
    BY <2>1 DEF Sound, EngineOK, RowOK, rowVars
  <2>2. CASE t # s
    BY <2>2, <1>1, <1>2, Untouched DEF Sound, rowVars
  <2>. QED BY <2>1, <2>2
<1>5. Calm
  BY <1>1, <1>2 DEF Calm, rowVars
<1>. QED BY <1>3, <1>4, <1>5 DEF Sound

\* Reading the row: resume at its cursor, or begin afresh.
LEMMA ReadRowSound ==
    ASSUME Sound, NEW s \in Strategies, ReadRow(s)
    PROVE  Sound' /\ Calm
<1>. DEFINE pc == CASE status[s] = "DELETED" -> "failing"
                    [] status[s] = "RUNNING" -> "end"
                    [] OTHER -> "init"
            next == IF Resuming(s) THEN processed[s] ELSE 0
            windows == IF Resuming(s) THEN recorded[s] ELSE <<>>
<1>1. /\ sweep[s] \in Sweeps /\ processed[s] \in 0..Windows
      /\ recorded[s] \in Seq(Indices) /\ recorded[s] = Prefix(processed[s])
      /\ 0 \in 0..Windows /\ <<>> \in Seq(Indices)
  BY WindowsAssumption, EmptySeq DEF Sound, EngineTypeOK, EngineOK, RowOK
<1>2. next \in 0..Windows /\ windows \in Seq(Indices) /\ windows = Prefix(next)
  BY <1>1, PrefixOfNone
<1>3. pc \in Places /\ pc \in {"failing", "end", "init"}
  BY DEF Places
<1>4. Exists(s) /\ next # 0 => processed[s] = next
  OBVIOUS
<1>5. Continue(s, [sweep[s] EXCEPT !.pc = pc, !.next = next, !.windows = windows])
  BY DEF ReadRow
<1>6. status[s] = "RUNNING" => pc = "end"
  OBVIOUS
<1>7. status[s] # "RUNNING" \/ downs # 0
  BY DEF ReadRow, At, Sound, EngineOK, StatusOK, Owning
<1>. HIDE DEF pc, next, windows
<1>. DEFINE r == [sweep[s] EXCEPT !.pc = pc, !.next = next, !.windows = windows]
<1>8. /\ r \in Sweeps /\ r.pc = pc /\ r.by = sweep[s].by /\ r.next = next
      /\ r.windows = windows
  BY <1>1, <1>2, <1>3 DEF Sweeps, Places
<1>9. Continue(s, r)
  BY <1>5
<1>. HIDE DEF r
<1>10. sweep'[s] = r
  BY <1>8, <1>9, OneSweep
<1>11. s \in running /\ running' = running /\ UNCHANGED rowVars /\ downs' = downs
  BY DEF ReadRow, Sound, EngineOK, SweepOK, At
<1>12. SweepOK(s)'
  BY <1>2, <1>3, <1>4, <1>8, <1>10, <1>11 DEF SweepOK, At, Owning, Exists, Fresh, rowVars
<1>13. StatusOK(s)'
  BY <1>7, <1>11 DEF StatusOK, rowVars
<1>14. UNCHANGED <<rowVars, control, running, asked, flags, calls>>
  BY DEF ReadRow
<1>. QED BY <1>8, <1>9, <1>11, <1>12, <1>13, <1>14, OnlySweep

\* The windows are at hand, or the cursor is past the last one.
LEMMA LoadSound ==
    ASSUME Sound, NEW s \in Strategies, Load(s)
    PROVE  Sound' /\ Calm
<1>. DEFINE pc == IF sweep[s].next < Windows THEN "boundary" ELSE "failing"
<1>1. sweep[s] \in Sweeps /\ flags \in Launchers
  BY DEF Sound, EngineTypeOK
<1>2. pc \in Places /\ pc \in {"boundary", "failing"}
  BY DEF Places
<1>3. Continue(s, [sweep[s] EXCEPT !.pc = pc, !.costs = flags])
  BY DEF Load
<1>. HIDE DEF pc
<1>. DEFINE r == [sweep[s] EXCEPT !.pc = pc, !.costs = flags]
<1>4. /\ r \in Sweeps /\ r.pc = pc /\ r.by = sweep[s].by /\ r.next = sweep[s].next
      /\ r.windows = sweep[s].windows
  BY <1>1, <1>2 DEF Sweeps, Places
<1>5. Continue(s, r)
  BY <1>3
<1>. HIDE DEF r
<1>6. sweep'[s] = r
  BY <1>4, <1>5, OneSweep
<1>7. running' = running /\ UNCHANGED rowVars /\ downs' = downs
  BY DEF Load
<1>8. SweepOK(s) /\ sweep[s].pc = "load"
  BY DEF Load, At, Sound, EngineOK
<1>9. SweepOK(s)'
  BY <1>2, <1>4, <1>6, <1>7, <1>8 DEF SweepOK, At, Owning, Exists, Fresh, rowVars
<1>10. StatusOK(s)'
  BY <1>2, <1>4, <1>6 DEF StatusOK, Owning
<1>11. UNCHANGED <<rowVars, control, running, asked, flags, calls>>
  BY DEF Load
<1>. QED BY <1>4, <1>5, <1>7, <1>9, <1>10, <1>11, OnlySweep

\* To the end of the sweep, with the status a pause or a stop asks for or none.
LEMMA TurnedToEnd ==
    ASSUME Sound, NEW s \in Strategies, sweep[s].pc \in {"boundary", "scan"},
           \/ /\ sweep[s].next = Windows
              /\ Continue(s, [sweep[s] EXCEPT !.pc = "final"])
           \/ /\ control[s] # "none"
              /\ Continue(s, [sweep[s] EXCEPT !.pc = "final", !.terminal = Ended(control[s])]),
           UNCHANGED <<rowVars, control, running, asked, flags, calls, downs>>
    PROVE  Sound' /\ Calm
<1>1. sweep[s] \in Sweeps /\ EngineOK(s)
  BY DEF Sound, EngineTypeOK
<1>2. PICK terminal \in {"COMPLETED", "PAUSED", "STOPPED"} :
          /\ Continue(s, [sweep[s] EXCEPT !.pc = "final", !.terminal = terminal])
          /\ terminal = "COMPLETED" => sweep[s].next = Windows
  <2>1. CASE /\ sweep[s].next = Windows
             /\ Continue(s, [sweep[s] EXCEPT !.pc = "final"])
    <3>1. [sweep[s] EXCEPT !.pc = "final"]
             = [sweep[s] EXCEPT !.pc = "final", !.terminal = sweep[s].terminal]
      BY <1>1 DEF Sweeps
    <3>2. sweep[s].terminal \in {"COMPLETED", "PAUSED", "STOPPED"}
      BY <1>1 DEF Sweeps
    <3>. QED BY <2>1, <3>1, <3>2
  <2>2. CASE /\ control[s] # "none"
             /\ Continue(s, [sweep[s] EXCEPT !.pc = "final", !.terminal = Ended(control[s])])
    <3>1. Ended(control[s]) \in {"PAUSED", "STOPPED"}
      BY DEF Ended
    <3>. QED BY <2>2, <3>1
  <2>. QED BY <2>1, <2>2
<1>. DEFINE r == [sweep[s] EXCEPT !.pc = "final", !.terminal = terminal]
<1>3. /\ r \in Sweeps /\ r.pc = "final" /\ r.by = sweep[s].by /\ r.next = sweep[s].next
      /\ r.windows = sweep[s].windows /\ r.terminal = terminal
  BY <1>1 DEF Sweeps
<1>4. Continue(s, r)
  BY <1>2
<1>. HIDE DEF r
<1>5. sweep'[s] = r
  BY <1>3, <1>4, OneSweep
<1>6. SweepOK(s)'
  BY <1>1, <1>2, <1>3, <1>5 DEF EngineOK, SweepOK, At, Owning, Exists, Fresh, rowVars
<1>7. StatusOK(s)'
  BY <1>3, <1>5 DEF StatusOK, Owning
<1>8. downs' = downs /\ UNCHANGED <<rowVars, control, running, asked, flags, calls>>
  OBVIOUS
<1>. QED BY <1>3, <1>4, <1>6, <1>7, <1>8, OnlySweep

\* The control flags are looked at between two windows.
LEMMA BoundarySound ==
    ASSUME Sound, NEW s \in Strategies, Boundary(s)
    PROVE  Sound' /\ Calm
<1>1. sweep[s] \in Sweeps /\ EngineOK(s) /\ sweep[s].pc = "boundary"
  BY DEF Sound, EngineTypeOK, Boundary, At
<1>2. CASE ~ Continue(s, [sweep[s] EXCEPT !.pc = "scan"])
  BY <1>1, <1>2, TurnedToEnd DEF Boundary
<1>3. CASE /\ sweep[s].next # Windows
           /\ Continue(s, [sweep[s] EXCEPT !.pc = "scan"])
  <2>. DEFINE r == [sweep[s] EXCEPT !.pc = "scan"]
  <2>1. /\ r \in Sweeps /\ r.pc = "scan" /\ r.by = sweep[s].by /\ r.next = sweep[s].next
        /\ r.windows = sweep[s].windows
    BY <1>1 DEF Sweeps
  <2>2. Continue(s, r)
    BY <1>3
  <2>. HIDE DEF r
  <2>3. sweep'[s] = r
    BY <2>1, <2>2, OneSweep
  <2>4. sweep[s].next < Windows
    BY <1>1, <1>3, WindowsAssumption DEF Sweeps
  <2>5. UNCHANGED <<rowVars, control, running, asked, flags, calls, downs>>
    BY DEF Boundary
  <2>6. SweepOK(s)'
    BY <1>1, <2>1, <2>3, <2>4, <2>5 DEF EngineOK, SweepOK, At, Owning, Exists, Fresh, rowVars
  <2>7. StatusOK(s)'
    BY <2>1, <2>3 DEF StatusOK, Owning
  <2>. QED BY <2>1, <2>2, <2>5, <2>6, <2>7, OnlySweep
<1>4. CASE /\ sweep[s].next = Windows
           /\ Continue(s, [sweep[s] EXCEPT !.pc = "final"])
  BY <1>1, <1>4, TurnedToEnd DEF Boundary
<1>. QED BY <1>2, <1>3, <1>4 DEF Boundary

\* An order inside a window ends the sweep at its cursor.
LEMMA AbortWindowSound ==
    ASSUME Sound, NEW s \in Strategies, AbortWindow(s)
    PROVE  Sound' /\ Calm
BY TurnedToEnd DEF AbortWindow, At

\* A window over a row that is gone inserts nothing.
LEMMA TradeForNobodySound ==
    ASSUME Sound, NEW s \in Strategies, TradeForNobody(s)
    PROVE  Sound' /\ Calm
<1>1. /\ sweep[s] \in Sweeps /\ EngineOK(s) /\ sweep[s].pc = "scan"
      /\ status[s] = "DELETED"
  BY DEF Sound, EngineTypeOK, TradeForNobody, At, Exists
<1>2. PICK pc \in {"failing", "checkpoint"} :
         Continue(s, [sweep[s] EXCEPT !.pc = pc,
                                      !.windows = Append(sweep[s].windows, sweep[s].next)])
  BY DEF TradeForNobody
<1>3. /\ sweep[s].windows = Prefix(sweep[s].next) /\ sweep[s].next \in Indices
      /\ sweep[s].next \in Int
  BY <1>1, WindowsAssumption DEF EngineOK, SweepOK, Sweeps, Indices, At
<1>. DEFINE windows == Append(sweep[s].windows, sweep[s].next)
<1>4. windows = Prefix(sweep[s].next + 1) /\ windows \in Seq(Indices)
  <2>1. sweep[s].next + 1 \in 0..Windows
    BY <1>3, WindowsAssumption DEF Indices
  <2>. QED BY <1>3, <2>1, PrefixAppended, PrefixIsSeq
<1>5. Continue(s, [sweep[s] EXCEPT !.pc = pc, !.windows = windows])
  BY <1>2
<1>. HIDE DEF windows
<1>. DEFINE r == [sweep[s] EXCEPT !.pc = pc, !.windows = windows]
<1>6. /\ r \in Sweeps /\ r.pc = pc /\ r.by = sweep[s].by /\ r.next = sweep[s].next
      /\ r.windows = windows
  BY <1>1, <1>4 DEF Sweeps
<1>7. Continue(s, r)
  BY <1>5
<1>. HIDE DEF r
<1>8. sweep'[s] = r
  BY <1>6, <1>7, OneSweep
<1>9. UNCHANGED <<rowVars, control, running, asked, flags, calls, downs>>
  BY DEF TradeForNobody
<1>10. SweepOK(s)'
  BY <1>1, <1>4, <1>6, <1>8, <1>9 DEF EngineOK, SweepOK, At, Owning, Exists, Fresh, rowVars
<1>11. StatusOK(s)'
  BY <1>1, <1>9 DEF StatusOK, rowVars
<1>. QED BY <1>6, <1>7, <1>9, <1>10, <1>11, OnlySweep

\* An exception sends the sweep to the write of FAILED.
LEMMA SweepErrorSound ==
    ASSUME Sound, NEW s \in Strategies, SweepError(s)
    PROVE  Sound' /\ Calm
<1>. DEFINE pc == IF sweep[s].pc = "failing" THEN "end" ELSE "failing"
            r == [sweep[s] EXCEPT !.pc = pc]
<1>1. /\ sweep[s] \in Sweeps /\ EngineOK(s) /\ ~ At(s, "idle") /\ downs \in Nat
      /\ downs' = downs + 1
  BY DEF Sound, EngineTypeOK, SweepError
<1>2. r \in Sweeps /\ r.pc \in {"failing", "end"} /\ r.by = sweep[s].by
  BY <1>1 DEF Sweeps
<1>3. Continue(s, r)
  <2>1. r = [sweep[s] EXCEPT !.pc = IF @ = "failing" THEN "end" ELSE "failing"]
    OBVIOUS
  <2>. QED BY <2>1 DEF SweepError
<1>. HIDE DEF r
<1>4. sweep'[s] = r
  BY <1>2, <1>3, OneSweep
<1>5. UNCHANGED <<rowVars, control, running, asked, flags, calls>>
  BY DEF SweepError
<1>6. SweepOK(s)'
  BY <1>1, <1>2, <1>4, <1>5 DEF EngineOK, SweepOK, At, Owning
<1>7. StatusOK(s)'
  BY <1>1 DEF StatusOK
<1>. QED BY <1>1, <1>2, <1>3, <1>5, <1>6, <1>7, OnlySweep

\* A step that also writes the row of s, and makes nothing PENDING.
LEMMA OneRow ==
    ASSUME Sound, NEW s \in Strategies,
           NEW new \in Statuses \cup {"DELETED"}, new # "PENDING" \/ new = status[s],
           NEW cursor \in 0..Windows, NEW windows \in Seq(Indices),
           status' = [status EXCEPT ![s] = new],
           processed' = [processed EXCEPT ![s] = cursor],
           recorded' = [recorded EXCEPT ![s] = windows],
           NEW r \in Sweeps, Continue(s, r), r.by = sweep[s].by, r.pc # "idle",
           sweep[s].pc # "idle",
           UNCHANGED <<blotter, control, running, asked, flags, calls, downs>>,
           new = "COMPLETED" => cursor = Windows,
           new = "DELETED" => cursor = 0,
           windows = Prefix(cursor),
           SweepOK(s)', StatusOK(s)'
    PROVE  Sound' /\ Calm
<1>1. /\ status \in [Strategies -> Statuses \cup {"DELETED"}]
      /\ processed \in [Strategies -> 0..Windows]
      /\ recorded \in [Strategies -> Seq(Indices)]
  BY DEF Sound, EngineTypeOK
<1>2. /\ sweep' \in [Strategies -> Sweeps] /\ sweep'[s] = r
      /\ \A t \in Strategies \ {s} : sweep'[t] = sweep[t]
      /\ \A t \in Strategies : sweep'[t].by \in {sweep[t].by, Nobody}
  BY OneSweep
<1>3. /\ status' \in [Strategies -> Statuses \cup {"DELETED"}] /\ status'[s] = new
      /\ processed' \in [Strategies -> 0..Windows] /\ processed'[s] = cursor
      /\ recorded' \in [Strategies -> Seq(Indices)] /\ recorded'[s] = windows
      /\ \A t \in Strategies \ {s} : /\ status'[t] = status[t]
                                     /\ processed'[t] = processed[t]
                                     /\ recorded'[t] = recorded[t]
  BY <1>1
<1>4. EngineTypeOK'
  BY <1>2, <1>3 DEF Sound, EngineTypeOK
<1>5. EngineOK(s)'
  <2>1. RowOK(s)'
    BY <1>3 DEF RowOK
  <2>2. SweepOK(s)' /\ StatusOK(s)'
    BY <1>2, <1>3
  <2>. QED BY <2>1, <2>2 DEF EngineOK
<1>6. ASSUME NEW t \in Strategies \ {s} PROVE EngineOK(t)'
  BY <1>2, <1>3, Untouched DEF Sound
<1>7. Calm
  BY <1>2, <1>3 DEF Calm
<1>. QED BY <1>4, <1>5, <1>6, <1>7 DEF Sound

\* The rows and the locals at s, for the steps below.
LEMMA HasTypes ==
    ASSUME Sound, NEW s \in Strategies
    PROVE  /\ status \in [Strategies -> Statuses \cup {"DELETED"}]
           /\ status[s] \in Statuses \cup {"DELETED"}
           /\ processed \in [Strategies -> 0..Windows] /\ processed[s] \in 0..Windows
           /\ recorded \in [Strategies -> Seq(Indices)] /\ recorded[s] \in Seq(Indices)
           /\ blotter \in [Strategies -> [Indices -> Nat]]
           /\ sweep \in [Strategies -> Sweeps] /\ sweep[s] \in Sweeps
           /\ EngineOK(s)
BY DEF Sound, EngineTypeOK

\* A fresh start resets cursor and aggregates in one update.
LEMMA InitRowSound ==
    ASSUME Sound, NEW s \in Strategies, InitRow(s)
    PROVE  Sound' /\ Calm
<1>. DEFINE new == IF Exists(s) THEN "RUNNING" ELSE status[s]
            cursor == IF Fresh(s) THEN 0 ELSE processed[s]
            windows == IF Fresh(s) THEN <<>> ELSE recorded[s]
            pc == IF Fresh(s) THEN "clear" ELSE "load"
            r == [sweep[s] EXCEPT !.pc = pc]
<1>1. /\ status' = [status EXCEPT ![s] = new]
      /\ processed' = [processed EXCEPT ![s] = cursor]
      /\ recorded' = [recorded EXCEPT ![s] = windows]
      /\ Continue(s, r)
  BY DEF InitRow, Updated
<1>2. UNCHANGED <<blotter, control, running, asked, flags, calls, downs>>
  BY DEF InitRow
<1>3. /\ sweep[s] \in Sweeps /\ EngineOK(s) /\ sweep[s].pc = "init"
      /\ status[s] \in Statuses \cup {"DELETED"}
      /\ processed[s] \in 0..Windows /\ recorded[s] \in Seq(Indices)
      /\ 0 \in 0..Windows /\ <<>> \in Seq(Indices)
  BY HasTypes, WindowsAssumption, EmptySeq DEF InitRow, At
<1>4. /\ new \in Statuses \cup {"DELETED"} /\ (new = "DELETED" <=> ~ Exists(s))
      /\ new \in {"RUNNING", "DELETED"}
  BY <1>3 DEF Statuses, Exists
<1>5. cursor \in 0..Windows /\ windows \in Seq(Indices) /\ windows = Prefix(cursor)
  BY <1>3, PrefixOfNone DEF EngineOK, RowOK
<1>6. /\ pc = (IF sweep[s].next = 0 THEN "clear" ELSE "load")
      /\ Exists(s) => cursor = sweep[s].next
      /\ ~ Exists(s) => cursor = 0
  BY <1>3 DEF Fresh, EngineOK, RowOK, SweepOK, At, Exists
<1>. HIDE DEF new, cursor, windows, pc
<1>7. /\ r \in Sweeps /\ r.pc = pc /\ r.by = sweep[s].by /\ r.next = sweep[s].next
      /\ r.windows = sweep[s].windows /\ r.pc \in {"clear", "load"}
  BY <1>3, <1>6 DEF Sweeps
<1>. HIDE DEF r
<1>8. /\ status'[s] = new /\ processed'[s] = cursor /\ recorded'[s] = windows
      /\ sweep'[s] = r
  BY <1>1, <1>7, HasTypes, OneSweep
<1>9. SweepOK(s)'
  BY <1>2, <1>3, <1>4, <1>6, <1>7, <1>8 DEF EngineOK, SweepOK, At, Owning, Exists, Fresh
<1>10. StatusOK(s)'
  BY <1>7, <1>8 DEF StatusOK, Owning
<1>11. new # "PENDING" /\ (new = "COMPLETED" => cursor = Windows) /\ (new = "DELETED" => cursor = 0)
  BY <1>4, <1>6
<1>12. r.pc # "idle" /\ sweep[s].pc # "idle"
  BY <1>3, <1>7
<1>. QED BY <1>1, <1>2, <1>4, <1>5, <1>7, <1>9, <1>10, <1>11, <1>12, OneRow

\* A step that also writes the blotter of s.
LEMMA OneBlotter ==
    ASSUME Sound, NEW s \in Strategies, NEW trades \in [Indices -> Nat],
           blotter' = [blotter EXCEPT ![s] = trades],
           NEW r \in Sweeps, Continue(s, r), r.by = sweep[s].by,
           SweepOK(s)', StatusOK(s)',
           UNCHANGED <<status, processed, recorded, control, running, asked, flags,
                       calls, downs>>
    PROVE  Sound' /\ Calm
<1>1. /\ sweep' \in [Strategies -> Sweeps] /\ sweep'[s] = r
      /\ \A t \in Strategies \ {s} : sweep'[t] = sweep[t]
      /\ \A t \in Strategies : sweep'[t].by \in {sweep[t].by, Nobody}
  BY OneSweep
<1>2. blotter' \in [Strategies -> [Indices -> Nat]]
  BY DEF Sound, EngineTypeOK
<1>3. EngineTypeOK'
  BY <1>1, <1>2 DEF Sound, EngineTypeOK
<1>4. EngineOK(s)'
  BY DEF Sound, EngineOK, RowOK
<1>5. ASSUME NEW t \in Strategies \ {s} PROVE EngineOK(t)'
  BY <1>1, Untouched DEF Sound
<1>6. Calm
  BY <1>1 DEF Calm
<1>. QED BY <1>3, <1>4, <1>5, <1>6 DEF Sound

\* A blotter without batches is well formed.
LEMMA ClearedType == ASSUME NEW s PROVE Cleared(s) \in [Indices -> Nat]
BY DEF Cleared

\* A fresh start deletes the old batches.
LEMMA ClearTradesSound ==
    ASSUME Sound, NEW s \in Strategies, ClearTrades(s)
    PROVE  Sound' /\ Calm
<1>. DEFINE r == [sweep[s] EXCEPT !.pc = "load"]
            trades == Cleared(s)
<1>1. blotter' = [blotter EXCEPT ![s] = trades] /\ Continue(s, r)
  BY DEF ClearTrades
<1>2. trades \in [Indices -> Nat]
  BY ClearedType
<1>3. sweep[s] \in Sweeps /\ EngineOK(s) /\ sweep[s].pc = "clear"
  BY HasTypes DEF ClearTrades, At
<1>. HIDE DEF trades
<1>4. /\ r \in Sweeps /\ r.pc = "load" /\ r.by = sweep[s].by /\ r.next = sweep[s].next
      /\ r.windows = sweep[s].windows
  BY <1>3 DEF Sweeps
<1>. HIDE DEF r
<1>5. sweep'[s] = r
  BY <1>1, <1>4, OneSweep
<1>6. UNCHANGED <<status, processed, recorded, control, running, asked, flags, calls, downs>>
  BY DEF ClearTrades
<1>7. SweepOK(s)'
  BY <1>3, <1>4, <1>5, <1>6 DEF EngineOK, SweepOK, At, Owning, Exists, Fresh
<1>8. StatusOK(s)'
  BY <1>4, <1>5 DEF StatusOK, Owning
<1>. QED BY <1>1, <1>2, <1>4, <1>6, <1>7, <1>8, OneBlotter

\* A window's batch is inserted before its checkpoint.
LEMMA TradeWindowSound ==
    ASSUME Sound, NEW s \in Strategies, TradeWindow(s)
    PROVE  Sound' /\ Calm
<1>. DEFINE windows == Append(sweep[s].windows, sweep[s].next)
            r == [sweep[s] EXCEPT !.pc = "checkpoint", !.windows = windows]
            trades == [blotter[s] EXCEPT ![sweep[s].next] = @ + 1]
<1>1. blotter' = [blotter EXCEPT ![s] = trades] /\ Continue(s, r)
  BY DEF TradeWindow
<1>2. sweep[s] \in Sweeps /\ EngineOK(s) /\ sweep[s].pc = "scan"
  BY HasTypes DEF TradeWindow, At
<1>3. /\ sweep[s].windows = Prefix(sweep[s].next) /\ sweep[s].next \in Indices
      /\ sweep[s].next \in Int
  BY <1>2, WindowsAssumption DEF EngineOK, SweepOK, Sweeps, Indices, At
<1>4. windows = Prefix(sweep[s].next + 1) /\ windows \in Seq(Indices)
  <2>1. sweep[s].next + 1 \in 0..Windows
    BY <1>3, WindowsAssumption DEF Indices
  <2>. QED BY <1>3, <2>1, PrefixAppended, PrefixIsSeq
<1>5. trades \in [Indices -> Nat]
  <2>1. blotter[s] \in [Indices -> Nat]
    BY HasTypes
  <2>2. blotter[s][sweep[s].next] + 1 \in Nat
    BY <1>3, <2>1
  <2>. QED BY <2>1, <2>2
<1>. HIDE DEF trades, windows
<1>6. /\ r \in Sweeps /\ r.pc = "checkpoint" /\ r.by = sweep[s].by /\ r.next = sweep[s].next
      /\ r.windows = windows
  BY <1>2, <1>4 DEF Sweeps
<1>. HIDE DEF r
<1>7. sweep'[s] = r
  BY <1>1, <1>6, OneSweep
<1>8. UNCHANGED <<status, processed, recorded, control, running, asked, flags, calls, downs>>
  BY DEF TradeWindow
<1>9. SweepOK(s)'
  BY <1>2, <1>4, <1>6, <1>7, <1>8 DEF EngineOK, SweepOK, At, Owning, Exists, Fresh
<1>10. StatusOK(s)'
  BY <1>6, <1>7 DEF StatusOK, Owning
<1>. QED BY <1>1, <1>5, <1>6, <1>8, <1>9, <1>10, OneBlotter

\* The checkpoint moves cursor and aggregates together.
LEMMA CheckpointSound ==
    ASSUME Sound, NEW s \in Strategies, Checkpoint(s)
    PROVE  Sound' /\ Calm
<1>1. /\ sweep[s] \in Sweeps /\ EngineOK(s) /\ sweep[s].pc = "checkpoint"
      /\ status[s] \in Statuses \cup {"DELETED"} /\ processed[s] \in 0..Windows
      /\ recorded[s] \in Seq(Indices) /\ status \in [Strategies -> Statuses \cup {"DELETED"}]
  BY HasTypes DEF Checkpoint, At
<1>2. /\ sweep[s].next < Windows /\ sweep[s].next + 1 \in 0..Windows
      /\ sweep[s].windows = Prefix(sweep[s].next + 1) /\ sweep[s].windows \in Seq(Indices)
  BY <1>1, WindowsAssumption DEF EngineOK, SweepOK, At, Sweeps
<1>. DEFINE new == status[s]
            cursor == IF Exists(s) THEN sweep[s].next + 1 ELSE processed[s]
            windows == IF Exists(s) THEN sweep[s].windows ELSE recorded[s]
            next == sweep[s].next + 1
            r == [sweep[s] EXCEPT !.pc = "boundary", !.next = next]
<1>3. /\ status' = [status EXCEPT ![s] = new]
      /\ processed' = [processed EXCEPT ![s] = cursor]
      /\ recorded' = [recorded EXCEPT ![s] = windows]
      /\ Continue(s, r)
      /\ UNCHANGED <<blotter, control, running, asked, flags, calls, downs>>
  BY <1>1 DEF Checkpoint, Cursor
<1>4. cursor \in 0..Windows /\ windows \in Seq(Indices) /\ windows = Prefix(cursor)
  BY <1>1, <1>2 DEF EngineOK, RowOK
<1>5. /\ new \in Statuses \cup {"DELETED"} /\ (new = "DELETED" <=> ~ Exists(s))
      /\ new # "COMPLETED"
  BY <1>1 DEF Exists, EngineOK, SweepOK, Owning
<1>6. (Exists(s) => cursor = next) /\ (~ Exists(s) => cursor = 0)
  BY <1>1 DEF EngineOK, RowOK, Exists
<1>7. next \in 0..Windows /\ next = sweep[s].next + 1
  BY <1>2
<1>. HIDE DEF cursor, windows, next
<1>8. /\ r \in Sweeps /\ r.pc = "boundary" /\ r.by = sweep[s].by /\ r.next = next
      /\ r.windows = sweep[s].windows
  BY <1>1, <1>7 DEF Sweeps
<1>. HIDE DEF r
<1>9. /\ status'[s] = new /\ processed'[s] = cursor /\ recorded'[s] = windows
      /\ sweep'[s] = r
  BY <1>3, <1>8, HasTypes, OneSweep
<1>. HIDE DEF new
<1>10. SweepOK(s)'
  BY <1>1, <1>2, <1>3, <1>5, <1>6, <1>7, <1>8, <1>9 DEF EngineOK, SweepOK, At, Owning, Exists, Fresh
<1>11. StatusOK(s)'
  BY <1>8, <1>9 DEF StatusOK, Owning
<1>12. new = status[s]
  BY DEF new
<1>13. r.pc # "idle" /\ sweep[s].pc # "idle"
  BY <1>1, <1>8
<1>. QED BY <1>3, <1>4, <1>5, <1>6, <1>8, <1>10, <1>11, <1>12, <1>13, OneRow

\* A sweep that is through writes its last status.
LEMMA FinaliseSound ==
    ASSUME Sound, NEW s \in Strategies, Finalise(s)
    PROVE  Sound' /\ Calm
<1>1. /\ sweep[s] \in Sweeps /\ EngineOK(s) /\ sweep[s].pc = "final"
      /\ status[s] \in Statuses \cup {"DELETED"} /\ processed[s] \in 0..Windows
      /\ recorded[s] \in Seq(Indices)
  BY HasTypes DEF Finalise, At
<1>2. /\ sweep[s].next \in 0..Windows
      /\ sweep[s].windows = Prefix(sweep[s].next) /\ sweep[s].windows \in Seq(Indices)
      /\ sweep[s].terminal \in {"COMPLETED", "PAUSED", "STOPPED"}
      /\ sweep[s].terminal = "COMPLETED" => sweep[s].next = Windows
  BY <1>1 DEF EngineOK, SweepOK, At, Sweeps
<1>. DEFINE new == IF Exists(s) THEN sweep[s].terminal ELSE status[s]
            cursor == IF Exists(s) THEN sweep[s].next ELSE processed[s]
            windows == IF Exists(s) THEN sweep[s].windows ELSE recorded[s]
            pc == IF sweep[s].terminal = "PAUSED" THEN "end" ELSE "ranks"
            r == [sweep[s] EXCEPT !.pc = pc]
<1>3. /\ status' = [status EXCEPT ![s] = new]
      /\ processed' = [processed EXCEPT ![s] = cursor]
      /\ recorded' = [recorded EXCEPT ![s] = windows]
      /\ Continue(s, r)
      /\ UNCHANGED <<blotter, control, running, asked, flags, calls, downs>>
  BY <1>1 DEF Finalise, Updated
<1>4. cursor \in 0..Windows /\ windows \in Seq(Indices) /\ windows = Prefix(cursor)
  BY <1>1, <1>2 DEF EngineOK, RowOK
<1>5. /\ new \in Statuses \cup {"DELETED"} /\ (new = "COMPLETED" => cursor = Windows)
      /\ (new = "DELETED" => cursor = 0) /\ new # "PENDING" /\ new # "RUNNING"
  BY <1>1, <1>2 DEF Statuses, Exists, EngineOK, RowOK
<1>11. pc \in {"end", "ranks"}
  OBVIOUS
<1>. HIDE DEF new, cursor, windows, pc
<1>6. r \in Sweeps /\ r.pc \in {"end", "ranks"} /\ r.by = sweep[s].by
  BY <1>1, <1>11 DEF Sweeps
<1>. HIDE DEF r
<1>7. /\ status'[s] = new /\ processed'[s] = cursor /\ recorded'[s] = windows
      /\ sweep'[s] = r
  BY <1>3, <1>6, HasTypes, OneSweep
<1>8. SweepOK(s)'
  BY <1>1, <1>3, <1>6, <1>7 DEF EngineOK, SweepOK, At, Owning
<1>9. StatusOK(s)'
  BY <1>5, <1>7 DEF StatusOK
<1>10. r.pc # "idle" /\ sweep[s].pc # "idle"
  BY <1>1, <1>6
<1>. QED BY <1>3, <1>4, <1>5, <1>6, <1>8, <1>9, <1>10, OneRow

\* The ranks leave the row as it is.
LEMMA RankedSound ==
    ASSUME Sound, NEW s \in Strategies, Ranked(s)
    PROVE  Sound' /\ Calm
<1>1. sweep[s] \in Sweeps /\ EngineOK(s) /\ sweep[s].pc = "ranks"
  BY DEF Sound, EngineTypeOK, Ranked, At
<1>. DEFINE r == [sweep[s] EXCEPT !.pc = "end"]
<1>2. r \in Sweeps /\ r.pc = "end" /\ r.by = sweep[s].by
  BY <1>1 DEF Sweeps
<1>3. Continue(s, r)
  BY DEF Ranked
<1>. HIDE DEF r
<1>4. sweep'[s] = r
  BY <1>2, <1>3, OneSweep
<1>5. UNCHANGED <<rowVars, control, running, asked, flags, calls, downs>>
  BY DEF Ranked
<1>6. SweepOK(s)'
  BY <1>1, <1>2, <1>4, <1>5 DEF EngineOK, SweepOK, At, Owning
<1>7. StatusOK(s)'
  BY <1>1, <1>4, <1>5 DEF EngineOK, StatusOK, Owning, rowVars
<1>8. r.pc # "idle" /\ sweep[s].pc # "idle"
  BY <1>1, <1>2
<1>. QED BY <1>1, <1>2, <1>3, <1>5, <1>6, <1>7, <1>8, OnlySweep

\* A sweep that failed writes FAILED.
LEMMA FailSound ==
    ASSUME Sound, NEW s \in Strategies, Fail(s)
    PROVE  Sound' /\ Calm
<1>1. /\ sweep[s] \in Sweeps /\ EngineOK(s) /\ sweep[s].pc = "failing"
      /\ status[s] \in Statuses \cup {"DELETED"}
      /\ processed \in [Strategies -> 0..Windows] /\ processed[s] \in 0..Windows
      /\ recorded \in [Strategies -> Seq(Indices)] /\ recorded[s] \in Seq(Indices)
  BY HasTypes DEF Fail, At
<1>. DEFINE new == IF Exists(s) THEN "FAILED" ELSE status[s]
            r == [sweep[s] EXCEPT !.pc = "end"]
<1>2. /\ status' = [status EXCEPT ![s] = new]
      /\ Continue(s, r)
      /\ UNCHANGED <<blotter, control, running, asked, flags, calls, downs>>
  BY DEF Fail, Updated
<1>3. /\ processed' = [processed EXCEPT ![s] = processed[s]]
      /\ recorded' = [recorded EXCEPT ![s] = recorded[s]]
  BY <1>1 DEF Fail
<1>4. /\ new \in Statuses \cup {"DELETED"} /\ new \in {"FAILED", "DELETED"}
      /\ new = "DELETED" => processed[s] = 0
      /\ recorded[s] = Prefix(processed[s])
  BY <1>1 DEF Statuses, Exists, EngineOK, RowOK
<1>. HIDE DEF new
<1>5. r \in Sweeps /\ r.pc = "end" /\ r.by = sweep[s].by
  BY <1>1 DEF Sweeps
<1>. HIDE DEF r
<1>6. status'[s] = new /\ sweep'[s] = r
  BY <1>2, <1>5, HasTypes, OneSweep
<1>7. SweepOK(s)'
  BY <1>1, <1>2, <1>5, <1>6 DEF EngineOK, SweepOK, At, Owning
<1>8. StatusOK(s)'
  BY <1>4, <1>6 DEF StatusOK
<1>9. r.pc # "idle" /\ sweep[s].pc # "idle" /\ new # "PENDING" /\ new # "COMPLETED"
  BY <1>1, <1>4, <1>5
<1>. QED BY <1>1, <1>2, <1>3, <1>4, <1>5, <1>7, <1>8, <1>9, OneRow

\* The sweep gives its claim back.
LEMMA EndSound ==
    ASSUME Sound, NEW s \in Strategies, End(s)
    PROVE  Sound' /\ Calm
<1>1. /\ sweep[s] \in Sweeps /\ EngineOK(s) /\ sweep[s].pc = "end"
      /\ control \in [Strategies -> ControlFlags \cup {"none"}]
      /\ running \in SUBSET Strategies
  BY DEF Sound, EngineTypeOK, End, At
<1>2. /\ Continue(s, Resting) /\ running' = running \ {s}
      /\ control' = [control EXCEPT ![s] = "none"]
      /\ UNCHANGED <<rowVars, asked, flags, calls, downs>>
  BY DEF End
<1>3. /\ sweep' \in [Strategies -> Sweeps] /\ sweep'[s] = Resting
      /\ \A t \in Strategies \ {s} : sweep'[t] = sweep[t]
      /\ \A t \in Strategies : sweep'[t].by \in {sweep[t].by, Nobody}
  BY <1>2, Rested, OneSweep
<1>4. EngineTypeOK'
  <2>1. control' \in [Strategies -> ControlFlags \cup {"none"}]
    BY <1>1, <1>2
  <2>. QED BY <1>2, <1>3, <2>1 DEF Sound, EngineTypeOK, rowVars
<1>5. EngineOK(s)'
  <2>1. RowOK(s)'
    BY <1>1, <1>2 DEF EngineOK, RowOK, rowVars
  <2>2. sweep'[s].pc = "idle"
    BY <1>3, Rested
  <2>3. SweepOK(s)'
    BY <1>2, <2>2 DEF SweepOK, At, Owning
  <2>4. StatusOK(s)'
    BY <1>1, <1>2 DEF EngineOK, StatusOK, Owning, rowVars
  <2>. QED BY <2>1, <2>3, <2>4 DEF EngineOK
<1>6. ASSUME NEW t \in Strategies \ {s} PROVE EngineOK(t)'
  BY <1>2, <1>3, Untouched DEF Sound, rowVars
<1>7. Calm
  BY <1>2, <1>3 DEF Calm, rowVars
<1>. QED BY <1>4, <1>5, <1>6, <1>7 DEF Sound

\* A deleted row belongs to nobody, also when it is swept.
LEMMA DeleteRowSound ==
    ASSUME Sound, NEW s \in Strategies, DeleteRow(s)
    PROVE  Sound' /\ Calm
<1>1. /\ status' = [status EXCEPT ![s] = "DELETED"]
      /\ processed' = [processed EXCEPT ![s] = 0]
      /\ recorded' = [recorded EXCEPT ![s] = <<>>]
      /\ blotter' = [blotter EXCEPT ![s] = Cleared(s)]
      /\ asked' \subseteq asked
      /\ UNCHANGED <<control, running, sweep, flags, calls, downs>>
  BY DEF DeleteRow
<1>2. 0 \in 0..Windows /\ <<>> \in Seq(Indices) /\ Cleared(s) \in [Indices -> Nat]
  BY WindowsAssumption, EmptySeq, ClearedType
<1>3. /\ status' \in [Strategies -> Statuses \cup {"DELETED"}] /\ status'[s] = "DELETED"
      /\ processed' \in [Strategies -> 0..Windows] /\ processed'[s] = 0
      /\ recorded' \in [Strategies -> Seq(Indices)] /\ recorded'[s] = <<>>
      /\ \A t \in Strategies \ {s} : /\ status'[t] = status[t]
                                     /\ processed'[t] = processed[t]
                                     /\ recorded'[t] = recorded[t]
  BY <1>1, <1>2, HasTypes
<1>4. blotter' \in [Strategies -> [Indices -> Nat]]
  BY <1>1, <1>2, HasTypes
<1>5. EngineTypeOK'
  BY <1>1, <1>3, <1>4 DEF Sound, EngineTypeOK
<1>6. EngineOK(s)'
  <2>1. RowOK(s)'
    BY <1>3, PrefixOfNone DEF RowOK
  <2>2. SweepOK(s)'
    BY <1>1, <1>3 DEF Sound, EngineOK, SweepOK, At, Exists, Fresh
  <2>3. StatusOK(s)'
    BY <1>3 DEF StatusOK
  <2>. QED BY <2>1, <2>2, <2>3 DEF EngineOK
<1>7. ASSUME NEW t \in Strategies \ {s} PROVE EngineOK(t)'
  BY <1>1, <1>3, Untouched DEF Sound
<1>8. Calm
  BY <1>1, <1>3 DEF Calm
<1>. QED BY <1>5, <1>6, <1>7, <1>8 DEF Sound

\* The sweep of s begins, for the router or for a campaign.
LEMMA ClaimSound ==
    ASSUME Sound, NEW s \in Strategies, NEW by \in Launchers, Claim(s, by),
           calls' \in Nat, UNCHANGED <<rowVars, control, asked, flags, downs>>
    PROVE  /\ Sound'
           /\ sweep'[s].by = by /\ \A t \in Strategies \ {s} : sweep'[t] = sweep[t]
<1>. DEFINE r == [Resting EXCEPT !.pc = "read", !.by = by]
<1>1. r \in Sweeps /\ r.pc = "read" /\ r.by = by
  BY Claimed
<1>2. Continue(s, r) /\ s \notin running /\ running' = running \cup {s}
  BY DEF Claim, Unclaimed
<1>. HIDE DEF r
<1>3. /\ sweep' \in [Strategies -> Sweeps] /\ sweep'[s] = r
      /\ \A t \in Strategies \ {s} : sweep'[t] = sweep[t]
  BY <1>1, <1>2, HasTypes DEF Continue
<1>4. EngineTypeOK'
  BY <1>2, <1>3 DEF Sound, EngineTypeOK, rowVars
<1>5. EngineOK(s) /\ At(s, "idle")
  BY <1>2 DEF Sound, EngineOK, SweepOK
<1>6. EngineOK(s)'
  <2>1. RowOK(s)'
    BY <1>5 DEF EngineOK, RowOK, rowVars
  <2>2. SweepOK(s)'
    BY <1>1, <1>2, <1>3 DEF SweepOK, At, Owning
  <2>3. StatusOK(s)'
    BY <1>5 DEF EngineOK, StatusOK, At, Owning, rowVars
  <2>. QED BY <2>1, <2>2, <2>3 DEF EngineOK
<1>7. ASSUME NEW t \in Strategies \ {s} PROVE EngineOK(t)'
  BY <1>2, <1>3, Untouched DEF Sound, rowVars
<1>. QED BY <1>1, <1>3, <1>4, <1>6, <1>7 DEF Sound

\* Only a row that nobody sweeps is claimed.
LEMMA RunSound ==
    ASSUME Sound, NEW s \in Strategies, Run(s)
    PROVE  Sound' /\ Calm
<1>1. calls' \in Nat
  BY DEF Run, Call, Sound, EngineTypeOK
<1>2. /\ Claim(s, Nobody) /\ UNCHANGED <<rowVars, control, asked, flags, downs>>
      /\ Nobody \in Launchers
  BY LaunchersAssumption DEF Run
<1>3. Sound' /\ sweep'[s].by = Nobody /\ \A t \in Strategies \ {s} : sweep'[t] = sweep[t]
  BY <1>1, <1>2, ClaimSound
<1>4. Calm
  BY <1>2, <1>3 DEF Calm, rowVars
<1>. QED BY <1>3, <1>4

\* Requests, and the flags they set.
LEMMA AskedSound ==
    ASSUME Sound, asked' \in SUBSET (Strategies \X (ControlFlags \cup {"delete"})),
           control' \in [Strategies -> ControlFlags \cup {"none"}], calls' \in Nat,
           flags' \in Launchers, UNCHANGED <<rowVars, running, sweep, downs>>
    PROVE  Sound' /\ Calm
<1>1. EngineTypeOK'
  BY DEF Sound, EngineTypeOK, rowVars
<1>2. ASSUME NEW t \in Strategies PROVE EngineOK(t)'
  BY Untouched DEF Sound, rowVars
<1>3. Calm
  BY DEF Calm, rowVars
<1>. QED BY <1>1, <1>2, <1>3 DEF Sound

\* Requests and flags touch no row.
LEMMA RequestsSound ==
    ASSUME Sound, NEW s \in Strategies, Request(s) \/ Delete(s) \/ SetFlag(s)
    PROVE  Sound' /\ Calm
<1>1. /\ asked \in SUBSET (Strategies \X (ControlFlags \cup {"delete"}))
      /\ control \in [Strategies -> ControlFlags \cup {"none"}]
      /\ calls \in Nat /\ flags \in Launchers
  BY DEF Sound, EngineTypeOK
<1>2. CASE Request(s)
  <2>1. PICK flag \in ControlFlags : asked' = asked \cup {<<s, flag>>}
    BY <1>2 DEF Request, ReadForRequest
  <2>2. calls' \in Nat /\ UNCHANGED <<rowVars, control, running, sweep, flags, downs>>
    BY <1>1, <1>2 DEF Request, Call
  <2>. QED BY <1>1, <2>1, <2>2, AskedSound
<1>3. CASE Delete(s)
  <2>1. asked' = asked \cup {<<s, "delete">>} /\ calls' \in Nat
    BY <1>1, <1>3 DEF Delete, Call
  <2>2. UNCHANGED <<rowVars, control, running, sweep, flags, downs>>
    BY <1>3 DEF Delete
  <2>. QED BY <1>1, <2>1, <2>2, AskedSound
<1>4. CASE SetFlag(s)
  <2>1. PICK flag \in ControlFlags : /\ control' = [control EXCEPT ![s] = flag]
                                     /\ asked' = asked \ {<<s, flag>>}
    BY <1>4 DEF SetFlag
  <2>2. control' \in [Strategies -> ControlFlags \cup {"none"}]
    BY <1>1, <2>1
  <2>3. asked' \in SUBSET (Strategies \X (ControlFlags \cup {"delete"}))
    BY <1>1, <2>1
  <2>4. UNCHANGED <<rowVars, running, sweep, flags, calls, downs>>
    BY <1>4 DEF SetFlag
  <2>. QED BY <1>1, <2>2, <2>3, <2>4, AskedSound
<1>. QED BY <1>2, <1>3, <1>4

\* A crash leaves the rows and takes the sweeps.
LEMMA EngineLostSound ==
    ASSUME Sound, EngineLost
    PROVE  /\ Sound' /\ downs' # 0
           /\ \A s \in Strategies : sweep'[s].by = Nobody
<1>1. /\ control' = [s \in Strategies |-> "none"] /\ running' = {} /\ asked' = {}
      /\ sweep' = [s \in Strategies |-> Resting] /\ flags' = Nobody
      /\ UNCHANGED <<rowVars, calls>> /\ downs' \in Nat /\ downs' # 0
  BY DEF EngineLost, Sound, EngineTypeOK
<1>2. sweep' \in [Strategies -> Sweeps]
  BY <1>1, Rested
<1>3. EngineTypeOK'
  BY <1>1, <1>2, LaunchersAssumption DEF Sound, EngineTypeOK, rowVars
<1>4. ASSUME NEW s \in Strategies PROVE EngineOK(s)'
  <2>1. sweep'[s].pc = "idle"
    BY <1>1, Rested
  <2>2. RowOK(s)'
    BY <1>1 DEF Sound, EngineOK, RowOK, rowVars
  <2>3. SweepOK(s)'
    BY <1>1, <2>1 DEF SweepOK, At, Owning
  <2>4. StatusOK(s)'
    BY <1>1 DEF StatusOK
  <2>. QED BY <2>2, <2>3, <2>4 DEF EngineOK
<1>. QED BY <1>1, <1>3, <1>4, Rested DEF Sound

\* Every step of the engine keeps rows and sweeps sound.
LEMMA EngineSound ==
    ASSUME Sound, NEW s \in Strategies,
           SetFlag(s) \/ DeleteRow(s) \/ SweepStep(s) \/ Run(s) \/ Request(s) \/ Delete(s)
              \/ SweepError(s)
    PROVE  Sound' /\ Calm
BY ReadRowSound, InitRowSound, ClearTradesSound, LoadSound, BoundarySound,
   AbortWindowSound, TradeWindowSound, TradeForNobodySound, CheckpointSound, FinaliseSound,
   RankedSound, FailSound, EndSound, DeleteRowSound, RunSound, RequestsSound, SweepErrorSound
   DEF SweepStep

-----------------------------------------------------------------------------
(***************************************************************************)
(* The campaigns.                                                          *)
(***************************************************************************)

CampaignsTyped ==
    /\ campaign \in [Campaigns -> CampaignStatuses \cup {"DELETED"}]
    /\ order \in [Campaigns -> ControlFlags \cup {"none"}]
    /\ driver \in [Campaigns -> Drivers]
    /\ signal \in [Campaigns -> Signals]

\* The type invariant is that of the engine and that of the drivers.
LEMMA TypeParts == TypeOK <=> EngineTypeOK /\ CampaignsTyped
BY DEF TypeOK, CampaignsTyped

\* The inductive invariant is that of the engine and that of each driver.
LEMMA IInvParts == IInv <=> Sound /\ CampaignsTyped /\ \A c \in Campaigns : DriverOK(c)
BY TypeParts DEF IInv, Sound

\* The same campaign with the same driver, whose members are not put back.
LEMMA QuietDriver ==
    ASSUME NEW c \in Campaigns, DriverOK(c), driver'[c] = driver[c], campaign'[c] = campaign[c],
           \A s \in Strategies :
              CampaignOf[s] = c /\ status'[s] = "PENDING" => status[s] = "PENDING",
           Launched(c)' \subseteq Launched(c), downs' = 0 => downs = 0
    PROVE  DriverOK(c)'
<1>1. NonePending(c) => NonePending(c)'
  BY DEF NonePending, Members, Exists
<1>. QED BY <1>1 DEF DriverOK, DriverAt

\* A campaign has launched no more sweeps than before.
LEMMA SameLaunched ==
    ASSUME NEW c \in Campaigns,
           \A s \in Strategies : sweep'[s].by \in {sweep[s].by, Nobody}
    PROVE  Launched(c)' \subseteq Launched(c)
BY OwnersAssumption DEF Launched

\* A step of the engine alone.
LEMMA CalmKeeps ==
    ASSUME IInv, Sound', Calm, UNCHANGED campaignVars
    PROVE  IInv'
<1>1. CampaignsTyped'
  BY IInvParts DEF CampaignsTyped, campaignVars
<1>2. ASSUME NEW c \in Campaigns PROVE DriverOK(c)'
  <2>1. Launched(c)' \subseteq Launched(c)
    BY SameLaunched DEF Calm
  <2>. QED BY <2>1, QuietDriver, IInvParts DEF Calm, campaignVars
<1>3. IInv' <=> (Sound /\ CampaignsTyped /\ \A c \in Campaigns : DriverOK(c))'
  BY IInvParts, TypeParts DEF IInv, Sound, TypeOK, CampaignsTyped
<1>. QED BY <1>1, <1>2, <1>3

\* A step that leaves the rows, the sweeps and the claims alone.
LEMMA EngineAsItWas ==
    ASSUME Sound, UNCHANGED <<rowVars, control, running, sweep>>,
           asked' \in SUBSET (Strategies \X (ControlFlags \cup {"delete"})),
           flags' \in Launchers, calls' \in Nat, downs' \in Nat, downs' = 0 => downs = 0
    PROVE  Sound' /\ Calm
<1>1. EngineTypeOK'
  BY DEF Sound, EngineTypeOK, rowVars
<1>2. ASSUME NEW t \in Strategies PROVE EngineOK(t)'
  BY Untouched DEF Sound, rowVars
<1>3. Calm
  BY DEF Calm, rowVars
<1>. QED BY <1>1, <1>2, <1>3 DEF Sound

\* A step of the driver of c, or of a request to it: all others are as they were.
LEMMA OneDriver ==
    ASSUME IInv, Sound', Calm, NEW c \in Campaigns, CampaignsTyped', DriverOK(c)',
           \A d \in Campaigns \ {c} : driver'[d] = driver[d] /\ campaign'[d] = campaign[d]
    PROVE  IInv'
<1>1. ASSUME NEW d \in Campaigns \ {c} PROVE DriverOK(d)'
  <2>1. Launched(d)' \subseteq Launched(d)
    BY SameLaunched DEF Calm
  <2>. QED BY <2>1, QuietDriver, IInvParts DEF Calm
<1>2. EngineTypeOK' /\ CampaignsTyped' => TypeOK'
  BY DEF TypeOK, CampaignsTyped
<1>. QED BY <1>1, <1>2 DEF IInv, Sound

\* The parts of the invariant at c, for the steps below.
LEMMA At_c ==
    ASSUME IInv, NEW c \in Campaigns
    PROVE  /\ Sound /\ CampaignsTyped /\ DriverOK(c)
           /\ driver \in [Campaigns -> Drivers] /\ driver[c] \in Drivers
           /\ signal \in [Campaigns -> Signals] /\ signal[c] \in Signals
           /\ order \in [Campaigns -> ControlFlags \cup {"none"}]
           /\ campaign \in [Campaigns -> CampaignStatuses \cup {"DELETED"}]
           /\ campaign[c] \in CampaignStatuses \cup {"DELETED"}
           /\ asked \in SUBSET (Strategies \X (ControlFlags \cup {"delete"}))
           /\ flags \in Launchers /\ calls \in Nat /\ downs \in Nat
           /\ c \in Launchers
BY IInvParts, OwnersAssumption DEF CampaignsTyped, Sound, EngineTypeOK

\* The locals of a driver that does not run are well formed.
LEMMA DriverAway == NoDriver \in Drivers /\ NoDriver.pc = "idle" /\ NoDriver.stale = {}
<1>1. {} \in SUBSET (Strategies \X {"PAUSED", "PENDING"}) /\ {} \in SUBSET Strategies
  OBVIOUS
<1>. QED BY <1>1, LaunchersAssumption DEF NoDriver, Drivers

\* A request that is over is well formed.
LEMMA SignalAway == NoSignal \in Signals
<1>1. {} \in SUBSET Strategies /\ "pause" \in ControlFlags
  BY DEF ControlFlags
<1>. QED BY <1>1 DEF NoSignal, Signals

\* Writing a campaign's status concerns its row alone, if it still exists.
LEMMA WrittenAt ==
    ASSUME CampaignsTyped, NEW c \in Campaigns, NEW new \in CampaignStatuses,
           campaign' = Written(c, new)
    PROVE  /\ campaign' \in [Campaigns -> CampaignStatuses \cup {"DELETED"}]
           /\ campaign'[c] = (IF campaign[c] = "DELETED" THEN "DELETED" ELSE new)
           /\ \A d \in Campaigns \ {c} : campaign'[d] = campaign[d]
BY DEF CampaignsTyped, Written

\* The driver of c takes a step: what is left to show of it.
LEMMA DriveKeeps ==
    ASSUME IInv, Sound', Calm, NEW c \in Campaigns, NEW r \in Drivers, Drive(c, r),
           campaign' \in [Campaigns -> CampaignStatuses \cup {"DELETED"}],
           \A d \in Campaigns \ {c} : campaign'[d] = campaign[d],
           order' \in [Campaigns -> ControlFlags \cup {"none"}], signal' = signal,
           \A stale \in r.stale : CampaignOf[stale[1]] = c,
           r.pc \in {"list", "normalise", "queue"} => campaign'[c] # "DONE",
           r.pc = "finalise" /\ r.verdict = "DONE" => NonePending(c)',
           campaign'[c] = "DONE" => NonePending(c)',
           Launched(c) # {} => r.pc = "queue",
           downs' = 0 /\ r.pc \in {"end", "idle"} => campaign'[c] # "RUNNING"
    PROVE  IInv'
<1>1. /\ driver' \in [Campaigns -> Drivers] /\ driver'[c] = r
      /\ \A d \in Campaigns \ {c} : driver'[d] = driver[d]
  BY At_c DEF Drive
<1>2. CampaignsTyped'
  BY <1>1, At_c DEF CampaignsTyped
<1>3. Launched(c)' \subseteq Launched(c)
  BY SameLaunched DEF Calm
<1>4. DriverOK(c)'
  BY <1>1, <1>3 DEF DriverOK, DriverAt
<1>. QED BY <1>1, <1>2, <1>4, OneDriver

\* The rows are as they were.
LEMMA RowsStay ==
    ASSUME NEW c \in Campaigns, rowVars' = rowVars, campaign'[c] = campaign[c]
    PROVE  NonePending(c)' <=> NonePending(c)
BY DEF NonePending, Members, Exists, rowVars

\* Starting a campaign that nobody drives.
LEMMA StartKeeps ==
    ASSUME IInv, NEW c \in Campaigns, Start(c)
    PROVE  IInv'
<1>. DEFINE r == [NoDriver EXCEPT !.pc = "begin"]
<1>1. /\ order' = [order EXCEPT ![c] = "none"] /\ Drive(c, r) /\ DriverAt(c, "idle")
      /\ calls' = calls + 1
      /\ UNCHANGED <<rowVars, control, running, asked, sweep, flags, downs, campaign, signal>>
  BY DEF Start, Call
<1>2. r \in Drivers /\ r.pc = "begin" /\ r.stale = {}
  <2>1. ASSUME NEW d \in Drivers, d.stale = {}
        PROVE  LET e == [d EXCEPT !.pc = "begin"]
               IN  e \in Drivers /\ e.pc = "begin" /\ e.stale = {}
    BY <2>1 DEF Drivers
  <2>. QED BY <2>1, DriverAway
<1>. HIDE DEF r
<1>3. Sound' /\ Calm
  BY <1>1, At_c, EngineAsItWas
<1>4. DriverOK(c) /\ (NonePending(c)' <=> NonePending(c))
  BY <1>1, At_c, RowsStay
<1>5. order' \in [Campaigns -> ControlFlags \cup {"none"}]
  BY <1>1, At_c
<1>6. /\ campaign' \in [Campaigns -> CampaignStatuses \cup {"DELETED"}]
      /\ campaign'[c] = "DONE" => NonePending(c)'
      /\ Launched(c) = {}
  BY <1>1, <1>4, At_c DEF DriverOK, DriverAt
<1>. QED BY <1>1, <1>2, <1>3, <1>5, <1>6, DriveKeeps

\* A driver takes over the cost flags.
LEMMA BeginKeeps ==
    ASSUME IInv, NEW c \in Campaigns, Begin(c)
    PROVE  IInv'
<1>. DEFINE r == [driver[c] EXCEPT !.pc = "mark", !.saved = flags]
<1>1. /\ flags' = c /\ Drive(c, r) /\ driver[c].pc = "begin"
      /\ UNCHANGED <<rowVars, control, running, asked, sweep, calls, downs, campaign,
                     order, signal>>
  BY DEF Begin, DriverAt
<1>2. r \in Drivers /\ r.pc = "mark" /\ r.stale = driver[c].stale
  <2>1. driver[c] \in Drivers /\ flags \in Launchers
    BY At_c
  <2>. QED BY <2>1 DEF Drivers
<1>. HIDE DEF r
<1>3. Sound' /\ Calm
  BY <1>1, At_c, EngineAsItWas
<1>4. DriverOK(c) /\ (NonePending(c)' <=> NonePending(c))
  BY <1>1, At_c, RowsStay
<1>5. /\ campaign' \in [Campaigns -> CampaignStatuses \cup {"DELETED"}]
      /\ order' \in [Campaigns -> ControlFlags \cup {"none"}]
      /\ campaign'[c] = "DONE" => NonePending(c)'
      /\ Launched(c) = {}
      /\ \A stale \in r.stale : CampaignOf[stale[1]] = c
  BY <1>1, <1>2, <1>4, At_c DEF DriverOK, DriverAt
<1>. QED BY <1>1, <1>2, <1>3, <1>5, DriveKeeps

\* A step of the driver that writes nothing.
LEMMA ReadingKeeps ==
    ASSUME IInv, NEW c \in Campaigns, NEW r \in Drivers, Drive(c, r),
           UNCHANGED <<engineVars, campaign, order, signal>>,
           \A stale \in r.stale : CampaignOf[stale[1]] = c,
           r.pc \in {"list", "normalise", "queue"} => campaign[c] # "DONE",
           r.pc = "finalise" /\ r.verdict = "DONE" => NonePending(c),
           Launched(c) # {} => r.pc = "queue",
           downs = 0 /\ r.pc \in {"end", "idle"} => campaign[c] # "RUNNING"
    PROVE  IInv'
<1>1. Sound' /\ Calm
  BY At_c, EngineAsItWas DEF engineVars
<1>2. DriverOK(c) /\ (NonePending(c)' <=> NonePending(c))
  BY At_c, RowsStay DEF engineVars
<1>3. /\ campaign' \in [Campaigns -> CampaignStatuses \cup {"DELETED"}]
      /\ order' \in [Campaigns -> ControlFlags \cup {"none"}]
      /\ campaign'[c] = "DONE" => NonePending(c)'
      /\ r.pc = "finalise" /\ r.verdict = "DONE" => NonePending(c)'
      /\ downs' = 0 /\ r.pc \in {"end", "idle"} => campaign'[c] # "RUNNING"
  BY <1>2, At_c DEF DriverOK, engineVars
<1>. QED BY <1>1, <1>3, DriveKeeps

\* A driver whose campaign was deleted ends at once.
LEMMA BeginNothingKeeps ==
    ASSUME IInv, NEW c \in Campaigns, BeginNothing(c)
    PROVE  IInv'
<1>1. /\ Drive(c, NoDriver) /\ campaign[c] = "DELETED" /\ DriverAt(c, "begin")
      /\ UNCHANGED <<engineVars, campaign, order, signal>>
  BY DEF BeginNothing
<1>2. Launched(c) = {}
  BY <1>1, At_c DEF DriverOK, DriverAt
<1>3. NoDriver \in Drivers /\ NoDriver.pc = "idle" /\ NoDriver.stale = {}
  BY DriverAway
<1>. QED BY <1>1, <1>2, <1>3, ReadingKeeps

\* The members whose row says RUNNING are listed.
LEMMA ListRunningKeeps ==
    ASSUME IInv, NEW c \in Campaigns, ListRunning(c)
    PROVE  IInv'
<1>. DEFINE stale == {<<s, IF processed[s] > 0 THEN "PAUSED" ELSE "PENDING">> :
                         s \in {m \in Members(c) : status[m] = "RUNNING"}}
            r == [driver[c] EXCEPT !.pc = "normalise", !.stale = stale]
<1>1. /\ Drive(c, r) /\ driver[c].pc = "list"
      /\ UNCHANGED <<engineVars, campaign, order, signal>>
  BY DEF ListRunning, DriverAt
<1>2. /\ stale \in SUBSET (Strategies \X {"PAUSED", "PENDING"})
      /\ \A st \in stale : CampaignOf[st[1]] = c
  BY DEF Members
<1>. HIDE DEF stale
<1>3. r \in Drivers /\ r.pc = "normalise" /\ r.stale = stale
  <2>1. driver[c] \in Drivers
    BY At_c
  <2>. QED BY <1>2, <2>1 DEF Drivers
<1>. HIDE DEF r
<1>4. Launched(c) = {} /\ campaign[c] # "DONE"
  BY <1>1, At_c DEF DriverOK, DriverAt
<1>. QED BY <1>1, <1>2, <1>3, <1>4, ReadingKeeps

\* The members to do are listed.
LEMMA ListQueueKeeps ==
    ASSUME IInv, NEW c \in Campaigns, ListQueue(c)
    PROVE  IInv'
<1>. DEFINE queue == Unfinished(c)
            r == [driver[c] EXCEPT !.pc = "queue", !.queue = queue]
<1>1. /\ Drive(c, r) /\ driver[c].pc = "normalise"
      /\ UNCHANGED <<engineVars, campaign, order, signal>>
  BY DEF ListQueue, DriverAt
<1>2. queue \in SUBSET Strategies
  BY DEF Unfinished, Members
<1>. HIDE DEF queue
<1>3. r \in Drivers /\ r.pc = "queue" /\ r.stale = driver[c].stale
  <2>1. driver[c] \in Drivers
    BY At_c
  <2>. QED BY <1>2, <2>1 DEF Drivers
<1>. HIDE DEF r
<1>4. /\ campaign[c] # "DONE"
      /\ \A stale \in r.stale : CampaignOf[stale[1]] = c
  BY <1>1, <1>3, At_c DEF DriverOK, DriverAt
<1>. QED BY <1>1, <1>3, <1>4, ReadingKeeps

\* A member that is not to be run is passed over.
LEMMA PassOverKeeps ==
    ASSUME IInv, NEW c \in Campaigns, NEW s \in Strategies, PassOver(c, s)
    PROVE  IInv'
<1>. DEFINE queue == driver[c].queue \ {s}
            r == [driver[c] EXCEPT !.queue = queue]
<1>1. /\ Drive(c, r) /\ driver[c].pc = "queue"
      /\ UNCHANGED <<engineVars, campaign, order, signal>>
  BY DEF PassOver, Turn, DriverAt
<1>2. queue \in SUBSET Strategies
  BY At_c DEF Drivers
<1>. HIDE DEF queue
<1>3. r \in Drivers /\ r.pc = "queue" /\ r.stale = driver[c].stale
  BY <1>1, <1>2, At_c DEF Drivers
<1>. HIDE DEF r
<1>4. /\ campaign[c] # "DONE"
      /\ \A stale \in r.stale : CampaignOf[stale[1]] = c
  BY <1>1, <1>3, At_c DEF DriverOK, DriverAt
<1>. QED BY <1>1, <1>3, <1>4, ReadingKeeps

\* The verdict is decided when nothing is left to launch.
LEMMA DecideKeeps ==
    ASSUME IInv, NEW c \in Campaigns, Decide(c)
    PROVE  IInv'
<1>. DEFINE verdict == Verdict(c)
            r == [driver[c] EXCEPT !.pc = "finalise", !.verdict = verdict]
<1>1. /\ Drive(c, r) /\ Launched(c) = {}
      /\ UNCHANGED <<engineVars, campaign, order, signal>>
  BY DEF Decide
<1>2. verdict \in {"DONE", "PAUSED", "STOPPED"}
  BY DEF Verdict
<1>3. verdict = "DONE" => NonePending(c)
  BY DEF Verdict, AllFinished, NonePending, Terminal
<1>. HIDE DEF verdict
<1>4. r \in Drivers /\ r.pc = "finalise" /\ r.stale = driver[c].stale /\ r.verdict = verdict
  <2>1. driver[c] \in Drivers
    BY At_c
  <2>. QED BY <1>2, <2>1 DEF Drivers
<1>. HIDE DEF r
<1>5. \A stale \in r.stale : CampaignOf[stale[1]] = c
  BY <1>4, At_c DEF DriverOK
<1>. QED BY <1>1, <1>3, <1>4, <1>5, ReadingKeeps

\* A step of the driver that writes the row of its campaign.
LEMMA WritingKeeps ==
    ASSUME IInv, NEW c \in Campaigns, NEW new \in CampaignStatuses,
           NEW pc \in {"list", "end"}, Drive(c, [driver[c] EXCEPT !.pc = pc]),
           campaign' = Written(c, new), UNCHANGED <<engineVars, order, signal>>,
           Launched(c) = {}, pc = "list" => new # "DONE",
           new = "DONE" => campaign[c] = "DELETED" \/ NonePending(c),
           pc = "end" => new # "RUNNING"
    PROVE  IInv'
<1>. DEFINE r == [driver[c] EXCEPT !.pc = pc]
<1>1. /\ campaign' \in [Campaigns -> CampaignStatuses \cup {"DELETED"}]
      /\ campaign'[c] = (IF campaign[c] = "DELETED" THEN "DELETED" ELSE new)
      /\ \A d \in Campaigns \ {c} : campaign'[d] = campaign[d]
  BY At_c, WrittenAt
<1>2. r \in Drivers /\ r.pc = pc /\ r.stale = driver[c].stale
  <2>1. driver[c] \in Drivers
    BY At_c
  <2>. QED BY <2>1 DEF Drivers
<1>3. Drive(c, r)
  OBVIOUS
<1>. HIDE DEF r
<1>4. Sound' /\ Calm
  BY At_c, EngineAsItWas DEF engineVars
<1>5. campaign'[c] = "DONE" => NonePending(c)'
  <2>. SUFFICES ASSUME campaign'[c] = "DONE" PROVE NonePending(c)'
    OBVIOUS
  <2>1. campaign[c] # "DELETED" /\ NonePending(c)
    BY <1>1
  <2>. QED BY <2>1 DEF NonePending, Members, Exists, engineVars, rowVars
<1>6. /\ order' \in [Campaigns -> ControlFlags \cup {"none"}]
      /\ \A stale \in r.stale : CampaignOf[stale[1]] = c
      /\ pc = "list" => campaign'[c] # "DONE"
      /\ pc = "end" => campaign'[c] # "RUNNING"
  BY <1>1, <1>2, At_c DEF DriverOK
<1>7. signal' = signal
  OBVIOUS
<1>. QED BY <1>1, <1>2, <1>3, <1>4, <1>5, <1>6, <1>7, DriveKeeps

\* The driver's writes to its campaign's row.
LEMMA DriverWritesKeep ==
    ASSUME IInv, NEW c \in Campaigns, Mark(c) \/ WriteVerdict(c) \/ Excepted(c)
    PROVE  IInv'
<1>1. CASE Mark(c)
  <2>1. /\ Drive(c, [driver[c] EXCEPT !.pc = "list"]) /\ campaign' = Written(c, "RUNNING")
        /\ UNCHANGED <<engineVars, order, signal>> /\ DriverAt(c, "mark")
    BY <1>1 DEF Mark
  <2>2. Launched(c) = {} /\ "RUNNING" \in CampaignStatuses
    BY <2>1, At_c DEF DriverOK, DriverAt, CampaignStatuses
  <2>. QED BY <2>1, <2>2, WritingKeeps
<1>2. CASE WriteVerdict(c)
  <2>1. /\ Drive(c, [driver[c] EXCEPT !.pc = "end"])
        /\ campaign' = Written(c, driver[c].verdict)
        /\ UNCHANGED <<engineVars, order, signal>> /\ DriverAt(c, "finalise")
    BY <1>2 DEF WriteVerdict
  <2>2. driver[c] \in Drivers
    BY At_c
  <2>3. /\ driver[c].verdict \in CampaignStatuses /\ driver[c].verdict # "RUNNING"
    BY <2>2 DEF Drivers, CampaignStatuses
  <2>4. Launched(c) = {} /\ (driver[c].verdict = "DONE" => NonePending(c))
    BY <2>1, At_c DEF DriverOK, DriverAt
  <2>. QED BY <2>1, <2>3, <2>4, WritingKeeps
<1>3. CASE Excepted(c)
  <2>1. /\ Drive(c, [driver[c] EXCEPT !.pc = "end"]) /\ campaign' = Written(c, "PAUSED")
        /\ UNCHANGED <<engineVars, order, signal>> /\ DriverAt(c, "excepted")
    BY <1>3 DEF Excepted
  <2>2. Launched(c) = {} /\ "PAUSED" \in CampaignStatuses
    BY <2>1, At_c DEF DriverOK, DriverAt, CampaignStatuses
  <2>. QED BY <2>1, <2>2, WritingKeeps
<1>. QED BY <1>1, <1>2, <1>3

\* A driver restores the flags and is gone.
LEMMA DriverEndKeeps ==
    ASSUME IInv, NEW c \in Campaigns, DriverEnd(c)
    PROVE  IInv'
<1>1. /\ flags' = driver[c].saved /\ order' = [order EXCEPT ![c] = "none"]
      /\ Drive(c, NoDriver) /\ DriverAt(c, "end")
      /\ UNCHANGED <<rowVars, control, running, asked, sweep, calls, downs, campaign, signal>>
  BY DEF DriverEnd, Restored
<1>2. driver[c] \in Drivers
  BY At_c
<1>3. flags' \in Launchers
  BY <1>1, <1>2 DEF Drivers
<1>4. Sound' /\ Calm
  BY <1>1, <1>3, At_c, EngineAsItWas
<1>5. DriverOK(c) /\ (NonePending(c)' <=> NonePending(c))
  BY <1>1, At_c, RowsStay
<1>6. /\ campaign' \in [Campaigns -> CampaignStatuses \cup {"DELETED"}]
      /\ order' \in [Campaigns -> ControlFlags \cup {"none"}]
      /\ campaign'[c] = "DONE" => NonePending(c)'
      /\ Launched(c) = {}
      /\ downs' = 0 => campaign'[c] # "RUNNING"
  BY <1>1, <1>5, At_c DEF DriverOK, DriverAt
<1>7. NoDriver \in Drivers /\ NoDriver.pc = "idle" /\ NoDriver.stale = {}
  BY DriverAway
<1>. QED BY <1>1, <1>4, <1>6, <1>7, DriveKeeps

\* An exception sends a driver to its handler, or ends it before its try.
LEMMA DriverErrorKeeps ==
    ASSUME IInv, NEW c \in Campaigns, DriverError(c)
    PROVE  IInv'
<1>1. /\ downs' = downs + 1
      /\ UNCHANGED <<rowVars, control, running, asked, sweep, flags, calls, campaign,
                     order, signal>>
      /\ driver[c].pc # "queue"
  BY DEF DriverError, DriverAt
<1>2. PICK r \in Drivers : Drive(c, r) /\ r.pc \in {"idle", "excepted", "end"}
                           /\ r.stale \subseteq driver[c].stale
  <2>1. driver[c] \in Drivers
    BY At_c
  <2>2. CASE Drive(c, NoDriver)
    BY <2>2, DriverAway
  <2>3. ASSUME NEW pc \in {"excepted", "end"}, Drive(c, [driver[c] EXCEPT !.pc = pc])
        PROVE  \E r \in Drivers : Drive(c, r) /\ r.pc \in {"idle", "excepted", "end"}
                                  /\ r.stale \subseteq driver[c].stale
    <3>. DEFINE r == [driver[c] EXCEPT !.pc = pc]
    <3>1. r \in Drivers /\ r.pc = pc /\ r.stale = driver[c].stale
      BY <2>1 DEF Drivers
    <3>2. Drive(c, r)
      BY <2>3
    <3>. HIDE DEF r
    <3>. QED BY <3>1, <3>2
  <2>. QED BY <2>2, <2>3 DEF DriverError
<1>3. downs' \in Nat /\ downs' # 0
  BY <1>1, At_c
<1>4. Sound' /\ Calm
  BY <1>1, <1>3, At_c, EngineAsItWas
<1>5. DriverOK(c) /\ (NonePending(c)' <=> NonePending(c))
  BY <1>1, At_c, RowsStay
<1>6. /\ campaign' \in [Campaigns -> CampaignStatuses \cup {"DELETED"}]
      /\ order' \in [Campaigns -> ControlFlags \cup {"none"}]
      /\ campaign'[c] = "DONE" => NonePending(c)'
      /\ Launched(c) = {}
      /\ \A stale \in r.stale : CampaignOf[stale[1]] = c
  BY <1>1, <1>2, <1>5, At_c DEF DriverOK, DriverAt
<1>. QED BY <1>1, <1>2, <1>3, <1>4, <1>6, DriveKeeps

\* A stale member is put back: no sweep of it will write its end.
LEMMA NormaliseKeeps ==
    ASSUME IInv, NEW c \in Campaigns, Normalise(c)
    PROVE  IInv'
<1>1. PICK stale \in driver[c].stale :
          /\ status' = Updated(stale[1], stale[2])
          /\ Drive(c, [driver[c] EXCEPT !.stale = @ \ {stale}])
  BY DEF Normalise
<1>2. /\ driver[c].pc = "normalise"
      /\ UNCHANGED <<processed, recorded, blotter, control, running, asked, sweep, flags,
                     calls, downs, campaign, order, signal>>
  BY DEF Normalise, DriverAt
<1>3. /\ driver \in [Campaigns -> Drivers] /\ driver[c] \in Drivers /\ DriverOK(c)
      /\ Sound /\ CampaignsTyped
  BY At_c
<1>4. stale[1] \in Strategies /\ stale[2] \in {"PAUSED", "PENDING"} /\ CampaignOf[stale[1]] = c
  BY <1>3 DEF Drivers, DriverOK
<1>. DEFINE s == stale[1]
            new == IF Exists(s) THEN stale[2] ELSE status[s]
            rest == driver[c].stale \ {stale}
            r == [driver[c] EXCEPT !.stale = rest]
<1>5. /\ status' = [status EXCEPT ![s] = new] /\ Drive(c, r)
      /\ s \in Strategies /\ CampaignOf[s] = c
      /\ rest \in SUBSET driver[c].stale
  BY <1>1, <1>4 DEF Updated
<1>6. /\ Exists(s) => new \in {"PAUSED", "PENDING"}
      /\ ~ Exists(s) => new = "DELETED" /\ status[s] = "DELETED"
  BY <1>4 DEF Exists
<1>. HIDE DEF s, new, rest
<1>7. r \in Drivers /\ r.pc = "normalise" /\ r.stale = rest
  <2>1. rest \in SUBSET (Strategies \X {"PAUSED", "PENDING"})
    BY <1>3, <1>5 DEF Drivers
  <2>. QED BY <1>2, <1>3, <2>1 DEF Drivers
<1>. HIDE DEF r
<1>8. /\ driver' \in [Campaigns -> Drivers] /\ driver'[c] = r
      /\ \A d \in Campaigns \ {c} : driver'[d] = driver[d]
  BY <1>3, <1>5, <1>7 DEF Drive
<1>9. /\ status' \in [Strategies -> Statuses \cup {"DELETED"}] /\ status'[s] = new
      /\ \A t \in Strategies \ {s} : status'[t] = status[t]
  <2>1. new \in Statuses \cup {"DELETED"}
    BY <1>6 DEF Statuses, Exists
  <2>. QED BY <1>3, <1>5, <2>1, HasTypes
<1>10. EngineTypeOK'
  BY <1>2, <1>3, <1>9 DEF Sound, EngineTypeOK
<1>11. EngineOK(s)'
  <2>1. EngineOK(s) /\ (Exists(s)' <=> Exists(s))
    BY <1>3, <1>5, <1>6, <1>9 DEF Sound, Exists
  <2>2. RowOK(s)'
    BY <1>2, <1>6, <1>9, <2>1 DEF EngineOK, RowOK
  <2>3. SweepOK(s)'
    BY <1>2, <1>6, <1>9, <2>1 DEF EngineOK, SweepOK, At, Fresh
  <2>4. StatusOK(s)'
    BY <1>6, <1>9 DEF StatusOK
  <2>. QED BY <2>2, <2>3, <2>4 DEF EngineOK
<1>12. ASSUME NEW t \in Strategies \ {s} PROVE EngineOK(t)'
  BY <1>2, <1>3, <1>9, Untouched DEF Sound
<1>13. CampaignsTyped'
  BY <1>2, <1>3, <1>8 DEF CampaignsTyped
<1>14. DriverOK(c)'
  <2>1. campaign[c] # "DONE" /\ campaign'[c] = campaign[c]
    BY <1>2, <1>3 DEF DriverOK
  <2>2. Launched(c)' = Launched(c) /\ Launched(c) = {}
    BY <1>2, <1>3 DEF DriverOK, DriverAt, Launched
  <2>3. \A st \in r.stale : CampaignOf[st[1]] = c
    BY <1>3, <1>5, <1>7 DEF DriverOK
  <2>. QED BY <1>7, <1>8, <2>1, <2>2, <2>3 DEF DriverOK, DriverAt
<1>15. ASSUME NEW d \in Campaigns \ {c} PROVE DriverOK(d)'
  <2>1. \A t \in Strategies : CampaignOf[t] = d => status'[t] = status[t]
    BY <1>5, <1>9
  <2>2. Launched(d)' = Launched(d)
    BY <1>2 DEF Launched
  <2>3. DriverOK(d)
    BY At_c
  <2>. QED BY <1>2, <1>8, <2>1, <2>2, <2>3, QuietDriver
<1>16. EngineTypeOK' /\ CampaignsTyped' => TypeOK'
  BY DEF TypeOK, CampaignsTyped
<1>. QED BY <1>10, <1>11, <1>12, <1>13, <1>14, <1>15, <1>16 DEF IInv

\* A member is launched: its claim is the driver's.
LEMMA LaunchKeeps ==
    ASSUME IInv, NEW c \in Campaigns, NEW s \in Strategies, Launch(c, s)
    PROVE  IInv'
<1>. DEFINE queue == driver[c].queue \ {s}
            r == [driver[c] EXCEPT !.queue = queue]
<1>1. /\ Drive(c, r) /\ driver[c].pc = "queue" /\ Claim(s, c)
      /\ UNCHANGED <<rowVars, control, asked, flags, calls, downs, campaign, order, signal>>
  BY DEF Launch, Turn, DriverAt
<1>2. driver[c] \in Drivers /\ DriverOK(c) /\ Sound /\ c \in Launchers /\ calls \in Nat
      /\ driver \in [Campaigns -> Drivers] /\ CampaignsTyped
  BY At_c
<1>3. queue \in SUBSET Strategies
  BY <1>2 DEF Drivers
<1>. HIDE DEF queue
<1>4. r \in Drivers /\ r.pc = "queue" /\ r.stale = driver[c].stale
  BY <1>1, <1>2, <1>3 DEF Drivers
<1>. HIDE DEF r
<1>5. /\ Sound' /\ sweep'[s].by = c
      /\ \A t \in Strategies \ {s} : sweep'[t] = sweep[t]
  BY <1>1, <1>2, ClaimSound
<1>6. /\ driver' \in [Campaigns -> Drivers] /\ driver'[c] = r
      /\ \A d \in Campaigns \ {c} : driver'[d] = driver[d]
  BY <1>1, <1>2, <1>4 DEF Drive
<1>7. CampaignsTyped'
  BY <1>1, <1>2, <1>6 DEF CampaignsTyped
<1>8. DriverOK(c)'
  <2>1. campaign[c] # "DONE" /\ campaign'[c] = campaign[c]
    BY <1>1, <1>2 DEF DriverOK
  <2>. QED BY <1>2, <1>4, <1>6, <2>1 DEF DriverOK, DriverAt
<1>9. ASSUME NEW d \in Campaigns \ {c} PROVE DriverOK(d)'
  <2>1. Launched(d)' \subseteq Launched(d)
    BY <1>5 DEF Launched
  <2>2. DriverOK(d) /\ (\A t \in Strategies : status'[t] = status[t])
    BY <1>1, At_c DEF rowVars
  <2>. QED BY <1>1, <1>6, <2>1, <2>2, QuietDriver
<1>10. EngineTypeOK' /\ CampaignsTyped' => TypeOK'
  BY DEF TypeOK, CampaignsTyped
<1>. QED BY <1>5, <1>7, <1>8, <1>9, <1>10 DEF IInv, Sound

\* A step of a request to c: the drivers and the rows of the members stay.
LEMMA SignalKeeps ==
    ASSUME IInv, NEW c \in Campaigns,
           UNCHANGED <<rowVars, control, running, sweep, flags, downs, driver>>,
           asked' \in SUBSET (Strategies \X (ControlFlags \cup {"delete"})),
           calls' \in Nat, signal' \in [Campaigns -> Signals],
           order' \in [Campaigns -> ControlFlags \cup {"none"}],
           campaign' \in [Campaigns -> CampaignStatuses \cup {"DELETED"}],
           \A d \in Campaigns \ {c} : campaign'[d] = campaign[d],
           campaign'[c] \in {campaign[c], "PAUSED", "STOPPED", "DELETED"},
           campaign[c] = "DELETED" => campaign'[c] = "DELETED"
    PROVE  IInv'
<1>1. Sound' /\ Calm
  BY At_c, EngineAsItWas
<1>2. CampaignsTyped'
  BY At_c DEF CampaignsTyped
<1>3. DriverOK(c)'
  <2>1. DriverOK(c) /\ Launched(c)' = Launched(c)
    BY At_c DEF Launched
  <2>2. CASE campaign'[c] = campaign[c]
    BY <1>1, <2>1, <2>2, QuietDriver DEF Calm
  <2>3. CASE campaign'[c] \in {"PAUSED", "STOPPED", "DELETED"}
    <3>1. NonePending(c) => NonePending(c)'
      BY <2>3 DEF NonePending, Members, Exists, rowVars
    <3>. QED BY <2>1, <2>3, <3>1 DEF DriverOK, DriverAt
  <2>. QED BY <2>2, <2>3
<1>. QED BY <1>1, <1>2, <1>3, OneDriver

\* A pause or stop is ordered.
LEMMA OrderKeeps ==
    ASSUME IInv, NEW c \in Campaigns, Order(c)
    PROVE  IInv'
<1>1. PICK flag \in ControlFlags :
          /\ order' = [order EXCEPT ![c] = flag]
          /\ signal' = [signal EXCEPT ![c] = [signal[c] EXCEPT !.pc = "list", !.flag = flag]]
  BY DEF Order
<1>2. /\ calls' = calls + 1
      /\ UNCHANGED <<rowVars, control, running, asked, sweep, flags, downs, campaign, driver>>
  BY DEF Order, Call
<1>. DEFINE r == [signal[c] EXCEPT !.pc = "list", !.flag = flag]
<1>3. signal \in [Campaigns -> Signals] /\ signal[c] \in Signals
  BY At_c
<1>4. r \in Signals
  BY <1>3 DEF Signals
<1>5. signal' = [signal EXCEPT ![c] = r]
  BY <1>1
<1>. HIDE DEF r
<1>6. signal' \in [Campaigns -> Signals]
  BY <1>3, <1>4, <1>5
<1>7. /\ order' \in [Campaigns -> ControlFlags \cup {"none"}]
      /\ campaign' \in [Campaigns -> CampaignStatuses \cup {"DELETED"}]
      /\ asked' \in SUBSET (Strategies \X (ControlFlags \cup {"delete"})) /\ calls' \in Nat
  BY <1>1, <1>2, At_c
<1>. QED BY <1>2, <1>6, <1>7, SignalKeeps

\* A pause or stop lists the members that run.
LEMMA SignalListKeeps ==
    ASSUME IInv, NEW c \in Campaigns, SignalList(c)
    PROVE  IInv'
<1>. DEFINE todo == {s \in Members(c) : status[s] = "RUNNING"}
            r == [signal[c] EXCEPT !.pc = "members", !.todo = todo]
<1>1. /\ signal' = [signal EXCEPT ![c] = r]
      /\ UNCHANGED <<engineVars, campaign, order, driver>>
  BY DEF SignalList
<1>2. signal \in [Campaigns -> Signals] /\ signal[c] \in Signals
  BY At_c
<1>3. todo \in SUBSET Strategies
  BY DEF Members
<1>. HIDE DEF todo
<1>4. r \in Signals
  BY <1>2, <1>3 DEF Signals
<1>. HIDE DEF r
<1>5. signal' \in [Campaigns -> Signals]
  BY <1>1, <1>2, <1>4
<1>6. /\ order' \in [Campaigns -> ControlFlags \cup {"none"}]
      /\ campaign' \in [Campaigns -> CampaignStatuses \cup {"DELETED"}]
      /\ asked' \in SUBSET (Strategies \X (ControlFlags \cup {"delete"})) /\ calls' \in Nat
  BY <1>1, At_c DEF engineVars
<1>. QED BY <1>1, <1>5, <1>6, SignalKeeps DEF engineVars

\* A pause or stop reaches a member.
LEMMA SignalMemberKeeps ==
    ASSUME IInv, NEW c \in Campaigns, SignalMember(c)
    PROVE  IInv'
<1>1. PICK s \in signal[c].todo :
          /\ \/ ReadForRequest(s, signal[c].flag)
             \/ status[s] \notin {"RUNNING", "DELETED"} /\ UNCHANGED asked
          /\ signal' = [signal EXCEPT ![c].todo = @ \ {s}]
  BY DEF SignalMember
<1>2. UNCHANGED <<rowVars, control, running, sweep, flags, calls, downs, campaign, order, driver>>
  BY DEF SignalMember
<1>3. signal \in [Campaigns -> Signals] /\ signal[c] \in Signals
  BY At_c
<1>. DEFINE todo == signal[c].todo \ {s}
            r == [signal[c] EXCEPT !.todo = todo]
<1>4. s \in Strategies /\ signal[c].flag \in ControlFlags /\ todo \in SUBSET Strategies
  BY <1>3 DEF Signals
<1>5. signal' = [signal EXCEPT ![c] = r]
  BY <1>1, <1>3
<1>. HIDE DEF todo
<1>6. r \in Signals
  BY <1>3, <1>4 DEF Signals
<1>. HIDE DEF r
<1>7. signal' \in [Campaigns -> Signals]
  BY <1>3, <1>5, <1>6
<1>8. asked' \in SUBSET (Strategies \X (ControlFlags \cup {"delete"}))
  BY <1>1, <1>4, At_c DEF ReadForRequest
<1>9. /\ order' \in [Campaigns -> ControlFlags \cup {"none"}]
      /\ campaign' \in [Campaigns -> CampaignStatuses \cup {"DELETED"}]
      /\ calls' \in Nat
  BY <1>2, At_c
<1>. QED BY <1>2, <1>7, <1>8, <1>9, SignalKeeps

\* A pause or stop is over, or fails on the way.
LEMMA SignalOverKeeps ==
    ASSUME IInv, NEW c \in Campaigns, SignalFails(c) \/ SignalDone(c)
    PROVE  IInv'
<1>1. /\ signal' = [signal EXCEPT ![c] = NoSignal]
      /\ UNCHANGED <<engineVars, order, driver>>
  BY DEF SignalFails, SignalDone
<1>2. /\ campaign' \in [Campaigns -> CampaignStatuses \cup {"DELETED"}]
      /\ \A d \in Campaigns \ {c} : campaign'[d] = campaign[d]
      /\ campaign'[c] \in {campaign[c], "PAUSED", "STOPPED", "DELETED"}
      /\ campaign[c] = "DELETED" => campaign'[c] = "DELETED"
  <2>1. CASE SignalFails(c)
    BY <2>1, At_c DEF SignalFails
  <2>2. CASE SignalDone(c)
    <3>1. PICK new \in {"PAUSED", "STOPPED"} : campaign' = Written(c, new)
      BY <2>2 DEF SignalDone, Ended
    <3>2. new \in CampaignStatuses
      BY DEF CampaignStatuses
    <3>. QED BY <3>1, <3>2, At_c, WrittenAt
  <2>. QED BY <2>1, <2>2
<1>3. signal' \in [Campaigns -> Signals]
  BY <1>1, At_c, SignalAway
<1>4. /\ order' \in [Campaigns -> ControlFlags \cup {"none"}] /\ calls' \in Nat
      /\ asked' \in SUBSET (Strategies \X (ControlFlags \cup {"delete"}))
  BY <1>1, At_c DEF engineVars
<1>. QED BY <1>1, <1>2, <1>3, <1>4, SignalKeeps DEF engineVars

\* A deleted campaign keeps its driver and loses its members.
LEMMA DeleteCampaignKeeps ==
    ASSUME IInv, NEW c \in Campaigns, DeleteCampaign(c)
    PROVE  IInv'
<1>1. /\ campaign' = [campaign EXCEPT ![c] = "DELETED"] /\ calls' = calls + 1
      /\ UNCHANGED <<rowVars, control, running, asked, sweep, flags, downs, order,
                     driver, signal>>
  BY DEF DeleteCampaign, Call
<1>2. /\ campaign' \in [Campaigns -> CampaignStatuses \cup {"DELETED"}]
      /\ campaign'[c] = "DELETED"
      /\ \A d \in Campaigns \ {c} : campaign'[d] = campaign[d]
  BY <1>1, At_c
<1>3. /\ order' \in [Campaigns -> ControlFlags \cup {"none"}] /\ calls' \in Nat
      /\ asked' \in SUBSET (Strategies \X (ControlFlags \cup {"delete"}))
      /\ signal' \in [Campaigns -> Signals]
  BY <1>1, At_c
<1>. QED BY <1>1, <1>2, <1>3, SignalKeeps

\* A crash takes drivers, sweeps and flags; a restart may drive again.
LEMMA CrashKeeps ==
    ASSUME IInv, Crash
    PROVE  IInv'
<1>1. Sound' /\ downs' # 0 /\ \A s \in Strategies : sweep'[s].by = Nobody
  BY IInvParts, EngineLostSound DEF Crash
<1>2. PICK resumed : driver' = [c \in Campaigns |->
                        IF c \in resumed THEN [NoDriver EXCEPT !.pc = "begin"] ELSE NoDriver]
  BY DEF Crash
<1>3. /\ order' = [c \in Campaigns |-> "none"] /\ signal' = [c \in Campaigns |-> NoSignal]
      /\ campaign' = campaign /\ rowVars' = rowVars
  BY DEF Crash, EngineLost
<1>4. /\ [NoDriver EXCEPT !.pc = "begin"] \in Drivers
      /\ [NoDriver EXCEPT !.pc = "begin"].pc = "begin"
      /\ [NoDriver EXCEPT !.pc = "begin"].stale = {}
  <2>1. ASSUME NEW d \in Drivers, d.stale = {}
        PROVE  LET e == [d EXCEPT !.pc = "begin"]
               IN  e \in Drivers /\ e.pc = "begin" /\ e.stale = {}
    BY <2>1 DEF Drivers
  <2>. QED BY <2>1, DriverAway
<1>5. /\ driver' \in [Campaigns -> Drivers]
      /\ \A c \in Campaigns : driver'[c].pc \in {"idle", "begin"} /\ driver'[c].stale = {}
  BY <1>2, <1>4, DriverAway
<1>6. CampaignsTyped'
  BY <1>3, <1>5, IInvParts, SignalAway DEF CampaignsTyped
<1>7. ASSUME NEW c \in Campaigns PROVE DriverOK(c)'
  <2>1. Launched(c)' = {}
    BY <1>1, OwnersAssumption DEF Launched
  <2>2. DriverOK(c) /\ (NonePending(c)' <=> NonePending(c))
    BY <1>3, At_c, RowsStay
  <2>. QED BY <1>1, <1>3, <1>5, <2>1, <2>2 DEF DriverOK, DriverAt
<1>8. EngineTypeOK' /\ CampaignsTyped' => TypeOK'
  BY DEF TypeOK, CampaignsTyped
<1>. QED BY <1>1, <1>6, <1>7, <1>8 DEF IInv, Sound

-----------------------------------------------------------------------------
\* The invariant holds in the beginning.
LEMMA StartsSound ==
    ASSUME Init
    PROVE  IInv
<1>1. /\ status = [s \in Strategies |-> "PENDING"]
      /\ processed = [s \in Strategies |-> 0]
      /\ recorded = [s \in Strategies |-> <<>>]
      /\ blotter = [s \in Strategies |-> [w \in Indices |-> 0]]
      /\ control = [s \in Strategies |-> "none"]
      /\ running = {} /\ asked = {} /\ flags = Nobody /\ calls = 0 /\ downs = 0
      /\ sweep = [s \in Strategies |-> Resting]
  BY DEF Init, EngineInit
<1>2. EngineTypeOK
  <2>1. sweep \in [Strategies -> Sweeps]
    BY <1>1, Rested
  <2>2. recorded \in [Strategies -> Seq(Indices)] /\ processed \in [Strategies -> 0..Windows]
    BY <1>1, EmptySeq, WindowsAssumption
  <2>3. /\ status \in [Strategies -> Statuses \cup {"DELETED"}]
        /\ blotter \in [Strategies -> [Indices -> Nat]]
        /\ control \in [Strategies -> ControlFlags \cup {"none"}]
        /\ running \in SUBSET Strategies
        /\ asked \in SUBSET (Strategies \X (ControlFlags \cup {"delete"}))
    BY <1>1 DEF Statuses
  <2>. QED BY <1>1, <2>1, <2>2, <2>3, LaunchersAssumption DEF EngineTypeOK
<1>3. ASSUME NEW s \in Strategies PROVE EngineOK(s)
  <2>1. sweep[s].pc = "idle"
    BY <1>1, Rested
  <2>2. RowOK(s)
    BY <1>1, PrefixOfNone DEF RowOK
  <2>3. SweepOK(s) /\ StatusOK(s)
    BY <1>1, <2>1 DEF SweepOK, StatusOK, At, Owning
  <2>. QED BY <2>2, <2>3 DEF EngineOK
<1>4. /\ campaign = [c \in Campaigns |-> "PENDING"] /\ order = [c \in Campaigns |-> "none"]
      /\ driver = [c \in Campaigns |-> NoDriver] /\ signal = [c \in Campaigns |-> NoSignal]
  BY DEF Init
<1>5. CampaignsTyped
  BY <1>4, DriverAway, SignalAway DEF CampaignsTyped, CampaignStatuses
<1>6. ASSUME NEW c \in Campaigns PROVE DriverOK(c)
  <2>1. /\ driver[c].pc = "idle" /\ driver[c].stale = {} /\ campaign[c] = "PENDING"
    BY <1>4, DriverAway
  <2>2. Launched(c) = {}
    BY <1>1, Rested, OwnersAssumption DEF Launched
  <2>. QED BY <2>1, <2>2 DEF DriverOK, DriverAt
<1>. QED BY <1>2, <1>3, <1>5, <1>6, IInvParts DEF Sound

\* Every step keeps the invariant.
LEMMA StepKeeps ==
    ASSUME IInv, Next
    PROVE  IInv'
<1>1. ASSUME NEW s \in Strategies, UNCHANGED campaignVars,
             SetFlag(s) \/ DeleteRow(s) \/ SweepStep(s) \/ Run(s) \/ Request(s)
                \/ Delete(s) \/ SweepError(s)
      PROVE  IInv'
  BY <1>1, EngineSound, CalmKeeps, IInvParts
<1>2. ASSUME NEW c \in Campaigns, DriverStep(c)
      PROVE  IInv'
  BY <1>2, BeginKeeps, BeginNothingKeeps, DriverWritesKeep, ListRunningKeeps, NormaliseKeeps,
     ListQueueKeeps, LaunchKeeps, PassOverKeeps, DecideKeeps, DriverEndKeeps DEF DriverStep
<1>3. ASSUME NEW c \in Campaigns, SignalStep(c)
      PROVE  IInv'
  BY <1>3, SignalListKeeps, SignalMemberKeeps, SignalOverKeeps DEF SignalStep
<1>4. ASSUME NEW c \in Campaigns, Start(c) \/ Order(c) \/ DeleteCampaign(c) \/ DriverError(c)
      PROVE  IInv'
  BY <1>4, StartKeeps, OrderKeeps, DeleteCampaignKeeps, DriverErrorKeeps
<1>. QED BY <1>1, <1>2, <1>3, <1>4, CrashKeeps DEF Next, LoopStep

\* A stuttering step keeps the invariant.
LEMMA StutterKeeps ==
    ASSUME IInv, UNCHANGED vars
    PROVE  IInv'
<1>1. Sound /\ Sound' /\ Calm
  BY IInvParts, EngineAsItWas DEF vars, engineVars, Sound, EngineTypeOK
<1>2. UNCHANGED campaignVars
  BY DEF vars
<1>. QED BY <1>1, <1>2, CalmKeeps

\* The inductive invariant: whatever is asked, whatever fails and wherever the
\* process restarts, each row, its sweep and its campaign's driver agree.
THEOREM Invariance == Spec => []IInv
<1>1. Init => IInv
  BY StartsSound
<1>2. IInv /\ [Next]_vars => IInv'
  BY StepKeeps, StutterKeeps
<1>. QED BY <1>1, <1>2, PTL DEF Spec

\* The types of the rows and of the locals of every task.
THEOREM TypeCorrect == Spec => []TypeOK
<1>1. IInv => TypeOK
  BY DEF IInv
<1>. QED BY <1>1, Invariance, PTL

\* The results of a row are those of the windows before its cursor, in order
\* and each once, over pauses, stops, restarts and errors (engine.py, _init_row
\* and _checkpoint), and a COMPLETED row has them all.
THEOREM Prefixed == Spec => []RowIsAPrefix
<1>1. IInv => RowIsAPrefix
  BY DEF IInv, EngineOK, RowOK, RowIsAPrefix, Prefix
<1>. QED BY <1>1, Invariance, PTL

\* Nothing is RUNNING without a task that ends it, as long as nothing fails.
THEOREM Driven == Spec => []RunningIsDriven
<1>1. IInv => RunningIsDriven
  <2>. SUFFICES ASSUME IInv, downs = 0 PROVE RunningIsDriven
    BY DEF RunningIsDriven
  <2>1. ASSUME NEW s \in Strategies, status[s] = "RUNNING" PROVE s \in running
    BY <2>1 DEF IInv, EngineOK, StatusOK, SweepOK, At, Owning
  <2>2. ASSUME NEW c \in Campaigns, campaign[c] = "RUNNING" PROVE ~ DriverAt(c, "idle")
    BY <2>2 DEF IInv, DriverOK, DriverAt
  <2>. QED BY <2>1, <2>2 DEF RunningIsDriven
<1>. QED BY <1>1, Invariance, PTL

\* A campaign is DONE only when none of its members was left PENDING: not by
\* the order, by the slots, nor by what a crash left RUNNING (campaign_runner.py).
THEOREM Complete == Spec => []NothingSkipped
<1>1. IInv => NothingSkipped
  BY DEF IInv, DriverOK, NonePending, NothingSkipped
<1>. QED BY <1>1, Invariance, PTL

-----------------------------------------------------------------------------
(***************************************************************************)
(* The blotter.                                                            *)
(***************************************************************************)

\* A blotter stays right as long as its cursor does.
LEMMA BlotterStays ==
    ASSUME NEW s \in Strategies, BlotterOK(s), blotter'[s] = blotter[s],
           processed'[s] = processed[s], Exists(s)' <=> Exists(s),
           \/ sweep'[s] = sweep[s]
           \/ /\ sweep[s].pc \notin {"clear", "checkpoint"}
              /\ sweep'[s].pc # "checkpoint" \/ ~ Exists(s),
           downs' = 0 => downs = 0
    PROVE  BlotterOK(s)'
BY DEF BlotterOK, Batches, At

\* A sweep that moves on: r is opaque to the prover.
LEMMA SweepAt ==
    ASSUME Sound, NEW s \in Strategies, NEW r, Continue(s, r)
    PROVE  /\ sweep'[s] = r /\ \A t \in Strategies \ {s} : sweep'[t] = sweep[t]
BY HasTypes DEF Continue

\* A sweep that goes on is where it went.
LEMMA MovesTo ==
    ASSUME Sound, NEW s \in Strategies, NEW pc, Continue(s, [sweep[s] EXCEPT !.pc = pc])
    PROVE  sweep'[s].pc = pc
<1>. DEFINE r == [sweep[s] EXCEPT !.pc = pc]
<1>1. sweep[s] \in Sweeps
  BY HasTypes
<1>2. r.pc = pc
  BY <1>1 DEF Sweeps
<1>3. Continue(s, r)
  OBVIOUS
<1>. HIDE DEF r
<1>. QED BY <1>2, <1>3, SweepAt

\* The steps of a sweep that leave the blotter, the cursor and the windows alone.
LEMMA QuietBlotter ==
    ASSUME Sound, NEW s \in Strategies, BlotterOK(s),
           ReadRow(s) \/ Load(s) \/ Boundary(s) \/ AbortWindow(s) \/ TradeForNobody(s)
              \/ Ranked(s) \/ Fail(s) \/ End(s)
    PROVE  BlotterOK(s)'
<1>1. sweep[s] \in Sweeps /\ sweep \in [Strategies -> Sweeps]
      /\ status \in [Strategies -> Statuses \cup {"DELETED"}]
  BY HasTypes
<1>2. sweep[s].pc \in {"read", "load", "boundary", "scan", "ranks", "failing", "end"}
  BY DEF ReadRow, Load, Boundary, AbortWindow, TradeForNobody, Ranked, Fail, End, At
<1>3. UNCHANGED <<processed, blotter, downs>>
  BY DEF ReadRow, Load, Boundary, AbortWindow, TradeForNobody, Ranked, Fail, End, rowVars
<1>4. Exists(s)' <=> Exists(s)
  <2>1. CASE Fail(s)
    BY <1>1, <2>1 DEF Fail, Updated, Exists
  <2>2. CASE ~ Fail(s)
    BY <2>2 DEF ReadRow, Load, Boundary, AbortWindow, TradeForNobody, Ranked, End, Exists, rowVars
  <2>. QED BY <2>1, <2>2
<1>5. sweep'[s].pc # "checkpoint" \/ ~ Exists(s)
  <2>1. CASE ReadRow(s)
    <3>. DEFINE pc == CASE status[s] = "DELETED" -> "failing"
                        [] status[s] = "RUNNING" -> "end"
                        [] OTHER -> "init"
                next == IF Resuming(s) THEN processed[s] ELSE 0
                windows == IF Resuming(s) THEN recorded[s] ELSE <<>>
    <3>1. /\ Continue(s, [sweep[s] EXCEPT !.pc = pc, !.next = next, !.windows = windows])
          /\ pc # "checkpoint"
      BY <2>1 DEF ReadRow
    <3>. HIDE DEF pc, next, windows
    <3>2. [sweep[s] EXCEPT !.pc = pc, !.next = next, !.windows = windows].pc = pc
      BY <1>1 DEF Sweeps
    <3>. QED BY <3>1, <3>2, SweepAt
  <2>2. CASE Load(s)
    <3>. DEFINE pc == IF sweep[s].next < Windows THEN "boundary" ELSE "failing"
    <3>1. /\ Continue(s, [sweep[s] EXCEPT !.pc = pc, !.costs = flags])
          /\ pc # "checkpoint"
      BY <2>2 DEF Load
    <3>. HIDE DEF pc
    <3>2. [sweep[s] EXCEPT !.pc = pc, !.costs = flags].pc = pc
      BY <1>1 DEF Sweeps
    <3>. QED BY <3>1, <3>2, SweepAt
  <2>3. CASE Boundary(s) \/ AbortWindow(s) \/ Ranked(s) \/ Fail(s)
    <3>3. PICK pc \in {"scan", "final", "end"} : \E terminal :
             \/ Continue(s, [sweep[s] EXCEPT !.pc = pc])
             \/ Continue(s, [sweep[s] EXCEPT !.pc = pc, !.terminal = terminal])
      BY <2>3 DEF Boundary, AbortWindow, Ranked, Fail
    <3>1. PICK terminal :
             \/ Continue(s, [sweep[s] EXCEPT !.pc = pc])
             \/ Continue(s, [sweep[s] EXCEPT !.pc = pc, !.terminal = terminal])
      BY <3>3
    <3>2. /\ [sweep[s] EXCEPT !.pc = pc].pc = pc
          /\ [sweep[s] EXCEPT !.pc = pc, !.terminal = terminal].pc = pc
      BY <1>1 DEF Sweeps
    <3>. QED BY <3>1, <3>2, SweepAt
  <2>4. CASE TradeForNobody(s)
    BY <2>4 DEF TradeForNobody
  <2>5. CASE End(s)
    BY <2>5, SweepAt, Rested DEF End
  <2>. QED BY <2>1, <2>2, <2>3, <2>4, <2>5
<1>. QED BY <1>2, <1>3, <1>4, <1>5, BlotterStays

\* A fresh start excuses the old batches until they are deleted.
LEMMA InitRowBlotter ==
    ASSUME Sound, NEW s \in Strategies, BlotterOK(s), InitRow(s)
    PROVE  BlotterOK(s)'
<1>1. sweep[s] \in Sweeps /\ sweep[s].pc = "init"
      /\ status \in [Strategies -> Statuses \cup {"DELETED"}]
      /\ processed \in [Strategies -> 0..Windows]
  BY HasTypes DEF InitRow, At
<1>2. blotter' = blotter /\ downs' = downs /\ (Exists(s)' <=> Exists(s))
  BY <1>1 DEF InitRow, Updated, Exists
<1>3. CASE Fresh(s)
  <2>1. Continue(s, [sweep[s] EXCEPT !.pc = "clear"])
    BY <1>3 DEF InitRow
  <2>2. sweep'[s].pc = "clear"
    BY <1>1, <2>1, MovesTo
  <2>. QED BY <2>2 DEF BlotterOK, At
<1>4. CASE ~ Fresh(s)
  <2>1. Continue(s, [sweep[s] EXCEPT !.pc = "load"]) /\ processed'[s] = processed[s]
    BY <1>1, <1>4 DEF InitRow
  <2>2. sweep'[s].pc = "load"
    BY <1>1, <2>1, MovesTo
  <2>. QED BY <1>1, <1>2, <2>1, <2>2, BlotterStays
<1>. QED BY <1>3, <1>4

\* After the deletion there is no batch, and the cursor is at the start.
LEMMA ClearTradesBlotter ==
    ASSUME Sound, NEW s \in Strategies, ClearTrades(s)
    PROVE  BlotterOK(s)'
<1>1. /\ sweep[s] \in Sweeps /\ EngineOK(s) /\ sweep[s].pc = "clear"
      /\ blotter \in [Strategies -> [Indices -> Nat]] /\ processed[s] \in 0..Windows
      /\ status[s] \in Statuses \cup {"DELETED"}
  BY HasTypes DEF ClearTrades, At
<1>2. /\ Continue(s, [sweep[s] EXCEPT !.pc = "load"])
      /\ blotter' = [blotter EXCEPT ![s] = Cleared(s)] /\ processed' = processed
  BY DEF ClearTrades
<1>3. processed[s] = 0
  BY <1>1 DEF EngineOK, SweepOK, RowOK, At, Owning, Exists
<1>4. sweep'[s].pc = "load"
  BY <1>1, <1>2, MovesTo
<1>5. \A w \in Indices : blotter'[s][w] = 0 /\ ~ (w < 0)
  BY <1>1, <1>2 DEF Cleared, Indices
<1>. QED BY <1>2, <1>3, <1>4, <1>5 DEF BlotterOK, Batches, At

\* The batch of the window at the cursor is the one ahead of it.
LEMMA TradeWindowBlotter ==
    ASSUME Sound, NEW s \in Strategies, BlotterOK(s), TradeWindow(s)
    PROVE  BlotterOK(s)'
<1>1. /\ sweep[s] \in Sweeps /\ EngineOK(s) /\ sweep[s].pc = "scan" /\ Exists(s)
      /\ blotter \in [Strategies -> [Indices -> Nat]] /\ processed[s] \in 0..Windows
  BY HasTypes DEF TradeWindow, At
<1>. DEFINE windows == Append(sweep[s].windows, sweep[s].next)
<1>2. /\ Continue(s, [sweep[s] EXCEPT !.pc = "checkpoint", !.windows = windows])
      /\ blotter' = [blotter EXCEPT ![s][sweep[s].next] = @ + 1]
      /\ UNCHANGED <<status, processed, downs>>
  BY DEF TradeWindow
<1>. HIDE DEF windows
<1>3. /\ [sweep[s] EXCEPT !.pc = "checkpoint", !.windows = windows].pc = "checkpoint"
      /\ [sweep[s] EXCEPT !.pc = "checkpoint", !.windows = windows].next = sweep[s].next
  BY <1>1 DEF Sweeps
<1>4. sweep'[s].pc = "checkpoint" /\ sweep'[s].next = sweep[s].next
  BY <1>2, <1>3, SweepAt
<1>5. processed[s] = sweep[s].next /\ sweep[s].next \in Indices
  BY <1>1, WindowsAssumption DEF EngineOK, SweepOK, At, Owning, Sweeps, Indices
<1>. SUFFICES ASSUME downs = 0, NEW w \in Indices PROVE blotter'[s][w] = Batches(s, w)'
  BY <1>2 DEF BlotterOK
<1>6. blotter[s][w] = Batches(s, w)
  BY <1>1 DEF BlotterOK, At
<1>7. CASE w = sweep[s].next
  <2>1. blotter'[s][w] = blotter[s][w] + 1
    BY <1>1, <1>2, <1>5, <1>7
  <2>2. Batches(s, w) = 0
    BY <1>1, <1>5, <1>7 DEF Batches, At, Indices
  <2>3. Batches(s, w)' = 1
    BY <1>1, <1>2, <1>4, <1>7 DEF Batches, At, Exists
  <2>. QED BY <1>6, <2>1, <2>2, <2>3
<1>8. CASE w # sweep[s].next
  <2>1. blotter'[s][w] = blotter[s][w]
    BY <1>1, <1>2, <1>5, <1>8
  <2>2. Batches(s, w)' = Batches(s, w)
    BY <1>1, <1>2, <1>4, <1>8 DEF Batches, At, Exists
  <2>. QED BY <1>6, <2>1, <2>2
<1>. QED BY <1>7, <1>8

\* The checkpoint catches up with the batch.
LEMMA CheckpointBlotter ==
    ASSUME Sound, NEW s \in Strategies, BlotterOK(s), Checkpoint(s)
    PROVE  BlotterOK(s)'
<1>1. /\ sweep[s] \in Sweeps /\ EngineOK(s) /\ sweep[s].pc = "checkpoint"
      /\ processed \in [Strategies -> 0..Windows] /\ processed[s] \in 0..Windows
      /\ status[s] \in Statuses \cup {"DELETED"}
  BY HasTypes DEF Checkpoint, At
<1>. DEFINE next == sweep[s].next + 1
<1>2. /\ Continue(s, [sweep[s] EXCEPT !.pc = "boundary", !.next = next])
      /\ processed' = [processed EXCEPT ![s] = IF Exists(s) THEN next ELSE @]
      /\ UNCHANGED <<status, blotter, downs>>
  BY DEF Checkpoint, Cursor
<1>. HIDE DEF next
<1>3. [sweep[s] EXCEPT !.pc = "boundary", !.next = next].pc = "boundary"
  BY <1>1 DEF Sweeps
<1>4. sweep'[s].pc = "boundary"
  BY <1>2, <1>3, SweepAt
<1>5. next = sweep[s].next + 1 /\ sweep[s].next \in Nat
  BY <1>1, WindowsAssumption DEF next, Sweeps
<1>6. Exists(s) => processed[s] = sweep[s].next
  BY <1>1 DEF EngineOK, SweepOK, Owning
<1>. SUFFICES ASSUME downs = 0, NEW w \in Indices PROVE blotter'[s][w] = Batches(s, w)'
  BY <1>2 DEF BlotterOK
<1>7. blotter[s][w] = Batches(s, w) /\ w \in Int
  BY <1>1 DEF BlotterOK, At, Indices
<1>8. Batches(s, w)' = Batches(s, w)
  <2>1. CASE Exists(s)
    <3>1. processed'[s] = next
      BY <1>1, <1>2, <2>1
    <3>2. w < next <=> w < sweep[s].next \/ w = sweep[s].next
      BY <1>5, <1>7
    <3>. QED BY <1>1, <1>4, <1>6, <2>1, <3>1, <3>2 DEF Batches, At
  <2>2. CASE ~ Exists(s)
    BY <1>1, <1>2, <1>4, <2>2 DEF Batches, At
  <2>. QED BY <2>1, <2>2
<1>. QED BY <1>2, <1>7, <1>8

\* The last status changes neither cursor nor batches.
LEMMA FinaliseBlotter ==
    ASSUME Sound, NEW s \in Strategies, BlotterOK(s), Finalise(s)
    PROVE  BlotterOK(s)'
<1>1. /\ sweep[s] \in Sweeps /\ EngineOK(s) /\ sweep[s].pc = "final"
      /\ processed \in [Strategies -> 0..Windows]
      /\ status \in [Strategies -> Statuses \cup {"DELETED"}]
      /\ sweep[s].terminal # "DELETED"
  <2>1. sweep[s] \in Sweeps
    BY HasTypes
  <2>. QED BY <2>1, HasTypes DEF Finalise, At, Sweeps
<1>. DEFINE pc == IF sweep[s].terminal = "PAUSED" THEN "end" ELSE "ranks"
<1>2. /\ Continue(s, [sweep[s] EXCEPT !.pc = pc]) /\ UNCHANGED <<blotter, downs>>
      /\ processed' = [processed EXCEPT ![s] = IF Exists(s) THEN sweep[s].next ELSE @]
  BY DEF Finalise
<1>6. pc # "checkpoint"
  OBVIOUS
<1>. HIDE DEF pc
<1>3. sweep'[s].pc = pc
  BY <1>1, <1>2, MovesTo
<1>4. Exists(s)' <=> Exists(s)
  BY <1>1 DEF Finalise, Updated, Exists
<1>5. processed'[s] = processed[s]
  BY <1>1, <1>2 DEF EngineOK, SweepOK, Owning
<1>. QED BY <1>1, <1>2, <1>3, <1>4, <1>5, <1>6, BlotterStays

\* A row that is gone has no batches.
LEMMA DeleteRowBlotter ==
    ASSUME Sound, NEW s \in Strategies, DeleteRow(s)
    PROVE  BlotterOK(s)'
<1>1. /\ status \in [Strategies -> Statuses \cup {"DELETED"}]
      /\ processed \in [Strategies -> 0..Windows]
      /\ blotter \in [Strategies -> [Indices -> Nat]]
  BY HasTypes
<1>2. /\ blotter'[s] = Cleared(s) /\ processed'[s] = 0 /\ status'[s] = "DELETED"
  BY <1>1 DEF DeleteRow
<1>3. \A w \in Indices : blotter'[s][w] = 0 /\ ~ (w < 0)
  BY <1>2 DEF Cleared, Indices
<1>. QED BY <1>2, <1>3 DEF BlotterOK, Batches, Exists

\* A step of s leaves the others' rows, blotters and sweeps alone.
LEMMA OthersBlotter ==
    ASSUME Sound, NEW s \in Strategies, NEW t \in Strategies \ {s}, BlotterOK(t),
           DeleteRow(s) \/ SweepStep(s) \/ (\E by \in Launchers : Claim(s, by) /\ rowVars' = rowVars),
           downs' = 0 => downs = 0
    PROVE  BlotterOK(t)'
<1>1. sweep'[t] = sweep[t]
  BY HasTypes DEF DeleteRow, SweepStep, ReadRow, InitRow, ClearTrades, Load, Boundary,
     AbortWindow, TradeWindow, TradeForNobody, Checkpoint, Finalise, Ranked, Fail, End,
     Claim, Continue
<1>2. status'[t] = status[t]
  BY HasTypes DEF DeleteRow, SweepStep, ReadRow, InitRow, ClearTrades, Load, Boundary,
     AbortWindow, TradeWindow, TradeForNobody, Checkpoint, Finalise, Ranked, Fail, End,
     Updated, rowVars
<1>3. processed'[t] = processed[t]
  BY HasTypes DEF DeleteRow, SweepStep, ReadRow, InitRow, ClearTrades, Load, Boundary,
     AbortWindow, TradeWindow, TradeForNobody, Checkpoint, Finalise, Ranked, Fail, End, rowVars
<1>4. blotter'[t] = blotter[t]
  BY HasTypes DEF DeleteRow, SweepStep, ReadRow, InitRow, ClearTrades, Load, Boundary,
     AbortWindow, TradeWindow, TradeForNobody, Checkpoint, Finalise, Ranked, Fail, End, rowVars
<1>. QED BY <1>1, <1>2, <1>3, <1>4, BlotterStays DEF Exists

\* A claim changes neither cursor nor batches.
LEMMA ClaimBlotter ==
    ASSUME Sound, NEW s \in Strategies, BlotterOK(s), NEW by \in Launchers, Claim(s, by),
           UNCHANGED <<rowVars, downs>>
    PROVE  BlotterOK(s)'
<1>. DEFINE r == [Resting EXCEPT !.pc = "read", !.by = by]
<1>1. r.pc = "read" /\ Continue(s, r)
  BY Claimed DEF Claim
<1>. HIDE DEF r
<1>2. sweep'[s].pc = "read"
  BY <1>1, SweepAt
<1>3. sweep[s].pc = "idle"
  BY DEF Sound, EngineOK, SweepOK, At, Claim, Unclaimed
<1>. QED BY <1>2, <1>3, BlotterStays DEF rowVars, Exists

\* After a failure nothing is promised of the blotter.
LEMMA FailedBlotter ==
    ASSUME downs' # 0, NEW s \in Strategies
    PROVE  BlotterOK(s)'
BY DEF BlotterOK

\* Who leaves rows and sweeps alone keeps the blotter right.
LEMMA SameBlotter ==
    ASSUME NEW s \in Strategies, BlotterOK(s), UNCHANGED <<rowVars, sweep, downs>>
    PROVE  BlotterOK(s)'
BY BlotterStays DEF rowVars, Exists

\* A step of one sweep keeps every blotter right.
LEMMA SweepBlotter ==
    ASSUME Sound, \A t \in Strategies : BlotterOK(t), NEW s \in Strategies,
           SweepStep(s) \/ DeleteRow(s)
    PROVE  \A t \in Strategies : BlotterOK(t)'
<1>1. BlotterOK(s)'
  BY QuietBlotter, InitRowBlotter, ClearTradesBlotter, TradeWindowBlotter, CheckpointBlotter,
     FinaliseBlotter, DeleteRowBlotter DEF SweepStep
<1>2. downs' = downs
  BY DEF SweepStep, DeleteRow, ReadRow, InitRow, ClearTrades, Load, Boundary, AbortWindow,
     TradeWindow, TradeForNobody, Checkpoint, Finalise, Ranked, Fail, End
<1>. QED BY <1>1, <1>2, OthersBlotter

\* Every step of the engine keeps every blotter right.
LEMMA EngineBlotter ==
    ASSUME Sound, \A t \in Strategies : BlotterOK(t), NEW s \in Strategies,
           SetFlag(s) \/ DeleteRow(s) \/ SweepStep(s) \/ Run(s) \/ Request(s) \/ Delete(s)
              \/ SweepError(s)
    PROVE  \A t \in Strategies : BlotterOK(t)'
<1>1. CASE SweepStep(s) \/ DeleteRow(s)
  BY <1>1, SweepBlotter
<1>2. CASE Run(s)
  <2>1. Claim(s, Nobody) /\ UNCHANGED <<rowVars, downs>> /\ Nobody \in Launchers
    BY <1>2, LaunchersAssumption DEF Run
  <2>. QED BY <2>1, ClaimBlotter, OthersBlotter
<1>3. CASE SetFlag(s) \/ Request(s) \/ Delete(s)
  BY <1>3, SameBlotter DEF SetFlag, Request, Delete
<1>4. CASE SweepError(s)
  <2>1. downs' # 0
    BY <1>4 DEF SweepError, Sound, EngineTypeOK
  <2>. QED BY <2>1, FailedBlotter
<1>. QED BY <1>1, <1>2, <1>3, <1>4

\* A driver changes neither cursors nor batches.
LEMMA DriverBlotter ==
    ASSUME IInv, \A t \in Strategies : BlotterOK(t), NEW c \in Campaigns, DriverStep(c)
    PROVE  \A t \in Strategies : BlotterOK(t)'
<1>1. CASE Normalise(c)
  <2>1. PICK s \in Strategies, new \in {"PAUSED", "PENDING"} : status' = Updated(s, new)
    <3>1. PICK stale \in driver[c].stale : status' = Updated(stale[1], stale[2])
      BY <1>1 DEF Normalise
    <3>2. driver[c] \in Drivers
      BY At_c
    <3>3. stale[1] \in Strategies /\ stale[2] \in {"PAUSED", "PENDING"}
      BY <3>2 DEF Drivers
    <3>. QED BY <3>1, <3>3
  <2>2. ASSUME NEW t \in Strategies PROVE Exists(t)' <=> Exists(t)
    <3>1. status \in [Strategies -> Statuses \cup {"DELETED"}]
      BY IInvParts, HasTypes
    <3>. QED BY <2>1, <3>1 DEF Updated, Exists
  <2>3. UNCHANGED <<processed, blotter, sweep, downs>>
    BY <1>1 DEF Normalise
  <2>. QED BY <2>2, <2>3, BlotterStays
<1>2. ASSUME NEW s \in Strategies, Launch(c, s) PROVE \A t \in Strategies : BlotterOK(t)'
  <2>1. Claim(s, c) /\ UNCHANGED <<rowVars, downs>> /\ c \in Launchers /\ Sound
    BY <1>2, At_c DEF Launch
  <2>. QED BY <2>1, ClaimBlotter, OthersBlotter
<1>3. ASSUME UNCHANGED <<rowVars, sweep, downs>> PROVE \A t \in Strategies : BlotterOK(t)'
  BY <1>3, SameBlotter
<1>4. ASSUME DriverStep(c), ~ Normalise(c), \A s \in Strategies : ~ Launch(c, s)
      PROVE  UNCHANGED <<rowVars, sweep, downs>>
  BY <1>4 DEF DriverStep, Begin, BeginNothing, Mark, ListRunning, ListQueue, PassOver, Decide,
     WriteVerdict, Excepted, DriverEnd, engineVars
<1>. QED BY <1>1, <1>2, <1>3, <1>4

\* Every step keeps every blotter right.
LEMMA StepBlotter ==
    ASSUME IInv, \A t \in Strategies : BlotterOK(t), Next
    PROVE  \A t \in Strategies : BlotterOK(t)'
<1>1. Sound /\ downs \in Nat
  BY IInvParts DEF Sound, EngineTypeOK
<1>2. ASSUME NEW c \in Campaigns, SignalStep(c) \/ Start(c) \/ Order(c) \/ DeleteCampaign(c)
      PROVE  \A t \in Strategies : BlotterOK(t)'
  <2>1. UNCHANGED <<rowVars, sweep, downs>>
    BY <1>2 DEF SignalStep, SignalList, SignalMember, SignalFails, SignalDone, Start, Order,
       DeleteCampaign, engineVars
  <2>. QED BY <2>1, SameBlotter
<1>3. ASSUME Crash \/ (\E c \in Campaigns : DriverError(c))
      PROVE  \A t \in Strategies : BlotterOK(t)'
  <2>1. downs' # 0
    <3>1. downs' = downs + 1
      BY <1>3 DEF Crash, EngineLost, DriverError
    <3>. QED BY <1>1, <3>1
  <2>. QED BY <2>1, FailedBlotter
<1>. QED BY <1>1, <1>2, <1>3, EngineBlotter, DriverBlotter DEF Next, LoopStep

\* The blotter has the trades of exactly the windows that the row records, and
\* of the one about to be recorded: nothing is booked twice over a pause and a
\* resume, and nothing for a strategy deleted under its sweep, as long as no
\* crash or error comes between the insert and the checkpoint.
THEOREM Booked == Spec => []BlotterMatchesRow
<1>. DEFINE Inv == IInv /\ \A s \in Strategies : BlotterOK(s)
<1>1. Init => Inv
  <2>. SUFFICES ASSUME Init PROVE \A s \in Strategies : BlotterOK(s)
    BY StartsSound
  <2>1. ASSUME NEW s \in Strategies PROVE BlotterOK(s)
    <3>1. /\ blotter[s] = [w \in Indices |-> 0] /\ processed[s] = 0
          /\ sweep[s].pc = "idle"
      BY Rested DEF Init, EngineInit
    <3>2. \A w \in Indices : ~ (w < 0)
      BY DEF Indices
    <3>. QED BY <3>1, <3>2 DEF BlotterOK, Batches, At
  <2>. QED BY <2>1
<1>2. Inv /\ [Next]_vars => Inv'
  <2>1. CASE UNCHANGED vars
    BY <2>1, StutterKeeps, SameBlotter DEF vars, engineVars
  <2>. QED BY <2>1, StepKeeps, StepBlotter
<1>3. Inv => BlotterMatchesRow
  BY DEF BlotterOK, Batches, BlotterMatchesRow
<1>. HIDE DEF Inv
<1>. QED BY <1>1, <1>2, <1>3, PTL DEF Spec

-----------------------------------------------------------------------------
(***************************************************************************)
(* The cost flags, when there is one campaign.                             *)
(***************************************************************************)

\* A step that neither moves flags nor a driver, and charges no sweep anew.
LEMMA FlagsStay ==
    ASSUME FlagsOK, UNCHANGED <<flags, driver>>, downs' = 0 => downs = 0,
           \A s \in Strategies :
              \/ sweep'[s] = sweep[s]
              \/ sweep'[s].pc \notin {"boundary", "scan", "checkpoint"}
              \/ /\ sweep[s].pc \in {"boundary", "scan", "checkpoint"}
                 /\ sweep'[s].by = sweep[s].by /\ sweep'[s].costs = sweep[s].costs
              \/ sweep'[s].by # Nobody => sweep'[s].costs = sweep'[s].by
    PROVE  FlagsOK'
<1>1. HonestCosts'
  BY DEF FlagsOK, HonestCosts
<1>. QED BY <1>1 DEF FlagsOK

\* The sweeps that a campaign launched run while it is driven: the flags are its.
LEMMA LaunchedWithFlags ==
    ASSUME IInv, FlagsOK, NEW s \in Strategies
    PROVE  sweep[s].by # Nobody => flags = sweep[s].by
<1>. SUFFICES ASSUME sweep[s].by # Nobody PROVE flags = sweep[s].by
  OBVIOUS
<1>1. sweep[s] \in Sweeps
  BY IInvParts, HasTypes
<1>. DEFINE c == sweep[s].by
<1>2. c \in Campaigns
  BY <1>1, OwnersAssumption DEF Sweeps
<1>3. s \in Launched(c)
  BY DEF Launched
<1>. HIDE DEF c
<1>4. driver[c].pc = "queue"
  BY <1>2, <1>3 DEF IInv, DriverOK, DriverAt
<1>. QED BY <1>2, <1>4 DEF FlagsOK, Driving, c

\* A sweep runs under the cost flags it was launched with.
LEMMA SweepFlags ==
    ASSUME IInv, FlagsOK, NEW s \in Strategies, SweepStep(s), UNCHANGED campaignVars
    PROVE  FlagsOK'
<1>1. /\ flags' = flags /\ downs' = downs /\ driver' = driver
  BY DEF SweepStep, ReadRow, InitRow, ClearTrades, Load, Boundary, AbortWindow, TradeWindow,
     TradeForNobody, Checkpoint, Finalise, Ranked, Fail, End, campaignVars
<1>2. /\ Sound /\ sweep \in [Strategies -> Sweeps] /\ sweep[s] \in Sweeps
  BY IInvParts, HasTypes
<1>3. \A t \in Strategies \ {s} : sweep'[t] = sweep[t]
  BY <1>2 DEF SweepStep, ReadRow, InitRow, ClearTrades, Load, Boundary,
     AbortWindow, TradeWindow, TradeForNobody, Checkpoint, Finalise, Ranked, Fail, End, Continue
<1>4. \/ sweep'[s].pc \notin {"boundary", "scan", "checkpoint"}
      \/ /\ sweep[s].pc \in {"boundary", "scan", "checkpoint"}
         /\ sweep'[s].by = sweep[s].by /\ sweep'[s].costs = sweep[s].costs
      \/ sweep'[s].by # Nobody => sweep'[s].costs = sweep'[s].by
  <2>1. CASE ReadRow(s)
    <3>. DEFINE pc == CASE status[s] = "DELETED" -> "failing"
                        [] status[s] = "RUNNING" -> "end"
                        [] OTHER -> "init"
                next == IF Resuming(s) THEN processed[s] ELSE 0
                windows == IF Resuming(s) THEN recorded[s] ELSE <<>>
    <3>1. /\ Continue(s, [sweep[s] EXCEPT !.pc = pc, !.next = next, !.windows = windows])
          /\ pc \notin {"boundary", "scan", "checkpoint"}
      BY <2>1 DEF ReadRow
    <3>. HIDE DEF pc, next, windows
    <3>2. [sweep[s] EXCEPT !.pc = pc, !.next = next, !.windows = windows].pc = pc
      BY <1>2 DEF Sweeps
    <3>. QED BY <1>2, <3>1, <3>2, SweepAt
  <2>2. CASE Load(s)
    <3>. DEFINE pc == IF sweep[s].next < Windows THEN "boundary" ELSE "failing"
                r == [sweep[s] EXCEPT !.pc = pc, !.costs = flags]
    <3>1. Continue(s, r)
      BY <2>2 DEF Load
    <3>. HIDE DEF pc
    <3>2. r.costs = flags /\ r.by = sweep[s].by
      BY <1>2 DEF Sweeps
    <3>. HIDE DEF r
    <3>. QED BY <1>2, <3>1, <3>2, SweepAt, LaunchedWithFlags
  <2>3. CASE Boundary(s) \/ AbortWindow(s) \/ TradeForNobody(s) \/ TradeWindow(s) \/ Checkpoint(s)
    <3>1. sweep[s].pc \in {"boundary", "scan", "checkpoint"}
      BY <2>3 DEF Boundary, AbortWindow, TradeForNobody, TradeWindow, Checkpoint, At
    <3>2. PICK r : Continue(s, r) /\ r.by = sweep[s].by /\ r.costs = sweep[s].costs
      <4>1. CASE Boundary(s) \/ AbortWindow(s)
        <5>1. PICK pc, terminal :
                 \/ Continue(s, [sweep[s] EXCEPT !.pc = pc])
                 \/ Continue(s, [sweep[s] EXCEPT !.pc = pc, !.terminal = terminal])
          BY <4>1 DEF Boundary, AbortWindow
        <5>2. /\ [sweep[s] EXCEPT !.pc = pc].by = sweep[s].by
              /\ [sweep[s] EXCEPT !.pc = pc].costs = sweep[s].costs
              /\ [sweep[s] EXCEPT !.pc = pc, !.terminal = terminal].by = sweep[s].by
              /\ [sweep[s] EXCEPT !.pc = pc, !.terminal = terminal].costs = sweep[s].costs
          BY <1>2 DEF Sweeps
        <5>. QED BY <5>1, <5>2
      <4>2. CASE TradeForNobody(s) \/ TradeWindow(s)
        <5>. DEFINE windows == Append(sweep[s].windows, sweep[s].next)
        <5>1. PICK pc : Continue(s, [sweep[s] EXCEPT !.pc = pc, !.windows = windows])
          BY <4>2 DEF TradeForNobody, TradeWindow
        <5>. HIDE DEF windows
        <5>2. /\ [sweep[s] EXCEPT !.pc = pc, !.windows = windows].by = sweep[s].by
              /\ [sweep[s] EXCEPT !.pc = pc, !.windows = windows].costs = sweep[s].costs
          BY <1>2 DEF Sweeps
        <5>. QED BY <5>1, <5>2
      <4>3. CASE Checkpoint(s)
        <5>. DEFINE next == sweep[s].next + 1
        <5>1. Continue(s, [sweep[s] EXCEPT !.pc = "boundary", !.next = next])
          BY <4>3 DEF Checkpoint
        <5>. HIDE DEF next
        <5>2. /\ [sweep[s] EXCEPT !.pc = "boundary", !.next = next].by = sweep[s].by
              /\ [sweep[s] EXCEPT !.pc = "boundary", !.next = next].costs = sweep[s].costs
          BY <1>2 DEF Sweeps
        <5>. QED BY <5>1, <5>2
      <4>. QED BY <2>3, <4>1, <4>2, <4>3
    <3>. QED BY <1>2, <3>1, <3>2, SweepAt
  <2>4. CASE InitRow(s) \/ ClearTrades(s) \/ Finalise(s) \/ Ranked(s) \/ Fail(s)
    <3>1. PICK pc \in {"clear", "load", "ranks", "end"} : Continue(s, [sweep[s] EXCEPT !.pc = pc])
      BY <2>4 DEF InitRow, ClearTrades, Finalise, Ranked, Fail
    <3>. QED BY <1>2, <3>1, MovesTo
  <2>5. CASE End(s)
    BY <1>2, <2>5, SweepAt, Rested DEF End
  <2>. QED BY <2>1, <2>2, <2>3, <2>4, <2>5 DEF SweepStep
<1>. QED BY <1>1, <1>3, <1>4, FlagsStay

\* Who leaves the sweeps alone keeps their costs honest.
LEMMA CostsStay ==
    ASSUME HonestCosts, sweep' = sweep
    PROVE  HonestCosts'
BY DEF HonestCosts

\* The other steps of the engine.
LEMMA EngineFlags ==
    ASSUME IInv, FlagsOK, NEW s \in Strategies, UNCHANGED campaignVars,
           SetFlag(s) \/ DeleteRow(s) \/ SweepStep(s) \/ Run(s) \/ Request(s) \/ Delete(s)
              \/ SweepError(s)
    PROVE  FlagsOK'
<1>1. /\ Sound /\ sweep \in [Strategies -> Sweeps] /\ sweep[s] \in Sweeps /\ driver' = driver
  BY IInvParts, HasTypes DEF campaignVars
<1>2. CASE SweepStep(s)
  BY <1>2, SweepFlags
<1>3. CASE SetFlag(s) \/ DeleteRow(s) \/ Request(s) \/ Delete(s)
  <2>1. UNCHANGED <<flags, sweep, downs>>
    BY <1>3 DEF SetFlag, DeleteRow, Request, Delete
  <2>. QED BY <1>1, <2>1, FlagsStay
<1>4. CASE Run(s)
  <2>1. Claim(s, Nobody) /\ UNCHANGED <<rowVars, control, asked, flags, downs>>
        /\ Nobody \in Launchers
    BY <1>4, LaunchersAssumption DEF Run
  <2>2. Continue(s, [Resting EXCEPT !.pc = "read", !.by = Nobody])
    BY <2>1 DEF Claim
  <2>3. /\ sweep'[s].pc = "read" /\ \A t \in Strategies \ {s} : sweep'[t] = sweep[t]
    <3>. DEFINE r == [Resting EXCEPT !.pc = "read", !.by = Nobody]
    <3>1. r.pc = "read" /\ Continue(s, r)
      BY <2>1, <2>2, Claimed
    <3>. HIDE DEF r
    <3>. QED BY <1>1, <3>1, SweepAt
  <2>. QED BY <1>1, <2>1, <2>3, FlagsStay
<1>5. CASE SweepError(s)
  <2>. DEFINE pc == IF sweep[s].pc = "failing" THEN "end" ELSE "failing"
  <2>1. Continue(s, [sweep[s] EXCEPT !.pc = pc])
    <3>1. [sweep[s] EXCEPT !.pc = pc]
             = [sweep[s] EXCEPT !.pc = IF @ = "failing" THEN "end" ELSE "failing"]
      OBVIOUS
    <3>. QED BY <1>5, <3>1 DEF SweepError
  <2>2. pc \in {"failing", "end"}
    OBVIOUS
  <2>. HIDE DEF pc
  <2>3. sweep'[s].pc = pc
    BY <1>1, <2>1, MovesTo
  <2>4. \A t \in Strategies \ {s} : sweep'[t] = sweep[t]
    BY <1>1, <2>1, SweepAt
  <2>5. downs' # 0 /\ flags' = flags
    <3>1. downs \in Nat
      BY <1>1 DEF Sound, EngineTypeOK
    <3>. QED BY <1>5, <3>1 DEF SweepError
  <2>. QED BY <1>1, <2>2, <2>3, <2>4, <2>5, FlagsStay
<1>. QED BY <1>2, <1>3, <1>4, <1>5

\* The driver moves and the flags stay.
LEMMA DriverOnly ==
    ASSUME IInv, FlagsOK, HonestCosts', NEW c \in Campaigns, NEW r \in Drivers, Drive(c, r),
           flags' = flags, r.pc \in Driving => driver[c].pc \in Driving,
           downs' = 0 =>
              /\ downs = 0 /\ r.saved = driver[c].saved
              /\ r.pc \in Driving <=> driver[c].pc \in Driving
    PROVE  FlagsOK'
<1>1. /\ driver'[c] = r /\ \A d \in Campaigns \ {c} : driver'[d] = driver[d]
  BY At_c DEF Drive
<1>2. ASSUME NEW d \in Campaigns
      PROVE  /\ driver'[d].pc \in Driving => flags' = d
             /\ downs' = 0 => IF driver'[d].pc \in Driving THEN driver'[d].saved = Nobody
                              ELSE flags' = Nobody
  BY <1>1 DEF FlagsOK
<1>. QED BY <1>2 DEF FlagsOK, Driving

\* A driver alone in the process takes over and restores the flags.
LEMMA DriverFlags ==
    ASSUME SoleCampaign, IInv, FlagsOK, NEW c \in Campaigns, DriverStep(c)
    PROVE  FlagsOK'
<1>1. driver \in [Campaigns -> Drivers] /\ driver[c] \in Drivers /\ Sound
      /\ \A d \in Campaigns : d = c
  BY At_c DEF SoleCampaign
<1>2. HonestCosts
  BY DEF FlagsOK
<1>3. CASE Begin(c)
  <2>. DEFINE r == [driver[c] EXCEPT !.pc = "mark", !.saved = flags]
  <2>1. flags' = c /\ Drive(c, r) /\ UNCHANGED <<sweep, downs>> /\ driver[c].pc = "begin"
    BY <1>3 DEF Begin, DriverAt
  <2>2. r.pc = "mark" /\ r.saved = flags
    BY <1>1 DEF Drivers
  <2>. HIDE DEF r
  <2>3. driver'[c] = r
    BY <1>1, <2>1 DEF Drive
  <2>4. downs = 0 => flags = Nobody
    BY <2>1 DEF FlagsOK, Driving
  <2>5. HonestCosts'
    BY <1>2, <2>1, CostsStay
  <2>. QED BY <1>1, <2>1, <2>2, <2>3, <2>4, <2>5 DEF FlagsOK, Driving
<1>4. CASE DriverEnd(c)
  <2>1. flags' = driver[c].saved /\ Drive(c, NoDriver) /\ UNCHANGED <<sweep, downs>>
        /\ driver[c].pc = "end"
    BY <1>4 DEF DriverEnd, DriverAt, Restored
  <2>2. driver'[c].pc = "idle"
    BY <1>1, <2>1, DriverAway DEF Drive
  <2>3. downs = 0 => driver[c].saved = Nobody
    BY <2>1 DEF FlagsOK, Driving
  <2>4. HonestCosts'
    BY <1>2, <2>1, CostsStay
  <2>. QED BY <1>1, <2>1, <2>2, <2>3, <2>4 DEF FlagsOK, Driving
<1>5. CASE BeginNothing(c)
  <2>1. Drive(c, NoDriver) /\ UNCHANGED <<sweep, downs, flags>> /\ driver[c].pc = "begin"
    BY <1>5 DEF BeginNothing, DriverAt, engineVars
  <2>2. driver'[c].pc = "idle"
    BY <1>1, <2>1, DriverAway DEF Drive
  <2>3. downs = 0 => flags = Nobody
    BY <2>1 DEF FlagsOK, Driving
  <2>4. HonestCosts'
    BY <1>2, <2>1, CostsStay
  <2>. QED BY <1>1, <2>1, <2>2, <2>3, <2>4 DEF FlagsOK, Driving
<1>6. CASE Mark(c) \/ WriteVerdict(c) \/ Excepted(c)
  <2>1. PICK pc \in {"list", "end"} : Drive(c, [driver[c] EXCEPT !.pc = pc])
    BY <1>6 DEF Mark, WriteVerdict, Excepted
  <2>2. UNCHANGED <<sweep, downs, flags>> /\ driver[c].pc \in Driving
    BY <1>6 DEF Mark, WriteVerdict, Excepted, engineVars, DriverAt, Driving
  <2>. DEFINE r == [driver[c] EXCEPT !.pc = pc]
  <2>3. r \in Drivers /\ r.pc \in Driving /\ r.saved = driver[c].saved
    BY <1>1 DEF Drivers, Driving
  <2>4. Drive(c, r)
    BY <2>1
  <2>. HIDE DEF r
  <2>. QED BY <1>2, <2>2, <2>3, <2>4, CostsStay, DriverOnly
<1>7. CASE ListRunning(c) \/ Normalise(c)
  <2>1. PICK pc \in {"normalise"}, stale \in SUBSET (Strategies \X {"PAUSED", "PENDING"}) :
           Drive(c, [driver[c] EXCEPT !.pc = pc, !.stale = stale])
    <3>1. CASE ListRunning(c)
      <4>. DEFINE todo == {<<s, IF processed[s] > 0 THEN "PAUSED" ELSE "PENDING">> :
                              s \in {m \in Members(c) : status[m] = "RUNNING"}}
      <4>1. Drive(c, [driver[c] EXCEPT !.pc = "normalise", !.stale = todo])
        BY <3>1 DEF ListRunning
      <4>2. todo \in SUBSET (Strategies \X {"PAUSED", "PENDING"})
        BY DEF Members
      <4>. HIDE DEF todo
      <4>. QED BY <4>1, <4>2
    <3>2. CASE Normalise(c)
      <4>1. PICK old : Drive(c, [driver[c] EXCEPT !.stale = driver[c].stale \ {old}])
                       /\ driver[c].pc = "normalise"
        BY <3>2 DEF Normalise, DriverAt
      <4>. DEFINE rest == driver[c].stale \ {old}
      <4>2. rest \in SUBSET (Strategies \X {"PAUSED", "PENDING"})
        BY <1>1 DEF Drivers
      <4>. HIDE DEF rest
      <4>3. [driver[c] EXCEPT !.stale = rest]
               = [driver[c] EXCEPT !.pc = "normalise", !.stale = rest]
        BY <1>1, <4>1 DEF Drivers
      <4>4. Drive(c, [driver[c] EXCEPT !.stale = rest])
        BY <4>1 DEF rest
      <4>. QED BY <4>2, <4>3, <4>4
    <3>. QED BY <1>7, <3>1, <3>2
  <2>2. UNCHANGED <<sweep, downs, flags>> /\ driver[c].pc \in Driving
    BY <1>7 DEF ListRunning, Normalise, engineVars, DriverAt, Driving
  <2>. DEFINE r == [driver[c] EXCEPT !.pc = pc, !.stale = stale]
  <2>3. r \in Drivers /\ r.pc \in Driving /\ r.saved = driver[c].saved
    BY <1>1 DEF Drivers, Driving
  <2>4. Drive(c, r)
    BY <2>1
  <2>. HIDE DEF r
  <2>. QED BY <1>2, <2>2, <2>3, <2>4, CostsStay, DriverOnly
<1>8. ASSUME NEW pc \in {"queue", "finalise"}, NEW queue \in SUBSET Strategies,
             NEW verdict \in {"DONE", "PAUSED", "STOPPED"},
             Drive(c, [driver[c] EXCEPT !.pc = pc, !.queue = queue, !.verdict = verdict]),
             driver[c].pc \in Driving, UNCHANGED <<downs, flags>>, HonestCosts'
      PROVE  FlagsOK'
  <2>. DEFINE r == [driver[c] EXCEPT !.pc = pc, !.queue = queue, !.verdict = verdict]
  <2>1. r \in Drivers /\ r.pc \in Driving /\ r.saved = driver[c].saved
    BY <1>1 DEF Drivers, Driving
  <2>2. Drive(c, r)
    BY <1>8
  <2>. HIDE DEF r
  <2>. QED BY <1>8, <2>1, <2>2, DriverOnly
<1>9. CASE ListQueue(c)
  <2>. DEFINE queue == Unfinished(c)
  <2>1. Drive(c, [driver[c] EXCEPT !.pc = "queue", !.queue = queue])
    BY <1>9 DEF ListQueue
  <2>2. queue \in SUBSET Strategies
    BY DEF Unfinished, Members
  <2>. HIDE DEF queue
  <2>3. [driver[c] EXCEPT !.pc = "queue", !.queue = queue]
           = [driver[c] EXCEPT !.pc = "queue", !.queue = queue, !.verdict = driver[c].verdict]
        /\ driver[c].verdict \in {"DONE", "PAUSED", "STOPPED"}
    BY <1>1 DEF Drivers
  <2>4. UNCHANGED <<sweep, downs, flags>> /\ driver[c].pc \in Driving
    BY <1>9 DEF ListQueue, engineVars, DriverAt, Driving
  <2>. QED BY <1>2, <1>8, <2>1, <2>2, <2>3, <2>4, CostsStay
<1>10. CASE Decide(c)
  <2>. DEFINE verdict == Verdict(c)
  <2>1. Drive(c, [driver[c] EXCEPT !.pc = "finalise", !.verdict = verdict])
    BY <1>10 DEF Decide
  <2>2. verdict \in {"DONE", "PAUSED", "STOPPED"}
    BY DEF Verdict
  <2>. HIDE DEF verdict
  <2>3. [driver[c] EXCEPT !.pc = "finalise", !.verdict = verdict]
           = [driver[c] EXCEPT !.pc = "finalise", !.queue = driver[c].queue, !.verdict = verdict]
        /\ driver[c].queue \in SUBSET Strategies
    BY <1>1 DEF Drivers
  <2>4. UNCHANGED <<sweep, downs, flags>> /\ driver[c].pc \in Driving
    BY <1>10 DEF Decide, engineVars, DriverAt, Driving
  <2>. QED BY <1>2, <1>8, <2>1, <2>2, <2>3, <2>4, CostsStay
<1>11. ASSUME NEW s \in Strategies, Launch(c, s) \/ PassOver(c, s) PROVE FlagsOK'
  <2>. DEFINE queue == driver[c].queue \ {s}
  <2>1. Drive(c, [driver[c] EXCEPT !.queue = queue]) /\ driver[c].pc = "queue"
    BY <1>11 DEF Launch, PassOver, Turn, DriverAt
  <2>2. queue \in SUBSET Strategies
    BY <1>1 DEF Drivers
  <2>. HIDE DEF queue
  <2>3. [driver[c] EXCEPT !.queue = queue]
           = [driver[c] EXCEPT !.pc = "queue", !.queue = queue, !.verdict = driver[c].verdict]
        /\ driver[c].verdict \in {"DONE", "PAUSED", "STOPPED"}
    BY <1>1, <2>1 DEF Drivers
  <2>4. UNCHANGED <<downs, flags>>
    BY <1>11 DEF Launch, PassOver, engineVars
  <2>5. HonestCosts'
    <3>1. CASE PassOver(c, s)
      BY <1>2, <3>1, CostsStay DEF PassOver, engineVars
    <3>2. CASE Launch(c, s)
      <4>. DEFINE r == [Resting EXCEPT !.pc = "read", !.by = c]
      <4>1. r.pc = "read" /\ Continue(s, r)
        BY <3>2, Claimed, OwnersAssumption DEF Launch, Claim
      <4>. HIDE DEF r
      <4>2. sweep'[s].pc = "read" /\ \A t \in Strategies \ {s} : sweep'[t] = sweep[t]
        BY <1>1, <4>1, SweepAt
      <4>. QED BY <1>2, <4>2 DEF HonestCosts
    <3>. QED BY <1>11, <3>1, <3>2
  <2>6. driver[c].pc \in Driving
    BY <2>1 DEF Driving
  <2>. QED BY <1>8, <2>1, <2>2, <2>3, <2>4, <2>5, <2>6
<1>. QED BY <1>3, <1>4, <1>5, <1>6, <1>7, <1>9, <1>10, <1>11 DEF DriverStep

\* Every step keeps flags and costs right.
LEMMA StepFlags ==
    ASSUME SoleCampaign, IInv, FlagsOK, Next
    PROVE  FlagsOK'
<1>1. HonestCosts /\ downs \in Nat
  BY IInvParts DEF FlagsOK, Sound, EngineTypeOK
<1>2. ASSUME NEW c \in Campaigns, SignalStep(c) \/ Order(c) \/ DeleteCampaign(c)
      PROVE  FlagsOK'
  <2>1. UNCHANGED <<flags, driver, sweep, downs>>
    BY <1>2 DEF SignalStep, SignalList, SignalMember, SignalFails, SignalDone, Order,
       DeleteCampaign, engineVars
  <2>. QED BY <2>1, FlagsStay
<1>3. ASSUME NEW c \in Campaigns, Start(c) PROVE FlagsOK'
  <2>. DEFINE r == [NoDriver EXCEPT !.pc = "begin"]
  <2>1. Drive(c, r) /\ UNCHANGED <<flags, sweep, downs>> /\ driver[c].pc = "idle"
        /\ driver \in [Campaigns -> Drivers]
    BY <1>3, At_c DEF Start, DriverAt
  <2>2. r.pc = "begin"
    BY DEF NoDriver
  <2>. HIDE DEF r
  <2>3. driver'[c].pc = "begin" /\ \A d \in Campaigns \ {c} : driver'[d] = driver[d]
    BY <2>1, <2>2 DEF Drive
  <2>4. HonestCosts'
    BY <1>1, <2>1, CostsStay
  <2>. QED BY <2>1, <2>3, <2>4 DEF FlagsOK, Driving
<1>4. ASSUME NEW c \in Campaigns, DriverError(c) PROVE FlagsOK'
  <2>1. downs' # 0 /\ UNCHANGED <<flags, sweep>> /\ driver[c] \in Drivers
    <3>1. downs' = downs + 1 /\ UNCHANGED <<flags, sweep>>
      BY <1>4 DEF DriverError
    <3>. QED BY <1>1, <3>1, At_c
  <2>2. HonestCosts'
    BY <1>1, <2>1, CostsStay
  <2>3. CASE Drive(c, NoDriver)
    BY <2>1, <2>2, <2>3, DriverAway, DriverOnly DEF Driving
  <2>4. ASSUME NEW pc \in {"excepted", "end"}, Drive(c, [driver[c] EXCEPT !.pc = pc]),
               driver[c].pc \in Driving
        PROVE  FlagsOK'
    <3>. DEFINE r == [driver[c] EXCEPT !.pc = pc]
    <3>1. r \in Drivers
      BY <2>1 DEF Drivers
    <3>2. Drive(c, r)
      BY <2>4
    <3>. HIDE DEF r
    <3>. QED BY <2>1, <2>2, <2>4, <3>1, <3>2, DriverOnly
  <2>. QED BY <1>4, <2>3, <2>4 DEF DriverError, DriverAt, Driving
<1>5. CASE Crash
  <2>1. /\ sweep' = [s \in Strategies |-> Resting] /\ flags' = Nobody /\ downs' = downs + 1
    BY <1>5 DEF Crash, EngineLost
  <2>2. \A c \in Campaigns : driver'[c].pc \in {"idle", "begin"}
    BY <1>5, DriverAway DEF Crash, NoDriver
  <2>3. HonestCosts'
    BY <2>1, Rested DEF HonestCosts
  <2>4. downs' # 0
    BY <1>1, <2>1
  <2>. QED BY <2>2, <2>3, <2>4 DEF FlagsOK, Driving
<1>. QED BY <1>2, <1>3, <1>4, <1>5, EngineFlags, DriverFlags DEF Next, LoopStep

\* With one campaign, the flags are right in every state.
LEMMA FlagsInvariance ==
    ASSUME SoleCampaign
    PROVE  Spec => [](IInv /\ FlagsOK)
<1>. DEFINE Inv == IInv /\ FlagsOK
<1>1. Init => Inv
  <2>. SUFFICES ASSUME Init PROVE FlagsOK
    BY StartsSound
  <2>1. HonestCosts
    BY Rested DEF Init, EngineInit, HonestCosts
  <2>2. flags = Nobody /\ \A c \in Campaigns : driver[c].pc = "idle"
    BY DriverAway DEF Init, EngineInit
  <2>. QED BY <2>1, <2>2 DEF FlagsOK, Driving
<1>2. Inv /\ [Next]_vars => Inv'
  <2>1. CASE UNCHANGED vars
    BY <2>1, StutterKeeps, FlagsStay DEF vars, engineVars, campaignVars
  <2>. QED BY <2>1, StepKeeps, StepFlags
<1>. HIDE DEF Inv
<1>3. Spec => []Inv
  BY <1>1, <1>2, PTL DEF Spec
<1>. QED BY <1>3 DEF Inv

\* With one campaign, whatever fails: a sweep that it launched is charged its
\* cost flags, for they are set before the queue and kept until it is empty.
THEOREM Honest ==
    ASSUME SoleCampaign
    PROVE  Spec => []HonestCosts
<1>1. IInv /\ FlagsOK => HonestCosts
  BY DEF FlagsOK
<1>. QED BY <1>1, FlagsInvariance, PTL

\* With one campaign, the cost flags of the environment are back when it is
\* not driven. (Two campaigns break this: the run campaign_flags.)
THEOREM Restores ==
    ASSUME SoleCampaign
    PROVE  Spec => []FlagsRestored
<1>1. IInv /\ FlagsOK => FlagsRestored
  <2>. SUFFICES ASSUME IInv, FlagsOK, downs = 0,
                       \A c \in Campaigns : driver[c].pc \in {"idle", "begin"}
                PROVE  flags = Nobody
    BY DEF FlagsRestored
  <2>1. CASE Campaigns = {}
    BY <2>1, OwnersAssumption, IInvParts DEF Sound, EngineTypeOK
  <2>2. CASE Campaigns # {}
    BY <2>2 DEF FlagsOK, Driving
  <2>. QED BY <2>1, <2>2
<1>. QED BY <1>1, FlagsInvariance, PTL

-----------------------------------------------------------------------------
(***************************************************************************)
(* The event loop is never stuck.                                          *)
(***************************************************************************)

\* The driver can go on: in its queue, for a free slot or when all are back.
DriverReady(c) ==
    \/ driver[c].pc \notin {"idle", "queue"}
    \/ /\ DriverAt(c, "queue")
       /\ \/ driver[c].queue # {} /\ Cardinality(Launched(c)) < Concurrency
          \/ driver[c].queue = {} /\ Launched(c) = {}

\* A request on its way through the members waits for each of them in turn.
SignalReady(c) ==
    \/ signal[c].pc = "list"
    \/ signal[c].pc = "members" /\ Answered(c)

\* What enables LoopStep: the guards of its actions, put together.
Ready ==
    \/ asked # {}
    \/ \E s \in Strategies : ~ At(s, "idle")
    \/ \E c \in Campaigns : DriverReady(c) \/ SignalReady(c)

\* A sweep that is over holds no slot, and a request that is over nothing.
Released ==
    /\ \A s \in Strategies : At(s, "idle") => sweep[s].by = Nobody
    /\ \A c \in Campaigns : signal[c].pc = "idle" => signal[c] = NoSignal

\* No sweep ends in this step, and those that a campaign launches begin.
LEMMA SlotsStay ==
    ASSUME IInv, IInv', Released, running \subseteq running',
           \A s \in Strategies : s \in running' \/ sweep'[s].by \in {sweep[s].by, Nobody}
    PROVE  \A s \in Strategies : At(s, "idle")' => sweep'[s].by = Nobody
<1>. SUFFICES ASSUME NEW s \in Strategies, At(s, "idle")' PROVE sweep'[s].by = Nobody
  OBVIOUS
<1>1. s \notin running'
  BY DEF IInv, EngineOK, SweepOK
<1>2. At(s, "idle")
  BY <1>1 DEF IInv, EngineOK, SweepOK
<1>. QED BY <1>1, <1>2 DEF Released

\* The engine gives back a slot with the claim.
LEMMA EngineReleases ==
    ASSUME IInv, IInv', Released, NEW s \in Strategies, UNCHANGED campaignVars,
           SetFlag(s) \/ DeleteRow(s) \/ SweepStep(s) \/ Run(s) \/ Request(s) \/ Delete(s)
              \/ SweepError(s)
    PROVE  Released'
<1>1. Calm /\ Sound
  BY EngineSound, IInvParts
<1>2. \A t \in Strategies : At(t, "idle")' => sweep'[t].by = Nobody
  <2>1. CASE End(s)
    <3>1. sweep'[s] = Resting /\ running' = running \ {s}
          /\ \A t \in Strategies \ {s} : sweep'[t] = sweep[t]
      BY <1>1, <2>1, SweepAt DEF End
    <3>2. ASSUME NEW t \in Strategies, At(t, "idle")' PROVE sweep'[t].by = Nobody
      BY <3>1, <3>2, Rested DEF Released, At
    <3>. QED BY <3>2
  <2>2. CASE ~ End(s)
    <3>1. running \subseteq running'
      BY <2>2 DEF SetFlag, DeleteRow, Run, Claim, Request, Delete, SweepError, SweepStep,
         ReadRow, InitRow, ClearTrades, Load, Boundary, AbortWindow, TradeWindow,
         TradeForNobody, Checkpoint, Finalise, Ranked, Fail
    <3>. QED BY <1>1, <3>1, SlotsStay DEF Calm
  <2>. QED BY <2>1, <2>2
<1>. QED BY <1>2 DEF Released, campaignVars

\* A driver takes a slot only for a sweep that begins.
LEMMA DriverReleases ==
    ASSUME IInv, IInv', Released, NEW c \in Campaigns, DriverStep(c)
    PROVE  Released'
<1>1. Sound /\ UNCHANGED signal
  BY IInvParts DEF DriverStep, Begin, BeginNothing, Mark, ListRunning, Normalise, ListQueue,
     Launch, PassOver, Decide, WriteVerdict, Excepted, DriverEnd
<1>2. \A t \in Strategies : At(t, "idle")' => sweep'[t].by = Nobody
  <2>1. CASE \E s \in Strategies : Launch(c, s)
    <3>1. PICK s \in Strategies : Launch(c, s)
      BY <2>1
    <3>. DEFINE r == [Resting EXCEPT !.pc = "read", !.by = c]
    <3>2. Continue(s, r) /\ running' = running \cup {s}
      BY <3>1 DEF Launch, Claim
    <3>. HIDE DEF r
    <3>3. \A t \in Strategies \ {s} : sweep'[t] = sweep[t]
      BY <1>1, <3>2, SweepAt
    <3>. QED BY <3>2, <3>3, SlotsStay
  <2>2. CASE ~ \E s \in Strategies : Launch(c, s)
    <3>1. UNCHANGED <<sweep, running>>
      BY <2>2 DEF DriverStep, Begin, BeginNothing, Mark, ListRunning, Normalise, ListQueue,
         PassOver, Decide, WriteVerdict, Excepted, DriverEnd, engineVars
    <3>. QED BY <3>1, SlotsStay
  <2>. QED BY <2>1, <2>2
<1>. QED BY <1>1, <1>2 DEF Released

\* A signal that a step gives to c: r is opaque to the prover.
LEMMA SignalBecomes ==
    ASSUME CampaignsTyped, NEW c \in Campaigns, NEW r, signal' = [signal EXCEPT ![c] = r]
    PROVE  signal'[c] = r /\ \A d \in Campaigns \ {c} : signal'[d] = signal[d]
BY DEF CampaignsTyped

\* A request begins at its list and ends with nothing.
LEMMA SignalReleases ==
    ASSUME IInv, IInv', Released, NEW c \in Campaigns, Order(c) \/ SignalStep(c)
    PROVE  Released'
<1>1. /\ CampaignsTyped /\ signal[c] \in Signals /\ signal \in [Campaigns -> Signals]
      /\ UNCHANGED <<sweep, running>>
  BY IInvParts DEF CampaignsTyped, Order, SignalStep, SignalList, SignalMember, SignalFails,
     SignalDone, engineVars
<1>2. \A t \in Strategies : At(t, "idle")' => sweep'[t].by = Nobody
  BY <1>1, SlotsStay
<1>3. \A d \in Campaigns \ {c} : signal'[d] = signal[d]
  BY <1>1 DEF Order, SignalStep, SignalList, SignalMember, SignalFails, SignalDone
<1>4. signal'[c].pc = "idle" => signal'[c] = NoSignal
  <2>1. CASE Order(c)
    <3>1. PICK flag \in ControlFlags :
             signal' = [signal EXCEPT ![c] = [@ EXCEPT !.pc = "list", !.flag = flag]]
      BY <2>1 DEF Order
    <3>2. [signal[c] EXCEPT !.pc = "list", !.flag = flag].pc = "list"
      BY <1>1 DEF Signals
    <3>. QED BY <1>1, <3>1, <3>2, SignalBecomes
  <2>2. CASE SignalList(c)
    <3>. DEFINE todo == {s \in Members(c) : status[s] = "RUNNING"}
                r == [signal[c] EXCEPT !.pc = "members", !.todo = todo]
    <3>1. signal' = [signal EXCEPT ![c] = r]
      BY <2>2 DEF SignalList
    <3>. HIDE DEF todo
    <3>2. r.pc = "members"
      BY <1>1 DEF Signals
    <3>. HIDE DEF r
    <3>. QED BY <1>1, <3>1, <3>2, SignalBecomes
  <2>3. CASE SignalMember(c)
    <3>1. PICK s : signal' = [signal EXCEPT ![c].todo = @ \ {s}]
      BY <2>3 DEF SignalMember
    <3>2. signal[c].pc = "members"
      BY <2>3 DEF SignalMember
    <3>. QED BY <1>1, <3>1, <3>2 DEF Signals
  <2>4. CASE SignalFails(c) \/ SignalDone(c)
    BY <1>1, <2>4 DEF SignalFails, SignalDone
  <2>. QED BY <2>1, <2>2, <2>3, <2>4 DEF SignalStep
<1>. QED BY <1>2, <1>3, <1>4 DEF Released

\* Every step releases what it ends.
LEMMA StepReleases == ASSUME IInv, IInv', Released, [Next]_vars PROVE Released'
<1>1. ASSUME NEW c \in Campaigns, Start(c) \/ DeleteCampaign(c) \/ DriverError(c)
      PROVE  Released'
  <2>1. UNCHANGED <<sweep, running, signal>>
    BY <1>1 DEF Start, DeleteCampaign, DriverError
  <2>. QED BY <2>1 DEF Released, At
<1>2. CASE Crash
  <2>1. sweep' = [s \in Strategies |-> Resting] /\ signal' = [c \in Campaigns |-> NoSignal]
    BY <1>2 DEF Crash, EngineLost
  <2>. QED BY <2>1, Rested DEF Released
<1>3. CASE UNCHANGED vars
  BY <1>3 DEF vars, engineVars, campaignVars, Released, At
<1>. QED BY <1>1, <1>2, <1>3, EngineReleases, DriverReleases, SignalReleases DEF Next, LoopStep

\* Slots and requests are given back, whatever fails.
LEMMA Releases == Spec => []Released
<1>1. Init => Released
  BY Rested DEF Init, EngineInit, Released
<1>2. IInv /\ IInv' /\ Released /\ [Next]_vars => Released'
  BY StepReleases
<1>. QED BY <1>1, <1>2, Invariance, PTL DEF Spec

\* NobodyWaits with the guards in place of ENABLED: when nothing is ready,
\* every claim, request, driver and signal is over. So a driver never waits
\* for a slot or for a member that does not come back (_drive, _signal).
THEOREM Progress ==
    Spec => [](~ Ready => /\ running = {} /\ asked = {}
                          /\ \A c \in Campaigns : DriverAt(c, "idle") /\ signal[c] = NoSignal)
<1>1. ASSUME IInv, Released, ~ Ready
      PROVE  /\ running = {} /\ asked = {}
             /\ \A c \in Campaigns : DriverAt(c, "idle") /\ signal[c] = NoSignal
  <2>1. asked = {} /\ \A s \in Strategies : At(s, "idle")
    BY <1>1 DEF Ready
  <2>2. running = {}
    BY <1>1, <2>1 DEF IInv, TypeOK, EngineTypeOK, EngineOK, SweepOK
  <2>3. ASSUME NEW c \in Campaigns PROVE DriverAt(c, "idle") /\ signal[c] = NoSignal
    <3>1. signal[c] \in Signals /\ driver[c] \in Drivers /\ ~ DriverReady(c) /\ ~ SignalReady(c)
      BY <1>1 DEF IInv, TypeOK, Ready
    <3>2. signal[c].pc \in {"idle", "list", "members"}
      BY <3>1 DEF Signals
    <3>3. Answered(c)
      BY <2>1 DEF Answered
    <3>4. signal[c] = NoSignal
      BY <1>1, <3>1, <3>2, <3>3 DEF SignalReady, Released
    <3>5. Launched(c) = {}
      BY <1>1, <2>1, OwnersAssumption DEF Launched, Released
    <3>6. Cardinality(Launched(c)) < Concurrency
      BY <3>5, FS_EmptySet, ConcurrencyAssumption
    <3>. QED BY <3>1, <3>4, <3>5, <3>6 DEF DriverReady, DriverAt
  <2>. QED BY <2>1, <2>2, <2>3
<1>. QED BY <1>1, Invariance, Releases, PTL

-----------------------------------------------------------------------------
(***************************************************************************)
(* A sweep comes to its end.                                               *)
(***************************************************************************)

\* The steps a sweep has at most to go: three for each window ahead, and then
\* those to its end.
StepsLeft(locals) ==
    LET ahead == 3 * (Windows - locals.next)
    IN  CASE locals.pc = "idle" -> 0
          [] locals.pc = "end" -> 1
          [] locals.pc = "failing" -> 2
          [] locals.pc = "ranks" -> 3
          [] locals.pc = "final" -> 4
          [] locals.pc = "checkpoint" -> ahead + 3
          [] locals.pc = "scan" -> ahead + 4
          [] locals.pc = "boundary" -> ahead + 5
          [] locals.pc = "load" -> ahead + 6
          [] locals.pc = "clear" -> ahead + 7
          [] locals.pc = "init" -> ahead + 8
          [] locals.pc = "read" -> 3 * Windows + 9

\* A sweep under way that moves gets nearer to its end.
Nearer ==
    \A s \in Strategies :
        ~ At(s, "idle") =>
            sweep'[s] = sweep[s] \/ StepsLeft(sweep'[s]) < StepsLeft(sweep[s])

\* The steps left, place by place.
LEMMA LeftAt ==
    ASSUME NEW r
    PROVE  /\ r.pc = "idle" => StepsLeft(r) = 0
           /\ r.pc = "end" => StepsLeft(r) = 1
           /\ r.pc = "failing" => StepsLeft(r) = 2
           /\ r.pc = "ranks" => StepsLeft(r) = 3
           /\ r.pc = "final" => StepsLeft(r) = 4
           /\ r.pc = "checkpoint" => StepsLeft(r) = 3 * (Windows - r.next) + 3
           /\ r.pc = "scan" => StepsLeft(r) = 3 * (Windows - r.next) + 4
           /\ r.pc = "boundary" => StepsLeft(r) = 3 * (Windows - r.next) + 5
           /\ r.pc = "load" => StepsLeft(r) = 3 * (Windows - r.next) + 6
           /\ r.pc = "clear" => StepsLeft(r) = 3 * (Windows - r.next) + 7
           /\ r.pc = "init" => StepsLeft(r) = 3 * (Windows - r.next) + 8
           /\ r.pc = "read" => StepsLeft(r) = 3 * Windows + 9
<1>1. r.pc = "idle" => StepsLeft(r) = 0
  BY DEF StepsLeft
<1>2. r.pc = "end" => StepsLeft(r) = 1
  BY DEF StepsLeft
<1>3. r.pc = "failing" => StepsLeft(r) = 2
  BY DEF StepsLeft
<1>12. r.pc = "ranks" => StepsLeft(r) = 3
  BY DEF StepsLeft
<1>4. r.pc = "final" => StepsLeft(r) = 4
  BY DEF StepsLeft
<1>5. r.pc = "checkpoint" => StepsLeft(r) = 3 * (Windows - r.next) + 3
  BY DEF StepsLeft
<1>6. r.pc = "scan" => StepsLeft(r) = 3 * (Windows - r.next) + 4
  BY DEF StepsLeft
<1>7. r.pc = "boundary" => StepsLeft(r) = 3 * (Windows - r.next) + 5
  BY DEF StepsLeft
<1>8. r.pc = "load" => StepsLeft(r) = 3 * (Windows - r.next) + 6
  BY DEF StepsLeft
<1>9. r.pc = "clear" => StepsLeft(r) = 3 * (Windows - r.next) + 7
  BY DEF StepsLeft
<1>10. r.pc = "init" => StepsLeft(r) = 3 * (Windows - r.next) + 8
  BY DEF StepsLeft
<1>11. r.pc = "read" => StepsLeft(r) = 3 * Windows + 9
  BY DEF StepsLeft
<1>. QED BY <1>1, <1>2, <1>3, <1>4, <1>5, <1>6, <1>7, <1>8, <1>9, <1>10, <1>11, <1>12

\* Locals in numbers.
LEMMA InNumbers ==
    ASSUME NEW r \in Sweeps
    PROVE  /\ r.next \in 0 .. Windows /\ Windows \in Nat
           /\ r.pc \in {"idle", "read", "init", "clear", "load", "boundary", "scan",
                        "checkpoint", "final", "ranks", "failing", "end"}
BY WindowsAssumption DEF Sweeps

\* No sweep has more steps left than a fresh one.
LEMMA StepsLeftBound ==
    ASSUME NEW r \in Sweeps PROVE StepsLeft(r) \in 0 .. 3 * Windows + 9
<1>. DEFINE pc == r.pc
            n == r.next
            left == StepsLeft(r)
<1>1. n \in 0 .. Windows /\ Windows \in Nat
  BY InNumbers
<1>2. \/ left = 0 \/ left = 1 \/ left = 2 \/ left = 3 \/ left = 4
      \/ left = 3 * Windows + 9
      \/ \E k \in 3 .. 8 : left = 3 * (Windows - n) + k
  BY InNumbers, LeftAt
<1>. HIDE DEF left, n
<1>3. left \in 0 .. 3 * Windows + 9
  BY <1>1, <1>2
<1>. QED BY <1>3 DEF left

\* What a step of a sweep may do to its place and its window.
Moves(r, t) ==
    \/ r.pc = "read" /\ t.pc \in {"init", "end"}
    \/ r.pc = "init" /\ t.pc \in {"clear", "load"} /\ t.next = r.next
    \/ r.pc = "clear" /\ t.pc = "load" /\ t.next = r.next
    \/ r.pc = "load" /\ t.pc = "boundary" /\ t.next = r.next
    \/ r.pc = "boundary" /\ t.pc = "scan" /\ t.next = r.next
    \/ r.pc = "boundary" /\ t.pc = "final"
    \/ r.pc = "scan" /\ t.pc = "final" /\ r.next < Windows
    \/ r.pc = "scan" /\ t.pc = "checkpoint" /\ t.next = r.next
    \/ r.pc = "checkpoint" /\ r.next < Windows /\ t.pc = "boundary" /\ t.next = r.next + 1
    \/ r.pc = "final" /\ t.pc \in {"ranks", "end"}
    \/ r.pc = "ranks" /\ t.pc = "end"
    \/ r.pc \notin {"idle", "end", "failing", "checkpoint"} /\ t.pc = "failing"
    \/ r.pc = "checkpoint" /\ t.pc = "failing" /\ r.next < Windows
    \/ r.pc = "failing" /\ t.pc = "end"
    \/ r.pc # "idle" /\ t.pc = "idle"

\* Each of these moves leaves fewer steps.
LEMMA MovesNearer ==
    ASSUME NEW r \in Sweeps, NEW t \in Sweeps, Moves(r, t)
    PROVE  StepsLeft(t) < StepsLeft(r)
<1>. DEFINE n == r.next
            m == t.next
            left == StepsLeft(r)
            after == StepsLeft(t)
<1>1. /\ n \in 0 .. Windows /\ m \in 0 .. Windows /\ Windows \in Nat
      /\ r.pc \in {"idle", "read", "init", "clear", "load", "boundary", "scan",
                   "checkpoint", "final", "ranks", "failing", "end"}
  BY InNumbers
<1>2. /\ r.pc = "read" => left = 3 * Windows + 9
      /\ r.pc = "init" => left = 3 * (Windows - n) + 8
      /\ r.pc = "clear" => left = 3 * (Windows - n) + 7
      /\ r.pc = "load" => left = 3 * (Windows - n) + 6
      /\ r.pc = "boundary" => left = 3 * (Windows - n) + 5
      /\ r.pc = "scan" => left = 3 * (Windows - n) + 4
      /\ r.pc = "checkpoint" => left = 3 * (Windows - n) + 3
      /\ r.pc = "final" => left = 4
      /\ r.pc = "ranks" => left = 3
      /\ r.pc = "failing" => left = 2
      /\ r.pc = "end" => left = 1
  BY InNumbers, LeftAt
<1>3. /\ t.pc = "init" => after = 3 * (Windows - m) + 8
      /\ t.pc = "clear" => after = 3 * (Windows - m) + 7
      /\ t.pc = "load" => after = 3 * (Windows - m) + 6
      /\ t.pc = "boundary" => after = 3 * (Windows - m) + 5
      /\ t.pc = "scan" => after = 3 * (Windows - m) + 4
      /\ t.pc = "checkpoint" => after = 3 * (Windows - m) + 3
      /\ t.pc = "final" => after = 4
      /\ t.pc = "ranks" => after = 3
      /\ t.pc = "failing" => after = 2
      /\ t.pc = "end" => after = 1
      /\ t.pc = "idle" => after = 0
  BY LeftAt
<1>. HIDE DEF left, after
<1>4. /\ r.pc # "idle" => left > 0
      /\ r.pc \notin {"idle", "end", "failing", "checkpoint"} => left > 2
  BY <1>1, <1>2
<1>5. r.next = n /\ t.next = m
  OBVIOUS
<1>. HIDE DEF n, m
<1>6. t.pc \in {"idle", "failing", "end"} => after < left
  BY <1>1, <1>2, <1>3, <1>4, <1>5 DEF Moves
<1>7. t.pc \in {"final", "ranks"} => after < left
  BY <1>1, <1>2, <1>3, <1>5 DEF Moves
<1>8. t.pc \notin {"idle", "failing", "end", "final", "ranks"} => after < left
  BY <1>1, <1>2, <1>3, <1>5 DEF Moves
<1>9. after < left
  BY <1>6, <1>7, <1>8
<1>. QED BY <1>9 DEF left, after

\* What a step of the engine does to a sweep is one of these moves.
LEMMA SweepMoves ==
    ASSUME Sound, NEW s \in Strategies, SweepStep(s) \/ SweepError(s)
    PROVE  Moves(sweep[s], sweep'[s])
<1>1. /\ sweep[s] \in Sweeps /\ SweepOK(s) /\ Windows \in Nat
  BY HasTypes, WindowsAssumption DEF Sound, EngineOK
<1>2. CASE ReadRow(s)
  <2>. DEFINE pc == CASE status[s] = "DELETED" -> "failing"
                      [] status[s] = "RUNNING" -> "end"
                      [] OTHER -> "init"
              next == IF Resuming(s) THEN processed[s] ELSE 0
              windows == IF Resuming(s) THEN recorded[s] ELSE <<>>
              r == [sweep[s] EXCEPT !.pc = pc, !.next = next, !.windows = windows]
  <2>1. Continue(s, r) /\ pc \in {"failing", "end", "init"} /\ sweep[s].pc = "read"
    BY <1>2 DEF ReadRow, At
  <2>. HIDE DEF pc, next, windows
  <2>2. r.pc = pc
    BY <1>1 DEF Sweeps
  <2>. HIDE DEF r
  <2>. QED BY <2>1, <2>2, SweepAt DEF Moves
<1>3. CASE InitRow(s)
  <2>1. PICK pc \in {"clear", "load"} : Continue(s, [sweep[s] EXCEPT !.pc = pc])
    BY <1>3 DEF InitRow
  <2>. DEFINE r == [sweep[s] EXCEPT !.pc = pc]
  <2>2. r.pc = pc /\ r.next = sweep[s].next
    BY <1>1 DEF Sweeps
  <2>3. Continue(s, r) /\ sweep[s].pc = "init"
    BY <1>3, <2>1 DEF InitRow, At
  <2>. HIDE DEF r
  <2>. QED BY <2>2, <2>3, SweepAt DEF Moves
<1>4. CASE ClearTrades(s)
  <2>. DEFINE r == [sweep[s] EXCEPT !.pc = "load"]
  <2>1. Continue(s, r) /\ sweep[s].pc = "clear"
    BY <1>4 DEF ClearTrades, At
  <2>2. r.pc = "load" /\ r.next = sweep[s].next
    BY <1>1 DEF Sweeps
  <2>. HIDE DEF r
  <2>. QED BY <2>1, <2>2, SweepAt DEF Moves
<1>5. CASE Load(s)
  <2>. DEFINE pc == IF sweep[s].next < Windows THEN "boundary" ELSE "failing"
              r == [sweep[s] EXCEPT !.pc = pc, !.costs = flags]
  <2>1. Continue(s, r) /\ pc \in {"boundary", "failing"} /\ sweep[s].pc = "load"
    BY <1>5 DEF Load, At
  <2>. HIDE DEF pc
  <2>2. r.pc = pc /\ r.next = sweep[s].next
    BY <1>1 DEF Sweeps
  <2>. HIDE DEF r
  <2>. QED BY <2>1, <2>2, SweepAt DEF Moves
<1>6. CASE Boundary(s) \/ AbortWindow(s)
  <2>0. PICK pc \in {"scan", "final"} :
           \E terminal :
              /\ \/ Continue(s, [sweep[s] EXCEPT !.pc = pc])
                 \/ Continue(s, [sweep[s] EXCEPT !.pc = pc, !.terminal = terminal])
              /\ sweep[s].pc = "boundary" \/ (sweep[s].pc = "scan" /\ pc = "final")
    BY <1>6 DEF Boundary, AbortWindow, At
  <2>1. PICK terminal :
           /\ \/ Continue(s, [sweep[s] EXCEPT !.pc = pc])
              \/ Continue(s, [sweep[s] EXCEPT !.pc = pc, !.terminal = terminal])
           /\ sweep[s].pc = "boundary" \/ (sweep[s].pc = "scan" /\ pc = "final")
    BY <2>0
  <2>. DEFINE r == [sweep[s] EXCEPT !.pc = pc]
              t == [sweep[s] EXCEPT !.pc = pc, !.terminal = terminal]
  <2>2. r.pc = pc /\ r.next = sweep[s].next /\ t.pc = pc /\ t.next = sweep[s].next
    BY <1>1 DEF Sweeps
  <2>3. sweep[s].pc = "scan" => sweep[s].next < Windows
    BY <1>1 DEF SweepOK
  <2>4. Continue(s, r) \/ Continue(s, t)
    BY <2>1
  <2>. HIDE DEF r, t
  <2>. QED BY <2>1, <2>2, <2>3, <2>4, SweepAt DEF Moves
<1>7. CASE TradeWindow(s) \/ TradeForNobody(s)
  <2>. DEFINE windows == Append(sweep[s].windows, sweep[s].next)
  <2>1. PICK pc \in {"failing", "checkpoint"} :
           Continue(s, [sweep[s] EXCEPT !.pc = pc, !.windows = windows])
    BY <1>7 DEF TradeWindow, TradeForNobody
  <2>2. sweep[s].pc = "scan"
    BY <1>7 DEF TradeWindow, TradeForNobody, At
  <2>. HIDE DEF windows
  <2>. DEFINE r == [sweep[s] EXCEPT !.pc = pc, !.windows = windows]
  <2>3. r.pc = pc /\ r.next = sweep[s].next
    BY <1>1 DEF Sweeps
  <2>4. Continue(s, r)
    BY <2>1
  <2>. HIDE DEF r
  <2>. QED BY <2>1, <2>2, <2>3, <2>4, SweepAt DEF Moves
<1>8. CASE Checkpoint(s)
  <2>. DEFINE next == sweep[s].next + 1
  <2>1. Continue(s, [sweep[s] EXCEPT !.pc = "boundary", !.next = next])
    BY <1>8 DEF Checkpoint
  <2>2. sweep[s].pc = "checkpoint" /\ sweep[s].next < Windows
    BY <1>1, <1>8 DEF Checkpoint, SweepOK, At
  <2>. HIDE DEF next
  <2>. DEFINE r == [sweep[s] EXCEPT !.pc = "boundary", !.next = next]
  <2>3. r.pc = "boundary" /\ r.next = next
    BY <1>1 DEF Sweeps
  <2>4. Continue(s, r)
    BY <2>1
  <2>. HIDE DEF r
  <2>. QED BY <2>2, <2>3, <2>4, SweepAt DEF Moves, next
<1>9. CASE Finalise(s) \/ Ranked(s) \/ Fail(s)
  <2>1. PICK pc \in {"ranks", "end"} :
           /\ Continue(s, [sweep[s] EXCEPT !.pc = pc])
           /\ \/ sweep[s].pc = "final"
              \/ sweep[s].pc \in {"ranks", "failing"} /\ pc = "end"
    BY <1>9 DEF Finalise, Ranked, Fail, At
  <2>. QED BY <2>1, MovesTo DEF Moves
<1>10. CASE End(s)
  BY <1>10, SweepAt, Rested DEF End, Moves, At
<1>11. CASE SweepError(s)
  <2>1. PICK pc \in {"end", "failing"} :
           /\ Continue(s, [sweep[s] EXCEPT !.pc = pc])
           /\ pc = IF sweep[s].pc = "failing" THEN "end" ELSE "failing"
    BY <1>11 DEF SweepError
  <2>2. sweep'[s].pc = pc /\ sweep[s].pc \notin {"idle", "end"}
    BY <1>11, <2>1, MovesTo DEF SweepError, At
  <2>3. sweep[s].pc = "checkpoint" => sweep[s].next < Windows
    BY <1>1 DEF SweepOK
  <2>. QED BY <2>1, <2>2, <2>3 DEF Moves
<1>. QED BY <1>2, <1>3, <1>4, <1>5, <1>6, <1>7, <1>8, <1>9, <1>10, <1>11 DEF SweepStep

\* Whatever moves a sweep brings it nearer to its end.
LEMMA StepNearer == ASSUME IInv, IInv', Next PROVE Nearer
<1>. SUFFICES ASSUME NEW t \in Strategies, ~ At(t, "idle"), sweep'[t] # sweep[t]
              PROVE  Moves(sweep[t], sweep'[t])
  BY MovesNearer DEF Nearer, IInv, TypeOK, EngineTypeOK
<1>1. Sound /\ t \in running
  BY IInvParts DEF Sound, EngineOK, SweepOK
<1>2. ASSUME NEW s \in Strategies, SweepStep(s) \/ SweepError(s) PROVE Moves(sweep[t], sweep'[t])
  <2>1. \E r : Continue(s, r)
    BY <1>2 DEF SweepStep, SweepError, ReadRow, InitRow, ClearTrades, Load, Boundary,
       AbortWindow, TradeWindow, TradeForNobody, Checkpoint, Finalise, Ranked, Fail, End
  <2>2. t = s
    BY <1>1, <2>1, SweepAt
  <2>. QED BY <1>1, <1>2, <2>2, SweepMoves
<1>3. ASSUME NEW s \in Strategies, NEW by, Claim(s, by) PROVE FALSE
  <2>1. (\E r : Continue(s, r)) /\ s \notin running
    BY <1>3 DEF Claim, Unclaimed
  <2>. QED BY <1>1, <2>1, SweepAt
<1>4. CASE Crash
  <2>1. sweep'[t] = Resting
    BY <1>4 DEF Crash, EngineLost
  <2>. QED BY <2>1, Rested DEF Moves, At
<1>5. ASSUME NEW s \in Strategies, SetFlag(s) \/ DeleteRow(s) \/ Request(s) \/ Delete(s)
      PROVE  UNCHANGED sweep
  BY <1>5 DEF SetFlag, DeleteRow, Request, Delete
<1>6. ASSUME NEW c \in Campaigns, DriverStep(c), \A s \in Strategies : ~ Launch(c, s)
      PROVE  UNCHANGED sweep
  BY <1>6 DEF DriverStep, Begin, BeginNothing, Mark, ListRunning, Normalise, ListQueue,
     PassOver, Decide, WriteVerdict, Excepted, DriverEnd, engineVars
<1>7. ASSUME NEW c \in Campaigns,
             SignalStep(c) \/ Start(c) \/ Order(c) \/ DeleteCampaign(c) \/ DriverError(c)
      PROVE  UNCHANGED sweep
  BY <1>7 DEF SignalStep, SignalList, SignalMember, SignalFails, SignalDone, Start, Order,
     DeleteCampaign, DriverError, engineVars
<1>. QED BY <1>2, <1>3, <1>4, <1>5, <1>6, <1>7 DEF Next, LoopStep, Run, Launch

\* A sweep ends by itself: from its claim on it has at most 3 * Windows + 9
\* steps to go and every step of its own, an error or a crash brings it nearer
\* to its end; nobody else moves it (run, _sweep).
THEOREM SweepsEnd ==
    Spec => /\ [](\A s \in Strategies : StepsLeft(sweep[s]) \in 0 .. 3 * Windows + 9)
            /\ [][Nearer]_vars
<1>1. IInv => \A s \in Strategies : StepsLeft(sweep[s]) \in 0 .. 3 * Windows + 9
  BY StepsLeftBound DEF IInv, TypeOK, EngineTypeOK
<1>2. IInv /\ IInv' /\ [Next]_vars => [Nearer]_vars
  BY StepNearer
<1>. QED BY <1>1, <1>2, Invariance, PTL DEF Spec

=============================================================================
