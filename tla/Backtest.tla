------------------------------ MODULE Backtest ------------------------------
(***************************************************************************)
(* Walk-forward sweeps: backtest/engine.py over the strategy rows and the  *)
(* blotter of db/backtest_repository.py, and the calls of                  *)
(* routers/backtest.py that run, pause, stop and delete one.               *)
(*                                                                         *)
(* A window is its index; what it earns is left out, for the capital and   *)
(* the aggregates are written in the same update as the window's record.   *)
(* The blotter counts the batches inserted for each window. A window is    *)
(* replayed in memory without giving way to another coroutine, so trading  *)
(* it is one step with the end of its scan. Strategies are not edited.     *)
(***************************************************************************)
EXTENDS Integers, Sequences, FiniteSets

CONSTANTS
    Strategies,
    Windows,   \* how many windows the span of a strategy holds
    Launchers, \* who runs a strategy: an owner of cost flags, or Nobody
    Nobody,    \* the router's launcher; also the cost flags of the environment
    Faults,    \* subset of {"crash", "error"}
    MaxCalls,  \* bound: requests of the operator
    MaxDowns   \* bound: restarts and exceptions

ASSUME WindowsAssumption == Windows \in Nat \ {0}
ASSUME LaunchersAssumption == Nobody \in Launchers
ASSUME BoundsAssumption == MaxCalls \in Nat /\ MaxDowns \in Nat

VARIABLES
    status,    \* strategy.status
    processed, \* strategy.processed_windows
    recorded,  \* strategy.per_window: the windows whose results are booked
    blotter,   \* the batches in backtest_trades, by window
    control,   \* _control: the flag that a sweep polls
    running,   \* _running: the strategies with a sweep in flight
    asked,     \* requests that read the row and have not acted on it yet
    sweep,     \* the local state of the sweep of each strategy
    flags,     \* config.PER_MARKET_SLIPPAGE and MARKET_IMPACT: whose values
    calls,     \* requests so far
    downs      \* restarts and exceptions so far

rowVars == <<status, processed, recorded, blotter>>
engineVars == <<rowVars, control, running, asked, sweep, flags, calls, downs>>

Statuses == {"PENDING", "RUNNING", "PAUSED", "STOPPED", "COMPLETED", "FAILED"}

\* A row that is gone. An update of it answers None and has no effect.
Exists(s) == status[s] # "DELETED"
Updated(s, new) == [status EXCEPT ![s] = IF Exists(s) THEN new ELSE @]

Indices == 0..(Windows - 1)

(***************************************************************************)
(* Locals of a sweep: who launched it, the next window, the windows in its *)
(* accumulator, the cost flags it charges and the status it will end in.   *)
(***************************************************************************)
Resting == [pc |-> "idle", by |-> Nobody, next |-> 0, windows |-> <<>>,
            costs |-> Nobody, terminal |-> "COMPLETED"]

Sweeps == [pc: {"idle", "read", "init", "clear", "load", "boundary", "scan",
                "checkpoint", "final", "ranks", "failing", "end"},
           by: Launchers, next: 0..Windows, windows: Seq(Indices),
           costs: Launchers, terminal: {"COMPLETED", "PAUSED", "STOPPED"}]

At(s, pc) == sweep[s].pc = pc

Continue(s, locals) == sweep' = [sweep EXCEPT ![s] = locals]

ControlFlags == {"pause", "stop"}
ActionAsStatus(flag) == flag  \* mutant: the action is stored as it is
KeepsRunning(flag) ==  \* mutant: a pause leaves the row RUNNING
    IF flag = "stop" THEN "STOPPED" ELSE "RUNNING"
Ended(flag) == IF flag = "stop" THEN "STOPPED" ELSE "PAUSED"

(***************************************************************************)
(* Requests.                                                               *)
(***************************************************************************)
Call ==
    /\ calls < MaxCalls
    /\ calls' = calls + 1

Unclaimed(s) == s \notin running

\* BacktestEngine.run claims the strategy before its first await. A second
\* run of a claimed strategy returns without any effect.
Claim(s, by) ==
    /\ Unclaimed(s)
    /\ running' = running \cup {s}
    /\ Continue(s, [Resting EXCEPT !.pc = "read", !.by = by])

\* POST /strategies/{id}/run.
Run(s) ==
    /\ Call
    /\ status[s] \notin {"RUNNING", "DELETED"}
    /\ Claim(s, Nobody)
    /\ UNCHANGED <<rowVars, control, asked, flags, downs>>

\* _request reads the row; a row that is not RUNNING is left alone ...
ReadForRequest(s, flag) ==
    /\ status[s] = "RUNNING"
    /\ asked' = asked \cup {<<s, flag>>}

Request(s) ==
    /\ Call
    /\ \E flag \in ControlFlags : ReadForRequest(s, flag)
    /\ UNCHANGED <<rowVars, control, running, sweep, flags, downs>>

\* ... and sets the flag when the answer of the database is back.
SetFlag(s) ==
    /\ \E flag \in ControlFlags :
          /\ <<s, flag>> \in asked
          /\ control' = [control EXCEPT ![s] = flag]
          /\ asked' = asked \ {<<s, flag>>}
    /\ UNCHANGED <<rowVars, running, sweep, flags, calls, downs>>

\* DELETE /strategies/{id} reads that the row is not RUNNING ...
Delete(s) ==
    /\ Call
    /\ status[s] \notin {"RUNNING", "DELETED"}
    /\ asked' = asked \cup {<<s, "delete">>}
    /\ UNCHANGED <<rowVars, control, running, sweep, flags, downs>>

(***************************************************************************)
(* The sweep.                                                              *)
(***************************************************************************)
Resuming(s) == status[s] = "PAUSED" /\ processed[s] > 0

\* The row decides: gone, already RUNNING, resume at its cursor, or start afresh.
ReadRow(s) ==
    /\ At(s, "read")
    /\ Continue(s, [sweep[s] EXCEPT
          !.pc = CASE status[s] = "DELETED" -> "failing"
                   [] status[s] = "RUNNING" -> "end"
                   [] OTHER -> "init",
          !.next = IF Resuming(s) THEN processed[s] ELSE 0,
          !.windows = IF Resuming(s) THEN recorded[s] ELSE <<>>])
    /\ UNCHANGED <<rowVars, control, running, asked, flags, calls, downs>>

\* A sweep resumes if and only if its cursor is past the first window.
Fresh(s) == sweep[s].next = 0

InitRow(s) ==
    /\ At(s, "init")
    /\ status' = Updated(s, "RUNNING")
    /\ processed' = [processed EXCEPT ![s] = IF Fresh(s) THEN 0 ELSE @]
    /\ recorded' = [recorded EXCEPT ![s] = IF Fresh(s) THEN <<>> ELSE @]
    /\ Continue(s, [sweep[s] EXCEPT !.pc = IF Fresh(s) THEN "clear" ELSE "load"])
    /\ UNCHANGED <<blotter, control, running, asked, flags, calls, downs>>

Kept(s) == blotter[s]  \* mutant: the trades of the former run stay
Cleared(s) == [w \in Indices |-> 0]

ClearTrades(s) ==
    /\ At(s, "clear")
    /\ blotter' = [blotter EXCEPT ![s] = Cleared(s)]
    /\ Continue(s, [sweep[s] EXCEPT !.pc = "load"])
    /\ UNCHANGED <<status, processed, recorded, control, running, asked, flags,
                   calls, downs>>

\* ... and deletes it with its trades later, whatever has become of it.
DeleteRow(s) ==
    /\ <<s, "delete">> \in asked
    /\ asked' = asked \ {<<s, "delete">>}
    /\ status' = [status EXCEPT ![s] = "DELETED"]
    /\ processed' = [processed EXCEPT ![s] = 0]
    /\ recorded' = [recorded EXCEPT ![s] = <<>>]
    /\ blotter' = [blotter EXCEPT ![s] = Cleared(s)]
    /\ UNCHANGED <<control, running, sweep, flags, calls, downs>>

\* The history from the scan of the next window on (there has to be one: a
\* cursor past the last window is an IndexError), and the cost flags.
Load(s) ==
    /\ At(s, "load")
    /\ Continue(s, [sweep[s] EXCEPT
          !.pc = IF sweep[s].next < Windows THEN "boundary" ELSE "failing",
          !.costs = flags])
    /\ UNCHANGED <<rowVars, control, running, asked, flags, calls, downs>>

\* The flag is polled before a window, not after the last one.
Boundary(s) ==
    /\ At(s, "boundary")
    /\ IF sweep[s].next = Windows
       THEN Continue(s, [sweep[s] EXCEPT !.pc = "final"])
       ELSE IF control[s] = "none"
       THEN Continue(s, [sweep[s] EXCEPT !.pc = "scan"])
       ELSE Continue(s, [sweep[s] EXCEPT !.pc = "final", !.terminal = Ended(control[s])])
    /\ UNCHANGED <<rowVars, control, running, asked, flags, calls, downs>>

\* A flag that landed during the scan discards the window.
AbortWindow(s) ==
    /\ At(s, "scan")
    /\ control[s] # "none"
    /\ Continue(s, [sweep[s] EXCEPT !.pc = "final", !.terminal = Ended(control[s])])
    /\ UNCHANGED <<rowVars, control, running, asked, flags, calls, downs>>

\* Trades need their strategy: the insert raises, unless there are none.
TradeForNobody(s) ==
    /\ At(s, "scan")
    /\ control[s] = "none"
    /\ ~ Exists(s)
    /\ \E pc \in {"failing", "checkpoint"} :
          Continue(s, [sweep[s] EXCEPT !.pc = pc, !.windows = Append(@, sweep[s].next)])
    /\ UNCHANGED <<rowVars, control, running, asked, flags, calls, downs>>

\* The window is traded and its trades are inserted; its record comes later.
TradeWindow(s) ==
    /\ At(s, "scan")
    /\ control[s] = "none"
    /\ Exists(s)
    /\ blotter' = [blotter EXCEPT ![s][sweep[s].next] = @ + 1]
    /\ Continue(s, [sweep[s] EXCEPT !.pc = "checkpoint",
                                    !.windows = Append(@, sweep[s].next)])
    /\ UNCHANGED <<status, processed, recorded, control, running, asked, flags,
                   calls, downs>>

LateCursor(s) == sweep[s].next  \* mutant: the window just traded stays next
Cursor(s) == sweep[s].next + 1

Checkpoint(s) ==
    /\ At(s, "checkpoint")
    /\ processed' = [processed EXCEPT ![s] = IF Exists(s) THEN Cursor(s) ELSE @]
    /\ recorded' = [recorded EXCEPT ![s] = IF Exists(s) THEN sweep[s].windows ELSE @]
    /\ Continue(s, [sweep[s] EXCEPT !.pc = "boundary", !.next = @ + 1])
    /\ UNCHANGED <<status, blotter, control, running, asked, flags, calls, downs>>

\* A paused sweep returns here.
Finalise(s) ==
    /\ At(s, "final")
    /\ status' = Updated(s, sweep[s].terminal)
    /\ processed' = [processed EXCEPT ![s] = IF Exists(s) THEN sweep[s].next ELSE @]
    /\ recorded' = [recorded EXCEPT ![s] = IF Exists(s) THEN sweep[s].windows ELSE @]
    /\ Continue(s, [sweep[s] EXCEPT !.pc = IF sweep[s].terminal = "PAUSED"
                                           THEN "end" ELSE "ranks"])
    /\ UNCHANGED <<blotter, control, running, asked, flags, calls, downs>>

\* The ranks of all strategies are written and the row is read back; an
\* exception here still writes FAILED over the status of the finished sweep.
Ranked(s) ==
    /\ At(s, "ranks")
    /\ Continue(s, [sweep[s] EXCEPT !.pc = "end"])
    /\ UNCHANGED <<rowVars, control, running, asked, flags, calls, downs>>

Fail(s) ==
    /\ At(s, "failing")
    /\ status' = Updated(s, "FAILED")
    /\ Continue(s, [sweep[s] EXCEPT !.pc = "end"])
    /\ UNCHANGED <<processed, recorded, blotter, control, running, asked, flags,
                   calls, downs>>

\* The finally of run.
End(s) ==
    /\ At(s, "end")
    /\ control' = [control EXCEPT ![s] = "none"]
    /\ running' = running \ {s}
    /\ Continue(s, Resting)
    /\ UNCHANGED <<rowVars, asked, flags, calls, downs>>

SweepStep(s) ==
    \/ ReadRow(s) \/ InitRow(s) \/ ClearTrades(s) \/ Load(s) \/ Boundary(s)
    \/ AbortWindow(s) \/ TradeWindow(s) \/ TradeForNobody(s) \/ Checkpoint(s) \/ Finalise(s)
    \/ Ranked(s) \/ Fail(s) \/ End(s)

(***************************************************************************)
(* Failures.                                                               *)
(***************************************************************************)

\* A database call or a fetch raises. If it was the write of FAILED itself,
\* the row keeps its status.
SweepError(s) ==
    /\ "error" \in Faults
    /\ downs < MaxDowns
    /\ ~ At(s, "idle") /\ ~ At(s, "end")
    /\ downs' = downs + 1
    /\ Continue(s, [sweep[s] EXCEPT !.pc = IF @ = "failing" THEN "end" ELSE "failing"])
    /\ UNCHANGED <<rowVars, control, running, asked, flags, calls>>

\* Whatever is in memory is lost; the rows stay as they are.
EngineLost ==
    /\ "crash" \in Faults
    /\ downs < MaxDowns
    /\ downs' = downs + 1
    /\ control' = [s \in Strategies |-> "none"]
    /\ running' = {}
    /\ asked' = {}
    /\ sweep' = [s \in Strategies |-> Resting]
    /\ flags' = Nobody
    /\ UNCHANGED <<rowVars, calls>>

-----------------------------------------------------------------------------
EngineInit ==
    /\ status = [s \in Strategies |-> "PENDING"]
    /\ processed = [s \in Strategies |-> 0]
    /\ recorded = [s \in Strategies |-> <<>>]
    /\ blotter = [s \in Strategies |-> [w \in Indices |-> 0]]
    /\ control = [s \in Strategies |-> "none"]
    /\ running = {}
    /\ asked = {}
    /\ sweep = [s \in Strategies |-> Resting]
    /\ flags = Nobody
    /\ calls = 0
    /\ downs = 0

-----------------------------------------------------------------------------
EngineTypeOK ==
    /\ status \in [Strategies -> Statuses \cup {"DELETED"}]
    /\ processed \in [Strategies -> 0..Windows]
    /\ recorded \in [Strategies -> Seq(Indices)]
    /\ blotter \in [Strategies -> [Indices -> Nat]]
    /\ control \in [Strategies -> ControlFlags \cup {"none"}]
    /\ running \in SUBSET Strategies
    /\ asked \in SUBSET (Strategies \X (ControlFlags \cup {"delete"}))
    /\ sweep \in [Strategies -> Sweeps]
    /\ flags \in Launchers
    /\ calls \in Nat
    /\ downs \in Nat

\* A resumed sweep is an uninterrupted one: the results of a row are those of
\* the windows before its cursor, each once and in order, and a COMPLETED row
\* has them all, whatever pauses, stops, restarts and errors came between.
RowIsAPrefix ==
    \A s \in Strategies :
        /\ recorded[s] = [i \in 1..processed[s] |-> i - 1]
        /\ status[s] = "COMPLETED" => processed[s] = Windows

\* The blotter has the trades of exactly the recorded windows, and of the
\* window about to be recorded: no window is inserted twice, and none for a
\* strategy that was deleted under its sweep.
BlotterMatchesRow ==
    downs = 0 =>
        \A s \in Strategies : ~ At(s, "clear") =>
            \A w \in Indices :
                blotter[s][w] =
                    IF \/ w < processed[s]
                       \/ Exists(s) /\ At(s, "checkpoint") /\ w = sweep[s].next
                    THEN 1 ELSE 0

=============================================================================
