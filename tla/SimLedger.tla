------------------------------ MODULE SimLedger -----------------------------
(***************************************************************************)
(* What a paper-trading session promises, without ticks, rows or locks: a  *)
(* fund that changes only by deposits and by the P&L of a close, a book of *)
(* open pairs within its limit and its margin, and a final STOPPED.        *)
(* SimSession implements it.                                               *)
(***************************************************************************)
EXTENDS Integers, FiniteSets

CONSTANTS SimPairs, Starting, MaxActive, PnLs

VARIABLES
    phase,  \* RUNNING, PAUSED or STOPPED
    fund,   \* what the session owns in units of one position's margin
    book    \* the pairs with an open position

ledgerVars == <<phase, fund, book>>

Init ==
    /\ phase = "RUNNING"
    /\ fund = Starting
    /\ book = {}

\* A position is opened while the session runs, if the fund covers it too.
Open(pair) ==
    /\ phase = "RUNNING"
    /\ pair \notin book
    /\ Cardinality(book) < MaxActive
    /\ Cardinality(book) + 1 <= fund
    /\ book' = book \cup {pair}
    /\ UNCHANGED <<phase, fund>>

Close(pair, pnl) ==
    /\ phase # "STOPPED"
    /\ pair \in book
    /\ book' = book \ {pair}
    /\ fund' = fund + pnl
    /\ UNCHANGED phase

Deposit ==
    /\ phase # "STOPPED"
    /\ fund' = fund + 1
    /\ UNCHANGED <<phase, book>>

\* Pause and resume alternate as they like; a stop leaves nothing open.
Control ==
    /\ phase # "STOPPED"
    /\ phase' \in {"RUNNING", "PAUSED", "STOPPED"}
    /\ phase' = "STOPPED" => book = {}
    /\ UNCHANGED <<fund, book>>

Next ==
    \/ \E pair \in SimPairs : Open(pair) \/ \E pnl \in PnLs : Close(pair, pnl)
    \/ Deposit
    \/ Control

Spec == Init /\ [][Next]_ledgerVars

=============================================================================
