------------------------------ MODULE MCIngest ------------------------------
(***************************************************************************)
(* Instances of Ingest for TLC: market a is on both venues, b was listed   *)
(* by dYdX only. Some hours have no bar, some bars break a rule.           *)
(***************************************************************************)
EXTENDS Ingest

CONSTANTS a, b

Names == <<a, b>>
ListedOn == [v \in Venues |-> IF v = "dydx" THEN {a, b} ELSE {a}]

\* Every hour but the third; the fourth is a flat bar with a volume.
Gappy == [h \in Hours \ {3} |-> IF h = 4 THEN {"flat"} ELSE {}]
\* Two dirty bars of four, one of them for two reasons.
Dirty == [h \in {1, 2, 4, 5} |->
             CASE h = 1 -> {"nonpositive"} [] h = 4 -> {"zero_volume", "flat"} [] OTHER -> {}]
Full == [h \in Hours |-> {}]

Histories ==
    [v \in Venues |-> [m \in Markets |->
        IF v = "dydx" THEN IF m = a THEN Gappy ELSE Dirty ELSE Full]]
NoneOrAllVenues == {{}, Venues}
NoneOrAllMarkets == {{}, Markets}
Rates == [v \in Venues |-> [m \in Markets |-> IF m = a THEN {2, 5} ELSE {}]]

=============================================================================
