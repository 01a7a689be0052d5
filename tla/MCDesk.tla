------------------------------- MODULE MCDesk -------------------------------
(***************************************************************************)
(* Instances of Desk for TLC. The demo source has three markets, so three  *)
(* pairs and two chunks of a scan; dYdX has a market whose bars are not    *)
(* aligned with the others. Hyperliquid lists two of the same names, but   *)
(* they stand for markets of its own, one of them too small for the floor. *)
(***************************************************************************)
EXTENDS Desk

CONSTANTS d1, d2, d3, x1, x2, x3

Markets == {d1, d2, d3, x1, x2, x3}
Listings ==
    [s \in ValidSources |-> CASE s = "fake" -> <<d1, d2, d3>>
                              [] s = "dydx" -> <<x1, x2, x3>>
                              [] s = "hyperliquid" -> <<x1, x2>>]
Volumes ==
    [s \in ValidSources |->
        [m \in Markets |-> IF s = "hyperliquid" /\ m = x2 THEN 1 ELSE 2]]
Hours == 1 .. 6
FewAndMany ==
    [s \in ValidSources |-> [m \in Markets |-> IF m = x3 THEN {1, 2, 4} ELSE Hours]]
Cached ==
    [e \in Exchanges |-> [m \in Markets |->
        IF m \in {d1, d2, d3} THEN {} ELSE FewAndMany[e][m]]]
Row1 == [source |-> "fake", pair |-> <<d1, d2>>]
Row2 == [source |-> "hyperliquid", pair |-> <<x1, x2>>]
Row3 == [source |-> "fake", pair |-> <<d2, d3>>]
Row4 == [source |-> "dydx", pair |-> <<x1, x2>>]
Good == <<Row1, Row2, Row3, Row4>>
\* The first pair enters, takes its profit and enters again to the end; the
\* others enter late and are stopped, or never enter.
Scores ==
    [s \in ValidSources |-> [p \in {<<d1, d2>>, <<d2, d3>>, <<x1, x2>>} |->
        IF p = <<d2, d3>> \/ s = "hyperliquid" THEN [h \in Hours |-> IF h < 4 THEN 3 ELSE 7]
        ELSE [h \in Hours |-> CASE h \in {3, 5, 6} -> 3 [] h = 4 -> 0 [] OTHER -> 1]]]
Env == [entry |-> 3, exit |-> 1, stop |-> 6]
Wide == [entry |-> 4, exit |-> 1, stop |-> 8]
Crossed == [entry |-> 2, exit |-> 3, stop |-> 8]
EnvAndAsked == {Env, Wide, Crossed}
Profit ==
    [reason \in {"STOP_LOSS_ZSCORE", "TAKE_PROFIT", "STOP_LOSS_TIME", "END_OF_REPLAY"} |->
        CASE reason = "TAKE_PROFIT" -> 2 [] reason = "END_OF_REPLAY" -> 1 [] OTHER -> -1]
AllWindow == {<<2, 6>>}
DemoDates == <<3, 6>>
ScannedBefore ==
    {[e \in Exchanges |-> "none"],
     [e \in Exchanges |-> IF e = "dydx" THEN "fake" ELSE e]}
NoneBefore == {[e \in Exchanges |-> "none"]}

=============================================================================
