--------------------------- MODULE MCLiveTrading ----------------------------
(***************************************************************************)
(* Instances of LiveTrading for TLC: two pairs that share a market.        *)
(***************************************************************************)
EXTENDS LiveTrading, TLC

CONSTANTS a, m, b

SharedLegPairs == {[base |-> a, quote |-> m], [base |-> m, quote |-> b]}
OnePair == {[base |-> a, quote |-> b]}

HandlerSymmetry == Permutations(Procs)
OrderSymmetry == Permutations(ClientIds)

=============================================================================
