---------------------------- MODULE MCSimSession ----------------------------
(***************************************************************************)
(* Instances of SimSession for TLC.                                        *)
(***************************************************************************)
EXTENDS SimSession, TLC

GainOrLoss == {-1, 1}

HandlerSymmetry == Permutations(Handlers)
PairSymmetry == Permutations(SimPairs)
SessionSymmetry == HandlerSymmetry \cup PairSymmetry

=============================================================================
