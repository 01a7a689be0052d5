----------------------------- MODULE MCCampaign -----------------------------
(***************************************************************************)
(* Instances of Campaign for TLC.                                          *)
(***************************************************************************)
EXTENDS Campaign, TLC

CONSTANTS c1, c2, m1, m2, router

OneCampaign == {c1}
TwoCampaigns == {c1, c2}
MembersOfOne == [s \in Strategies |-> c1]
OneMemberEach == [s \in Strategies |-> IF s = m1 THEN c1 ELSE c2]
OneOwner == {c1, router}
TwoOwners == {c1, c2, router}

MemberSymmetry == Permutations({m1, m2})

=============================================================================
