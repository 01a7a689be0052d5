CONSTANTS
    c1 = c1
    c2 = c2
    m1 = m1
    m2 = m2
    router = router
    Strategies = {m1, m2}
    Windows = 2
    Launchers <- OneOwner
    Nobody = router
    Campaigns <- OneCampaign
    CampaignOf <- MembersOfOne
    Concurrency = 1
    Faults = {"crash", "error"}
    MaxCalls = 3
    MaxDowns = 1
SPECIFICATION Spec
INVARIANTS
    TypeOK
    RowIsAPrefix
    BlotterMatchesRow
    RunningIsDriven
    HonestCosts
    FlagsRestored
    NothingSkipped
    NobodyWaits
SYMMETRY MemberSymmetry
CHECK_DEADLOCK FALSE
