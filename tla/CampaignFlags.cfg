CONSTANTS
    c1 = c1
    c2 = c2
    m1 = m1
    m2 = m2
    router = router
    Strategies = {m1, m2}
    Windows = 1
    Launchers <- TwoOwners
    Nobody = router
    Campaigns <- TwoCampaigns
    CampaignOf <- OneMemberEach
    Concurrency = 1
    Faults = {}
    MaxCalls = 2
    MaxDowns = 0
SPECIFICATION Spec
INVARIANTS
    FlagsRestored
CHECK_DEADLOCK FALSE
