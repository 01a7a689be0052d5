CONSTANTS
    Passes = {p1, p2}
    Bot = bot
    MaxPrompts = 2
    MaxUpdates = 2
    MaxRestarts = 1
SPECIFICATION FairSpec
INVARIANTS
    TypeOK
    ExecutedWasApproved
    OneOutstanding
PROPERTIES
    AllServed
