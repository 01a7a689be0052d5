CONSTANTS
    Passes = {p1, p2}
    Bot = bot
    MaxPrompts = 1
    MaxUpdates = 1
    MaxRestarts = 0
SPECIFICATION Spec
INVARIANTS
    RecordedDecides
