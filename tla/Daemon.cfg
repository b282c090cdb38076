CONSTANTS
    ann = ann  bob = bob  b1 = b1  b2 = b2  Junk = junk  None = None
    Contact = {ann, bob}
    Body = {b1, b2}
    Order <- InOrder
    Alike <- TwoAlike
    Synced = {ann, bob}
    Winner = "icloud"
    Poll = 1
    BackoffCap = 3
    MaxAttempts = 3
    DeleteFloor = 1
    DeletePercent = 50
    Resets = {FALSE, TRUE}
    Grace = 1
    RetryAfters = {0, 2}
    Mergers = TRUE
    Signals = TRUE
    BrokenSides = {"icloud"}
    Longest = 1
    MaxEdits = 2
    MaxFaults = 1
    FaultKinds = {"Permanent", "Transient"}
SPECIFICATION FairSpec
INVARIANTS WithinLimit OneIsLeft
PROPERTIES Spaced Patient IdleIsDone Stops OthersGetThrough
CHECK_DEADLOCK FALSE
