\* Two synced contacts, each on Fastmail at the href the other would be copied
\* to: once people stop, and whatever one fault hit, the address books become
\* equal, or what a person has to resolve is reported or stopped by the guard.
CONSTANTS
    ann = ann  bob = bob  h1 = h1  h2 = h2
    b1 = b1  b2 = b2  b3 = b3  garbage = garbage
    Uid = {ann, bob}
    Href = {h1, h2}
    Body = {b1, b2}
    Unreadable = garbage
    None = None
    UserCopies = TRUE
    PutsBack = TRUE
    Mint <- MintTwo
    Winner = "icloud"
    DeleteFloor = 1
    DeletePercent = 50
    Start = {ann, bob}
    Home <- HomeBoth
    MaxEdits = 2
    MaxFaults = 1
    Faults = {"crash", "reject", "lost"}
    EditSides <- BothSides
    EditBodies = {b2, garbage}
    EditsInCycle = TRUE
    EtagReplies <- AlwaysEtag
SPECIFICATION FairSpec
PROPERTY Converges
