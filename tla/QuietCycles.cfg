\* A new contact on iCloud, people who leave the address books alone while a
\* cycle runs, and any two faults: nothing is ever copied twice.
CONSTANTS
    ann = ann  bob = bob  h1 = h1  h2 = h2
    b1 = b1  b2 = b2  b3 = b3  garbage = garbage
    Uid = {ann}
    Href = {h1, h2}
    Body = {b1, b2, b3}
    Unreadable = garbage
    None = None
    UserCopies = FALSE
    PutsBack = TRUE
    Mint <- MintOne
    Winner = "icloud"
    DeleteFloor = 10
    DeletePercent = 20
    Start = {}
    Home <- NoHome
    MaxEdits = 4
    MaxFaults = 2
    Faults <- AllFaults
    EditSides <- ICloudOnly
    EditBodies = {b1, b2, b3}
    EditsInCycle = FALSE
    EtagReplies <- SometimesEtag
SPECIFICATION Spec
SYMMETRY BodySymmetry
INVARIANT NoDuplicates
