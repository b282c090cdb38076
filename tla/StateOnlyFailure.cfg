\* A row update that the state store refuses is not planned again.
CONSTANTS
    ann = ann  bob = bob  h1 = h1  h2 = h2
    b1 = b1  b2 = b2  b3 = b3  garbage = garbage
    Uid = {ann}
    Href = {h1, h2}
    Body = {b1, b2, b3}
    Unreadable = garbage
    None = None
    UserCopies = TRUE
    PutsBack = TRUE
    Mint <- MintOne
    Winner = "icloud"
    DeleteFloor = 10
    DeletePercent = 20
    Start = {ann}
    Home <- HomeMinted
    MaxEdits = 2
    MaxFaults = 1
    Faults = {"store"}
    EditSides <- BothSides
    EditBodies = {b1, b2, b3}
    EditsInCycle = TRUE
    EtagReplies <- AlwaysEtag
SPECIFICATION Spec
SYMMETRY BodySymmetry
INVARIANT IdleIsInSync
