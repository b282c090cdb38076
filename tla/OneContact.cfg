\* One contact, two hrefs: people may edit, move, copy, delete and garble its
\* cards between any two steps of a cycle, with any one fault.
CONSTANTS
    ann = ann  bob = bob  h1 = h1  h2 = h2
    b1 = b1  b2 = b2  b3 = b3  garbage = garbage
    Uid = {ann}
    Href = {h1, h2}
    Body = {b1, b2, b3}
    Unreadable = garbage
    None = None
    UserCopies = TRUE
    PutsBack = TRUE
    Mint <- MintOne
    Winner = "icloud"
    DeleteFloor = 10
    DeletePercent = 20
    Start = {ann}
    Home <- HomeMinted
    MaxEdits = 2
    MaxFaults = 1
    Faults <- AllFaults
    EditSides <- BothSides
    EditBodies = {b1, b2, b3, garbage}
    EditsInCycle = TRUE
    EtagReplies <- SometimesEtag
SPECIFICATION Spec
SYMMETRY BodySymmetry
INVARIANTS TypeOK CounterpartWasRead
PROPERTIES EditBeatsDelete NoEditLost
