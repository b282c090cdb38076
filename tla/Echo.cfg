\* One contact on servers that answer a PUT with its ETag, and a state store
\* that never refuses a transaction: what the daemon may take as unchanged.
CONSTANTS
    ann = ann  bob = bob  h1 = h1  h2 = h2
    b1 = b1  b2 = b2  b3 = b3  garbage = garbage
    Uid = {ann}
    Href = {h1, h2}
    Body = {b1, b2, b3}
    Unreadable = garbage
    None = None
    UserCopies = TRUE
    PutsBack = TRUE
    Mint <- MintOne
    Winner = "icloud"
    DeleteFloor = 10
    DeletePercent = 20
    Start = {ann}
    Home <- HomeMinted
    MaxEdits = 2
    MaxFaults = 2
    Faults = {"crash", "reset", "token", "reject", "unsent", "lost"}
    EditSides <- BothSides
    EditBodies = {b1, b2, b3}
    EditsInCycle = TRUE
    EtagReplies <- AlwaysEtag
SPECIFICATION Spec
SYMMETRY BodySymmetry
INVARIANTS UnchangedIsUnchanged IdleIsInSync
