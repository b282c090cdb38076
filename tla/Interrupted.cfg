\* Up to two unsynced cards a side, one crash or failed store, and then perhaps
\* one rejected replay: pairing afresh.
CONSTANTS
    x1 = x1  x2 = x2  y1 = y1  y2 = y2  g = g
    Uid = {x1, x2, y1, y2, g}
    Nameless = Nameless
    NoOrg = NoOrg
    None = None
    Content <- Faces
    Books <- CutBooks
    Winner = "icloud"
    MaxEdits = 0
    Faults <- OneFault
SPECIFICATION Spec
INVARIANTS NeverMultiplies ReplansTheRest GroupsRelinked GroupsReported CycleAccounts DuplicatesKeepOne
