\* One person under two UIDs, edits and any two faults but a rejected replay.
CONSTANTS
    x1 = x1  x2 = x2  y1 = y1  y2 = y2  g = g
    Uid = {x1, x2, y1, y2, g}
    Nameless = Nameless
    NoOrg = NoOrg
    None = None
    Content <- AnnVersions
    Books <- OnePerson
    Winner = "fastmail"
    MaxEdits = 2
    Faults <- NoRejectedReplay
SPECIFICATION Spec
INVARIANT NoVersionLost
