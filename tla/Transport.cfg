\* Two cards, two changes or writes, one move of the collection, one failure.
CONSTANTS
    None = None
    h1 = h1  h2 = h2  p1 = p1  p1escaped = p1escaped  p2 = p2  self = self  below = below
    Href = {h1, h2}
    Itself = Itself
    Below = Below
    Spelling = {p1, p1escaped, p2, self, below}
    Canonical <- CanonicalPaths
    Batch = 1
    MaxPages = 2
    MaxHops = 1
    Order <- WrittenAt
    FirstRev = 2
    Failing = {0, 401, 404, 429}
    Tagless = {}
    MaxRev = 4
    MaxHost = 2
    MaxFaults = 1
SPECIFICATION Spec
INVARIANTS MissingIsGone TokensStayHome
PROPERTIES Atomic DeletedIsGone Follows
CHECK_DEADLOCK FALSE
