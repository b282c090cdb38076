CONSTANTS
    None = None
    daemon = daemon
    once = once
    u1 = u1
    u2 = u2
    h1 = h1
    e1 = e1
    e2 = e2
    Proc <- procs
    Daemon = daemon
    Uid <- uids
    Href <- hrefs
    Etag <- etags
    Url <- urls
    Homes = {"p1"}
    Operations <- operations
    MaxCycles <- cycles
    MaxOps = 1
    MaxResets = 1
    MaxMoves = 1
    MaxCrashes = 1

SPECIFICATION FairSpec
INVARIANTS TokensStand NeverReadOnly
PROPERTIES Serializable CyclesEnd
CHECK_DEADLOCK FALSE
