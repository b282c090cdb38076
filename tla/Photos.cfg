\* One contact, from unsynced or never tracked, two edits and any one fault.
CONSTANTS
    None = None
    small = small  big = big  huge = huge  odd = odd  shrunk = shrunk
    Picture = {small, big, huge, odd, shrunk}
    UserPics = {small, big, huge, odd}
    Odd = {odd}
    Fitted <- Fits
    Winner = "icloud"
    Text = {"a", "b"}
    Starts <- AnyStart
    Edits = {"text", "photo", "remove", "delete", "uri"}
    Faults = {"crash", "lost", "download", "readback", "drop"}
    MaxEdits = 2
    MaxFaults = 1
    EditsAtReadBack = FALSE
SPECIFICATION Spec
INVARIANTS RecordedIsThere NoGapAtRest
PROPERTIES FastmailKeepsItsPhoto Rests
CHECK_DEADLOCK FALSE
