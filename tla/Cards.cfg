\* A contact and a group as texts: rewritings by the servers, an edit.
CONSTANTS
    None = None
    Upcase <- Capitals
    Digits <- SomeDigits
    Pairs <- TextPairs
    Aliases <- Replaced
    Labels <- GroupLabels
    Winners = {"icloud", "fastmail"}
    NewName <- AnnMay
    NewPhoto <- Picture
    MaxSaves = 1
    MaxEdits = 1
    MaxUpgrades = 1
    MaxEvents = 2
SPECIFICATION Spec
INVARIANTS AlwaysParses EchoIsQuiet PhotosStay
PROPERTIES OnlyEditsShow OnlyMembersChange
CHECK_DEADLOCK FALSE
