\* One slot of either model in every mode: edits, imports, patches and writes.
SPECIFICATION SettingsSpec
CONSTANTS
    Nothing = Nothing
    Descriptions <- MCDescriptions
    Starts <- MCStarts
    Values = {3, 70}
    MaxEdits = 1
    MaxImports = 1
    MaxWrites = 1
    MaxCommands = 1
CHECK_DEADLOCK FALSE
INVARIANTS
    WrittenReadsBack
    LossIsListed
PROPERTIES
    OthersStayAsRead
    EditsAreAccepted
    NoClashIsMade
