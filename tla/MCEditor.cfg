\* Edits, imports, reads and writes of one slot in every order.
SPECIFICATION EditorSpec
CONSTANTS
    Models <- MCModels
    PackedModels <- MCPacked
    MacroCount <- MCMacroCount
    Buttons = {"a", "b"}
    Outputs <- MCOutputs
    DefaultMap <- MCDefault
    StepLists <- MCStepLists
    NoSteps = "none"
    Modes = {"x"}
    Slots = {1}
    Keep = Keep
    Batches = {}
    Pads <- MCPads
    MaxBatches = 1
    Nothing = Nothing
    Starters = {"a", "b"}
    TriggersPerMacro <- MCTriggersPerMacro
    Unrecognised = "?"
    Placeholder <- MCPlaceholder
    NewSteps = "s1"
    ProfileFiles <- MCProfileFiles
    MacroImports <- MCMacroImports
    Elsewhere <- MCElsewhere
    MaxEdits = 2
    MaxElsewhere = 1
CHECK_DEADLOCK FALSE
INVARIANTS
    OneStarter
    JobIsAccepted
PROPERTIES
    ShownIsWritten
    RevertPutsBack
