\* Every kind of job on pads of both kinds.
SPECIFICATION CliSpec
CONSTANTS
    Models <- MCModels
    PackedModels <- MCPacked
    MacroCount <- MCMacroCount
    Buttons = {"a", "b"}
    Outputs <- MCOutputs
    DefaultMap <- MCDefault
    StepLists <- MCStepLists
    NoSteps = "none"
    Modes = {"x", "y"}
    Slots = {1, 2}
    Keep = Keep
    Batches <- MCBatches
    Pads <- MCPads
    MaxBatches = 1
    RenamingModels = {"pro3"}
    Folders <- MCFolders
    MacroFiles <- MCMacroFiles
    Between <- MCBetween
CHECK_DEADLOCK FALSE
INVARIANTS
    PutsStartAlone
    PagesCoverReplaced
PROPERTIES
    KeepsPromise
    ExportComesBack
