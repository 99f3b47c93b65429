\* One pad with two macro slots: every edit, the undo list full at three entries.
SPECIFICATION Spec
CONSTANTS
    Sticks <- MCSticks
    Triggers <- MCTriggers
    StepButtons = {"a"}
    Rest = 2
    Full = 4
    MaxMs = 9
    NewStepMs = 2
    GlideStepMs = 2
    MinFoldRun = 3
    MaxSteps = 5
    Pads = {p1}
    MacroSlots = {m1, m2}
    OnOff = FALSE
    Snaps = FALSE
    MinMs = 1
    Durations = {7}
    Values = {3}
    Recorded <- MCRecorded
    UndoDepth = 2
    MaxEdits = 3
SYMMETRY MCSymmetry
CHECK_DEADLOCK FALSE
INVARIANTS
    GlidesEnd
    ShownIsPlayed
    UndoChains
