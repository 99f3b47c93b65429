\* Every call of the transport, with pads of every kind, late, wrong and missing answers.
SPECIFICATION Spec
CONSTANTS
    Nothing = Nothing
    Ports <- MCPorts
    Models <- MCModels
    Kinds <- MCKinds
    Ops <- MCOps
    Chunks = 2
    MaxCalls = 4
    MaxPlugs = 3
    LockedUsb = "l"
    LockedModel = "ultimate"
    UnlockPackets = 2
    Unlocks <- MCUnlocks
CHECK_DEADLOCK FALSE
INVARIANTS
    HandedBack
    SuccessIsThePads
    UnknownIsLeftAlone
