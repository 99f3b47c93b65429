SPECIFICATION Spec
CONSTANTS
  p1 = p1
  p2 = p2
  xinput = xinput
  switch = switch
  Nothing = Nothing
  Port <- TwoPorts
  Mode <- TwoModes
  UnlockMode = xinput
  WriteVia <- Flips
  Kinds <- Lockable
  SettlePolls = 2
  MaxDevnum = 2
  MaxQueue = 1
  MaxSend = 0
  MaxClicks = 2
  Unsettled = TRUE
SYMMETRY Ports
INVARIANTS
  UnlockingIsAnswered
  PresentIsTrue
