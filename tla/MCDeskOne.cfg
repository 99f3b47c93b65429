SPECIFICATION Spec
CONSTANTS
  p1 = p1
  p2 = p2
  xinput = xinput
  switch = switch
  Nothing = Nothing
  Port <- OnePort
  Mode <- TwoModes
  UnlockMode = xinput
  WriteVia <- Flips
  Kinds <- AllKinds
  SettlePolls = 2
  MaxDevnum = 4
  MaxQueue = 1
  MaxSend = 0
  MaxClicks = 2
  Unsettled = FALSE
PROPERTIES
  ShowsThePads
  LockedIsListed
