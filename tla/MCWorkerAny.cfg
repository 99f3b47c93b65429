SPECIFICATION KSpec
CONSTANTS
  p1 = p1
  xinput = xinput
  switch = switch
  Nothing = Nothing
  Port <- OnePort
  Mode <- TwoModes
  UnlockMode = xinput
  WriteVia <- Flips
  Kinds <- AllKinds
  SettlePolls = 3
  MaxDevnum = 2
  MaxQueue = 1
  MaxSend = 1
  Unsettled = TRUE
  KeepaliveModes <- Resetting
  WatchPolls = 2
  LoopChanges = 1
PROPERTIES
  TellsOnlyAgreed
  HeldOnceItStays
