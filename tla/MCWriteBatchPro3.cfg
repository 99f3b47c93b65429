SPECIFICATION Spec
CONSTANTS
  xinput = xinput
  switch = switch
  dinput = dinput
  Mode <- Pro3
  Slide = switch
  Via = dinput
  NeedsFlip = TRUE
  ReadsBack = FALSE
  Validated = FALSE
  Silent = FALSE
  MaxPages = 2
  MaxReplugs = 1
INVARIANTS
  RolledBackIsRestored
  UnwrittenIsUntouched
  DanglingIsReported
  LossIsOnFile
  FlipIsUndoneOrReported
  SuccessIsWhole
