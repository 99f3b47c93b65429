SPECIFICATION Spec
CONSTANTS
  xinput = xinput
  switch = switch
  dinput = dinput
  Mode <- Ultimate
  Slide = xinput
  Via = xinput
  NeedsFlip = FALSE
  ReadsBack = TRUE
  Validated = TRUE
  Silent = TRUE
  MaxPages = 0
  MaxReplugs = 1
INVARIANTS
  SuccessStandsUnlessUndone
PROPERTIES
  OnlyUndoingStrays
