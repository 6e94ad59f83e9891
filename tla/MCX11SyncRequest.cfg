SPECIFICATION FairSpec
CONSTANTS
  Sizes = {1, 2}
  LoModulus = 2
  MaxRequests = 3
  MaxAlarms = 2
  AnyTime = FALSE
INVARIANTS
  WaitHasRelease
  NoRequestOnTop
PROPERTIES
  SizeApplied
  ShownOnceDrawn
