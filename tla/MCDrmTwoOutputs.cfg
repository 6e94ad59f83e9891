SPECIFICATION FairSpec
CONSTANTS
  NoItem = NoItem
  Outputs = {A, B}
  Powered = {}
  Hotpluggable = {}
  Configurable = {}
  SessionPauses = FALSE
  MaxCount = 2
INVARIANTS
  HeldBackForSomeone
PROPERTIES
  FramesAnswered
