SPECIFICATION FairSpec
CONSTANTS
  NoItem = NoItem
  Outputs = {A}
  Powered = {A}
  Hotpluggable = {A}
  Configurable = {A}
  SessionPauses = FALSE
  MaxCount = 2
INVARIANTS
  FramesAccounted
  DarkNeedsModeset
PROPERTIES
  FramesAnswered
