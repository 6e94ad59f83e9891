SPECIFICATION FairSpec
CONSTANTS
  Positions = {0}
  FrameSizes = {1}
  ClientSizes = {1}
  Border = 0
  Flags = {"Maximized"}
  Decorations = {FALSE, TRUE}
  Gravities = {"Left"}
  Interactions = {"move", "resize", "hide"}
  SerialModulus = 3
  FirstSerials = {0}
  Wraps = FALSE
  MaxEvents = 2
  Reach = 1
INVARIANTS
  LooksConverge
PROPERTIES
  LooksReached
