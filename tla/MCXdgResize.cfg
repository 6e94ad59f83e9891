SPECIFICATION Spec
CONSTANTS
  Positions = {0, 1}
  FrameSizes = {1, 2}
  ClientSizes = {1, 2}
  Border = 1
  Flags = {}
  Decorations = {FALSE}
  Gravities = {"Left"}
  Interactions = {"resize"}
  SerialModulus = 4
  FirstSerials = {0}
  Wraps = TRUE
  MaxEvents = 2
  Reach = 1
INVARIANTS
  GeometryConverges
  PositionHolds
CONSTRAINT PositionsBounded
