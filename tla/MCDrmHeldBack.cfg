SPECIFICATION Spec
CONSTANTS
  NoItem = NoItem
  Outputs = {A, B}
  Powered = {B}
  Hotpluggable = {}
  Configurable = {}
  SessionPauses = FALSE
  MaxCount = 2
INVARIANTS
  HeldBackForSomeone
CONSTRAINT CountersBounded
