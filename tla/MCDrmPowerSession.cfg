SPECIFICATION Spec
CONSTANTS
  NoItem = NoItem
  Outputs = {A, B}
  Powered = {A, B}
  Hotpluggable = {}
  Configurable = {A}
  SessionPauses = TRUE
  MaxCount = 2
INVARIANTS
  InhibitsAccounted
  RestsWhenOff
CONSTRAINT CountersBounded
