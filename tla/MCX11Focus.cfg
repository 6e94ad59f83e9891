SPECIFICATION FairSpec
CONSTANTS
  Windows = {a, b}
  None = None
  NullFocus = NullFocus
  PointerRoot = PointerRoot
  MaxEvents = 3
  MaxWaiting = 3
INVARIANTS
  ActiveHasFocus
  FocusRestored
  NoDanglingWindow
PROPERTIES
  Settles
