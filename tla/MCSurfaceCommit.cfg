SPECIFICATION MCSpec
CONSTANTS
  a = a
  b = b
  Surfaces = {r, a, b}
  Root = r
  Links <- Chain
  Callbacks = {c1, c2}
  NoSurface = NoSurface
INVARIANTS
  CallbacksOnce
  StackingAsAsked
  MappedTracksTree
PROPERTIES
  SyncedWithParent
CONSTRAINT OneKind
