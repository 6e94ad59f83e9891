SPECIFICATION FairSpec
CONSTANTS
  NoItem = NoItem
  Items = {i1, i2}
  Inhibitors = {dpms, session}
  BackendOwnsFrames = TRUE
  UninhibitWhilePending = FALSE
INVARIANTS
  FramesAccounted
  InhibitedLoopRests
  OneFrameAtATime
  RequestKept
  NoSpuriousFrame
  QueuedHasRelease
PROPERTIES
  RequestServed
  ImplementsScheduler
