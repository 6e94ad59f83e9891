SPECIFICATION FairSpec
CONSTANTS
  MaxFences = 4
  GpuLag = 2
  NoFence = NoFence
INVARIANTS
  TriggerFindsFreeFence
  SignalIsOfThisRound
  WaitNotReset
PROPERTIES
  KWinGoesOn
