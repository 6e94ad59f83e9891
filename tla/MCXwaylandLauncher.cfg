SPECIFICATION FairSpec
CONSTANTS
  Policy = "Restart"
  MaxCrashCount = 1
  MaxStarts = 3
  MaxCalls = 2
INVARIANTS
  TeardownUnderWay
  OneServer
PROPERTIES
  ConnectionsInTurn
  RunsAgain
  StartupEnds
CHECK_DEADLOCK FALSE
