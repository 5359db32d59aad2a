CONSTANTS
  BatchSize = 2
  RecentSize = 3
  MaxMessages = 4
  MaxMalformed = 1
  MaxFaults = 1
  MaxCleanups = 1
SPECIFICATION FairSpec
CHECK_DEADLOCK FALSE
INVARIANTS
  TypeOK
  EachInOnePlace
  BacklogHasFlush
  RecentIsNewest
  StopDrains
PROPERTIES
  EmittedIsSettled
