SPECIFICATION FairSpec
CONSTANTS
  MaxPackets = 4
INVARIANTS TuningTypeOK LeavesClean LineHeld
PROPERTIES TunesOnce LoopEnds
CHECK_DEADLOCK FALSE
