SPECIFICATION FairSpec
CONSTANTS
  Repeat <- MountOpts
  MaxMounts = 2
  Lengths = {1, 2}
  MaxPages = 7
INVARIANTS SegmentsDisjoint SegmentsInFile
PROPERTY CallsReturn
\* A call waits for ever once the file has MaxPages pages, which is the bound's doing.
CHECK_DEADLOCK FALSE
