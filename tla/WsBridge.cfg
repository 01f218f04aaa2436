SPECIFICATION FairSpec
CONSTANTS
  Workers = {w1}
  Runner = runner
  Loop = loop
  MaxConnections = 2
  MaxSimulations = 2
  MaxMessages = 2
  MaxFrames = 1
  PipeSize = 2
INVARIANTS
  TypeOK
  NewestIsActive
  FramesInOrder
  NoStaleFrames
  WholeLog
PROPERTY NothingBlocks
CHECK_DEADLOCK FALSE
