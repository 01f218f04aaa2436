SPECIFICATION ProgressSpec
CONSTANTS
  p1 = p1
  Printers = {p1}
  NumJobs = 2
  QueueCapacity = 1
  PaperCapacity = 1
  PapersLower = 1
  PapersUpper = 1
  SpuriousWakeups = 0
  MaxStarts = 3
  MaxStops = 1
INVARIANTS
  TypeOK
  OneSimulation
  CountersBalance
  NoLostJobWakeup
  RefillerThereToCancel
PROPERTIES
  EverySimulationEnds
  StaleRequestsIgnored
CHECK_DEADLOCK FALSE
