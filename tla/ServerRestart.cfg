SPECIFICATION Spec
CONSTANTS
  p1 = p1
  Printers = {p1}
  NumJobs = 2
  QueueCapacity = 1
  PaperCapacity = 1
  PapersLower = 1
  PapersUpper = 1
  SpuriousWakeups = 0
  MaxStarts = 2
  MaxStops = 0
INVARIANT
  StartedSimulationsServe
CHECK_DEADLOCK FALSE
