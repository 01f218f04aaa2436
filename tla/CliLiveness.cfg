SPECIFICATION ProgressSpec
CONSTANTS
  p1 = p1
  p2 = p2
  Printers = {p1, p2}
  NumJobs = 2
  QueueCapacity = 1
  PaperCapacity = 1
  PapersLower = 1
  PapersUpper = 1
  SpuriousWakeups = 0
  Interruptible = TRUE
  Debug = TRUE
CHECK_DEADLOCK FALSE
PROPERTIES
  EveryJobSettled
  EndsOrHangsAsKnown
