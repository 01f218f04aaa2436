SPECIFICATION Spec
CONSTANTS
  p1 = p1
  p2 = p2
  Printers = {p1, p2}
  NumJobs = 3
  QueueCapacity = 2
  PaperCapacity = 2
  PapersLower = 1
  PapersUpper = 2
  SpuriousWakeups = 0
  Interruptible = FALSE
  Debug = FALSE
SYMMETRY PrinterSymmetry
INVARIANTS
  TypeOK
  JobsAccounted
  ServiceInOrder
  PaperWithinCapacity
  RequestPending
PROPERTY ImplementsJobFlow
CHECK_DEADLOCK FALSE
