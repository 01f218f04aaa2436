SPECIFICATION Spec
CONSTANTS
  p1 = p1
  p2 = p2
  Printers = {p1, p2}
  NumJobs = 2
  QueueCapacity = 2
  PaperCapacity = 2
  PapersLower = 2
  PapersUpper = 2
  SpuriousWakeups = 1
  Interruptible = TRUE
  Debug = TRUE
SYMMETRY PrinterSymmetry
INVARIANTS
  LeftByStop
  JobsAccounted
  PaperWithinCapacity
  NoLostJobWakeup
  NoLostSupplierWakeup
PROPERTY ImplementsJobFlow
CHECK_DEADLOCK FALSE
