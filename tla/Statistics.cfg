SPECIFICATION Spec
CONSTANTS
  Printers = {p1, p2}
  NumJobs = 3
  QueueCapacity = 2
  MaxTime = 2
  IntRange = 4
SYMMETRY PrinterSymmetry
INVARIANTS
  TypeOK
  WaitsAddUp
  InterArrivalsTelescope
  ReportInRange
CHECK_DEADLOCK FALSE
