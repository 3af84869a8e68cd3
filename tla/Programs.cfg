\* Heap tests and sorting programs on the kernel's heap and scheduler.
SPECIFICATION Spec
CONSTANTS
  Workloads <- MCWorkloads
  CallsPerPage = 512
  MaxRounds = 2
INVARIANTS
  TestsPass
  NothingKept
PROPERTIES
  WholeDialogue
  AllFinish
CHECK_DEADLOCK FALSE
