\* A crash or lthreads that all wait end the run: no deadlock check.
SPECIFICATION Spec
CONSTANTS
  Setups <- SomeSetups
  RingCap = 1
  CtrMod = 2
  None = None
INVARIANTS
  CondCaptured
  GapHangs
  ReportComplete
PROPERTIES
  Starts
  KeepsPolling
CHECK_DEADLOCK FALSE
