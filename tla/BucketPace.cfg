CONSTANTS
  Burst = 2
  Refill = 5
  Second = 2
  MaxElapsed = 15
  Steps = {3}
SPECIFICATION Spec
INVARIANTS Paced PromiseKept
CHECK_DEADLOCK FALSE
