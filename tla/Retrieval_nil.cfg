SPECIFICATION Spec
CONSTANTS
  None = None
  Calls <- ServiceCalls
  Poll = 1
  Pause = 2
  Latency = 1
  MaxStart = 3
INVARIANTS NotFoundIsRetried
