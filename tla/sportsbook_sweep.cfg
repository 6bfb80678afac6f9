SPECIFICATION Spec
CONSTANTS
  NumBets = 3
  PageSize = 2
  Sweepers = {s1}
  Requests = {r1}
  MaxFaults = 1
INVARIANTS SweepProgress
PROPERTIES ImplementsQueue
