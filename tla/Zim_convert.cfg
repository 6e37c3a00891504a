\* A finished or failed conversion stops; a failed AddEntry leaves goroutines waiting.
SPECIFICATION Spec
CONSTANTS
  w1 = w1
  w2 = w2
  Worker <- MCWorker
  Jobs <- MCJobs
  ChanCap = 1
  MaxFaults = 1
INVARIANTS
  AddedRight
  RedirectsRight
  MainEntryRight
  QuietEnd
PROPERTIES
  Finishes
CHECK_DEADLOCK FALSE
