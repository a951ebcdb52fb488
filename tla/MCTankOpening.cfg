SPECIFICATION Spec
CONSTANTS
  t1 = t1
  t2 = t2
  w1 = w1
  w2 = w2
  None = None
  Tanks <- MCTank
  Days <- MCDays
  Volumes <- MCVolumes
  Items <- MCOne
  Workers <- MCWorker
  MaxRequests = 5
  MaxFailures = 0
PROPERTY OpeningNotRejected
CHECK_DEADLOCK FALSE
