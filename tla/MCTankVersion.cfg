SPECIFICATION Spec
CONSTANTS
  t1 = t1
  t2 = t2
  w1 = w1
  w2 = w2
  None = None
  Tanks <- MCTank
  Days <- MCDay
  Volumes <- MCVolumes
  Items <- MCItem
  Workers <- MCWorkers
  MaxRequests = 4
  MaxFailures = 0
PROPERTY CorrectionSeesLatest
CHECK_DEADLOCK FALSE
