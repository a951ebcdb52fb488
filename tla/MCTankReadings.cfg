SPECIFICATION Spec
CONSTANTS
  t1 = t1
  t2 = t2
  w1 = w1
  w2 = w2
  None = None
  Tanks <- MCTanks
  Days <- MCDay
  Volumes <- MCVolumes
  Items <- MCItems
  Workers <- MCWorker
  MaxRequests = 5
  MaxFailures = 1
INVARIANTS
  SubmittedIsComplete
  MeasuredAsRead
  ReconciledAsMeasured
PROPERTY VersionNeverFalls
CHECK_DEADLOCK FALSE
