SPECIFICATION Spec
CONSTANTS
  t1 = t1
  t2 = t2
  w1 = w1
  w2 = w2
  None = None
  Tanks <- MCTanks
  Days <- MCDay
  Volumes <- MCVolumes
  Items <- MCItems
  Workers <- MCWorkers
  MaxRequests = 3
  MaxFailures = 1
SYMMETRY MCSymmetry
INVARIANTS
  TypeOK
  SubmittedIsComplete
  MeasuredAsRead
  ReconciledAsMeasured
PROPERTY ImplementsNightly
CHECK_DEADLOCK FALSE
