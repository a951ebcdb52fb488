SPECIFICATION FairSpec
CONSTANTS
  t1 = t1
  t2 = t2
  d1 = d1
  b1 = b1
  b2 = b2
  None = None
  Ids <- MCIds
  Devices <- MCDevices
  Bodies <- MCBodies
  Messages <- MCMessages
  MaxPublishes = 3
  MaxFailures = 3
INVARIANTS
  TypeOK
  AuditMatchesLedger
  GapNeedsFault
  HandledLeavesTrace
  DeviceCreditIsStored
PROPERTIES
  ImplementsLedger
  EverySentSettles
