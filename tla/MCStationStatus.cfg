SPECIFICATION FairSpec
CONSTANTS
  None = None
  s1 = s1
  p1 = p1
  Stations <- MCStations
  Pumps <- MCPumps
  Messages <- MCMessages
  Forms <- MCForms
  MaxEvents = 2
  MaxRequests = 1
  MaxFaults = 1
INVARIANTS
  TypeOK
  RecordsAgree
  OutageHasAlert
  ConflictNeedsRevival
PROPERTY SilentGoesOffline
