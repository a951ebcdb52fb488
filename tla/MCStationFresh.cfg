SPECIFICATION Spec
CONSTANTS
  None = None
  s1 = s1
  p1 = p1
  Stations <- MCStations
  Pumps <- MCPumps
  Forms <- MCForms
  Messages <- MCLoud
  MaxEvents = 1
  MaxRequests = 0
  MaxFaults = 0
PROPERTY OnlyTimedOutGoOffline
