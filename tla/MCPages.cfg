SPECIFICATION Spec
CONSTANTS
  None = None
  Dash = Dash
  Opened = {"sales", "readings", "admin", "dashboards", "alerts", "reconciliations",
            "layout", "pipes", "hours", "display", "totals"}
  s1 = s1
  s2 = s2
  stA = stA
  stB = stB
  p1 = p1
  f1 = f1
  f2 = f2
  al = al
  r1 = r1
  Sales = {s1, s2}
  Stations = {stA, stB}
  FirstStation = stA
  StationOf <- MCStationOf
  PumpOf <- MCPumpOf
  Configured = {"another"}
  RecentLimit = 1
  SeenMax = 1
  HeardMax = 1
  Fetches = {f1, f2}
  Today = 2
  ReadingIds = {"r1", "r2"}
  Pumps = {"p1"}
  Tanks = {"t1"}
  Users = {"u1"}
  AlertIds = {al}
  Runs = {r1}
  Amounts = {0, 1}
  MaxSelections = 2
  MaxSwitches = 1
  MaxOpens = 1
  MaxSaves = 1
  MaxOthers = 1
  MaxChanges = 1
  MaxVisits = 1
  MaxFaults = 1
  MaxCalls = 2
  Scenes <- MCScenes
  Feedings <- MCFeedings
  Connections <- MCConnections
  Schedules <- MCSchedules
  Instants <- MCInstants
  Displays <- MCDisplays
  StationSet <- MCStationSet
  Takings <- MCTakings
SYMMETRY Symmetry
INVARIANTS
  SettledSalesCountedOnce
  PumpsCountOnce
  LitPumpsHaveTimer
  OwnChangesAreShown
  FormSavesItsOwn
  ToldIsShown
  ListsShowOwnActions
  SelectionMatchesFilter
  PageShowsOwnActions
  CardsArePlaced
  BranchesReachTheirPumps
  PlayedFromDrawnTank
  HoursAgree
  ClosedForecourtIsDark
  CardsFollowTheMap
  PagesAgree

  
CHECK_DEADLOCK FALSE
