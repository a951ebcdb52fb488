--------------------------------- MODULE Pages ---------------------------------
(***************************************************************************)
(* The pages of the user interface together.  The browser shows one page,  *)
(* or one group of pages, and each keeps its state to itself, so the       *)
(* states of this module are those of each of them: page says which, its   *)
(* variables have its state, all others are None.  What a page computes    *)
(* without a state of its own is asked of every value of case.             *)
(***************************************************************************)
EXTENDS Integers, FiniteSets, Sequences

CONSTANTS
  None, Dash,
  Opened,                                      \* the pages that are opened
  Sales, Stations, FirstStation, StationOf, PumpOf, Configured, RecentLimit, SeenMax,
  HeardMax, Fetches,                           \* live sales
  Today, ReadingIds,                           \* tank readings
  Pumps, Tanks, Users,                         \* administration
  AlertIds, Runs, Amounts,                     \* alerts, reconciliations
  MaxSelections, MaxSwitches, MaxOpens, MaxSaves, MaxOthers, MaxChanges, MaxVisits,
  MaxFaults, MaxCalls,                         \* bounds
  Scenes, Feedings, Connections, Schedules, Instants, Displays, StationSet, Takings
                                               \* what is computed from

-----------------------------------------------------------------------------
VARIABLES
  page, case,
  ledger, fetch, summary, sales, pumped, lit, timers, unmapped, seen, bootstrapped,
  conn, hadConnected, heard, applied, forgotten, aged, breaks, \* live sales
  admin, batch, workspace, loading, draft, request, rows, opens, saves, others,
                                                               \* tank readings
  editor, cache,                                               \* administration
  stream, faults,                                              \* dashboards
  alert, filter, lists, selected, pending,                     \* alerts
  run, selectedId, byRow, create, action,                      \* reconciliations
  at, calls, changes, entry, sent, station, switches, told, version, visits, watched,
  wire                                                         \* several of them

LiveSales == INSTANCE LiveSales WITH MaxSwitches <- MaxSelections
Form      == INSTANCE ReadingsForm WITH Readings <- ReadingIds
Admin     == INSTANCE StationAdmin
Live      == INSTANCE LivePages
AlertList == INSTANCE AlertsPage WITH Alerts <- AlertIds
Recon     == INSTANCE ReconciliationsPage
Map       == INSTANCE Forecourt
Twin      == INSTANCE TwinDisplay
Totals    == INSTANCE Dashboards

ASSUME NoneAssumption == LiveSales!NoneAssumption /\ Recon!NoneAssumption
ASSUME LimitsAssumption == LiveSales!LimitsAssumption
ASSUME FormAssumption == Form!FormAssumption

\* What is drawn of the pumps of a station: each has a status from the server and its
\* last sale, and may be being played.
IsDisplay(d) ==
  LET shown == DOMAIN d.pumps IN
  /\ None \notin shown /\ None \notin {"DISPENSING", "COMPLETED"}
  /\ d.pumps = [p \in shown |-> [status |-> d.pumps[p].status, last |-> d.pumps[p].last]]
  /\ d.playing \in [shown -> {None, "DISPENSING", "COMPLETED"}]

ASSUME DisplaysAssumption == \A d \in Displays : IsDisplay(d)

\* Times of day, in seconds, offsets from UTC, in hours, and seconds of the week.
ASSUME HoursAssumption ==
  /\ None \notin Int \cup [weekday : Int, minutes : Int]
  /\ Instants \subseteq Int
  /\ \A s \in Schedules : {s.opens, s.closes, s.zone} \subseteq Int \cup {None}

\* A station's pumps differ by id, and by order and code; coordinates are whole pixels.
IsScene(s) ==
  /\ IsFiniteSet(s.pumps) /\ s.canvas \in Int
  /\ \A p \in s.pumps : p.order \in Int /\ p.code \in Int
  /\ \A p, q \in s.pumps :
       p.id = q.id \/ (p.order = q.order /\ p.code = q.code) => p = q
  /\ Len(s.items) \in Nat /\ s.items = [i \in 1..Len(s.items) |-> s.items[i]]
  /\ \A i \in 1..Len(s.items) :
       {s.items[i].x, s.items[i].y, s.items[i].w, s.items[i].h} \subseteq Int

\* A pump is fed from a tank or from none.
ASSUME ScenesAssumption ==
  /\ \A s \in Scenes : IsScene(s)
  /\ None \notin Int
  /\ \A s \in Scenes, t \in Feedings : \A p \in s.pumps : t[p.id] \in Int \cup {None}

\* Amounts that were sold are not negative, and None is not the answer of a query.
IsTaking(t) ==
  /\ IsFiniteSet(DOMAIN t.sales) /\ t.sales \in [DOMAIN t.sales -> Nat]
  /\ None \notin {k[1] : k \in DOMAIN t.sales}
  /\ None \notin {Totals!StationSales(StationSet, t.sales, t.now, t.zone),
                 Totals!Performance(StationSet, t.sales, t.now, t.org)}

ASSUME TakingsAssumption == IsFiniteSet(StationSet) /\ \A t \in Takings : IsTaking(t)

salesState == <<ledger, fetch, summary, sales, pumped, lit, timers, unmapped, seen,
                bootstrapped, conn, hadConnected, heard, applied, forgotten, aged, breaks>>
readingsState == <<admin, batch, workspace, loading, draft, request, rows, opens, saves,
                   others>>
adminState == <<editor, cache>>
liveState == <<stream, faults>>
alertsState == <<alert, filter, lists, selected, pending>>
reconState == <<run, selectedId, byRow, create, action>>
vars == <<page, case, salesState, readingsState, adminState, liveState, alertsState,
          reconState, at, calls, changes, entry, sent, station, switches, told, version,
          visits, watched, wire>>

NoSales ==
  /\ ledger = None /\ fetch = None /\ summary = None /\ sales = None /\ pumped = None
  /\ lit = None /\ timers = None /\ unmapped = None /\ seen = None
  /\ bootstrapped = None /\ conn = None /\ hadConnected = None /\ heard = None
  /\ applied = None /\ forgotten = None /\ aged = None /\ breaks = None
NoForm ==
  /\ admin = None /\ batch = None /\ workspace = None /\ loading = None
  /\ draft = None /\ request = None /\ rows = None /\ opens = None /\ saves = None
  /\ others = None
NoAdmin == editor = None /\ cache = None
NoLive  == stream = None /\ faults = None
NoAlerts ==
  alert = None /\ filter = None /\ lists = None /\ selected = None /\ pending = None
NoRecon ==
  run = None /\ selectedId = None /\ byRow = None /\ create = None /\ action = None

-----------------------------------------------------------------------------
(* The pages                                                               *)

\* Opened for one station: another is selected later, or none.
OpenSales ==
  /\ page = "sales" /\ case = None /\ LiveSales!Init /\ station = FirstStation
  /\ NoForm /\ NoAdmin /\ NoLive /\ NoAlerts /\ NoRecon
  /\ at = None /\ calls = None /\ changes = None /\ entry = None /\ sent = None
  /\ told = None /\ version = None /\ visits = None /\ watched = None

OpenForm ==
  /\ page = "readings" /\ case = None /\ Form!Init
  /\ NoSales /\ NoAdmin /\ NoLive /\ NoAlerts /\ NoRecon
  /\ at = None /\ calls = None /\ changes = None /\ sent = None /\ station = None
  /\ switches = None /\ told = None /\ version = None /\ visits = None
  /\ watched = None /\ wire = None

OpenAdmin ==
  /\ page = "admin" /\ case = None /\ Admin!Init
  /\ NoSales /\ NoForm /\ NoLive /\ NoAlerts /\ NoRecon
  /\ entry = None /\ sent = None /\ station = None /\ switches = None /\ watched = None
  /\ wire = None

OpenLive ==
  /\ page = "dashboards" /\ case = None /\ Live!Init
  /\ NoSales /\ NoForm /\ NoAdmin /\ NoAlerts /\ NoRecon
  /\ sent = None /\ station = None /\ switches = None

\* Opened when every alert is open: the page can resolve and reopen one.
OpenAlerts ==
  /\ page = "alerts" /\ case = None /\ AlertList!Init
  /\ \A x \in AlertIds : alert[x] = "OPEN"
  /\ NoSales /\ NoForm /\ NoAdmin /\ NoLive /\ NoRecon
  /\ at = None /\ calls = None /\ changes = None /\ entry = None /\ station = None
  /\ visits = None /\ watched = None /\ wire = None

OpenRecon ==
  /\ page = "reconciliations" /\ case = None /\ Recon!Init
  /\ NoSales /\ NoForm /\ NoAdmin /\ NoLive /\ NoAlerts
  /\ at = None /\ calls = None /\ changes = None /\ visits = None /\ wire = None

SalesStep ==
  /\ page = "sales" /\ LiveSales!Next
  /\ UNCHANGED <<page, case, readingsState, adminState, liveState, alertsState, reconState,
                 at, calls, changes, entry, sent, told, version, visits, watched>>

FormStep ==
  /\ page = "readings" /\ Form!Next
  /\ UNCHANGED <<page, case, salesState, adminState, liveState, alertsState, reconState,
                 at, calls, changes, sent, station, switches, told, version, visits,
                 watched, wire>>

AdminStep ==
  /\ page = "admin" /\ Admin!Next
  /\ UNCHANGED <<page, case, salesState, readingsState, liveState, alertsState, reconState,
                 entry, sent, station, switches, watched, wire>>

LiveStep ==
  /\ page = "dashboards" /\ Live!Next
  /\ UNCHANGED <<page, case, salesState, readingsState, adminState, alertsState,
                 reconState, sent, station, switches>>

AlertsStep ==
  /\ page = "alerts" /\ AlertList!Next
  /\ UNCHANGED <<page, case, salesState, readingsState, adminState, liveState, reconState,
                 at, calls, changes, entry, station, visits, watched, wire>>

ReconStep ==
  /\ page = "reconciliations" /\ Recon!Next
  /\ UNCHANGED <<page, case, salesState, readingsState, adminState, liveState, alertsState,
                 at, calls, changes, visits, wire>>

-----------------------------------------------------------------------------
(* What is computed: the cases                                             *)

Cases ==
  [layout |-> Scenes, pipes |-> Connections, hours |-> Schedules, display |-> Displays,
   totals |-> Takings]

OpenCase ==
  /\ page \in DOMAIN Cases /\ case \in Cases[page]
  /\ NoSales /\ NoForm /\ NoAdmin /\ NoLive /\ NoAlerts /\ NoRecon
  /\ at = None /\ calls = None /\ changes = None /\ entry = None /\ sent = None
  /\ station = None /\ switches = None /\ told = None /\ version = None
  /\ visits = None /\ watched = None /\ wire = None

-----------------------------------------------------------------------------
Init ==
  /\ page \in Opened
  /\ OpenSales \/ OpenForm \/ OpenAdmin \/ OpenLive \/ OpenAlerts \/ OpenRecon \/ OpenCase

Next == SalesStep \/ FormStep \/ AdminStep \/ LiveStep \/ AlertsStep \/ ReconStep

Spec == Init /\ [][Next]_vars

-----------------------------------------------------------------------------
(* The properties of each page, where it is the one that is open           *)

\* The summary counts a stored sale once while its id is remembered (useStationLiveSales.ts).
SettledSalesCountedOnce == page = "sales" => LiveSales!SettledSalesCountedOnce

\* A pump counts a sale once while its id is remembered (useStationLiveSales.ts,
\* useRecentTransactionDedup.ts).
PumpsCountOnce == page = "sales" => LiveSales!PumpsCountOnce

\* A pump that is lit has a timer that ends it (useStationLiveSales.ts).
LitPumpsHaveTimer == page = "sales" => LiveSales!LitPumpsHaveTimer

\* A correction replaces the readings that were shown, or a draft nobody submitted
\* (TankReadingsPage.tsx, services/tank_readings.py).
CorrectionsReplaceWhatWasShown == [][page = "readings" => Form!Replaces]_vars

\* The administrator's own changes are shown (AdminStation*.tsx, TanksPage.tsx, UsersPage.tsx).
OwnChangesAreShown == page = "admin" => Admin!OwnChangesAreShown

\* A form saves the item it was filled from (AdminStationPumpsPage.tsx and others).
FormSavesItsOwn == page = "admin" => Admin!FormSavesItsOwn

\* What a page was told is on the screen (useLiveEvents.ts, SettingsPage.tsx).
ToldIsShown == page = "dashboards" => Live!ToldIsShown

\* The lists of alerts show the user's own actions (AlertsPage.tsx).
ListsShowOwnActions == page = "alerts" => AlertList!ListsShowOwnActions

\* The run selected in the list is one of the station chosen (ReconciliationsPage.tsx).
SelectionMatchesFilter == page = "reconciliations" => Recon!SelectionMatchesFilter

\* The reconciliations page shows what it did (ReconciliationsPage.tsx).
PageShowsOwnActions == page = "reconciliations" => Recon!PageShowsOwnActions

\* The expected sales of a calculated run are the sales captured, as
\* docs/previous-feature-assessment.md:315 says (ReconciliationsPage.tsx:136-147).
ExpectedDefaultsToCaptured == page = "reconciliations" => Recon!ExpectedDefaultsToCaptured

\* Every pump has a card, saved cards keep their place, and the others touch none while
\* the grid has room (forecourtLayout.ts).
CardsArePlaced == page = "layout" => Map!CardsArePlaced(case)

\* In the AUTO layout, a branch of a pipe ends on the card of its pump (pipeRouting.ts).
BranchesReachTheirPumps ==
  page = "layout" => \A t \in Feedings : Map!BranchesReachTheirPumps(case, t)

\* A sale is played from the tank whose pipe is drawn (useDispensingPlayback.ts, pipeRouting.ts).
PlayedFromDrawnTank ==
  page = "pipes" => \A p \in {1, 2}, product \in {"PMS", "AGO"} :
                      Map!PlayedFromDrawnTank(case, p, product)

\* Page and backend agree on the opening hours (stationSchedule.ts, station_status.py).
HoursAgree == page = "hours" => \A now \in Instants : Twin!HoursAgree(case, now)

\* The map of a closed station is dark, whatever its cards show (OperationalTwinView.tsx,
\* ForecourtMap.tsx).
ClosedForecourtIsDark ==
  page = "display" => Twin!ClosedForecourtIsDark(
    [pumps |-> case.pumps], [latest |-> case.latest, lit |-> case.lit], case.playing)

\* A pump dispenses on its card if it does on the map (OperationalTwinView.tsx, PumpCard.tsx).
CardsFollowTheMap ==
  page = "display" => Twin!CardsFollowTheMap(
    [pumps |-> case.pumps], [latest |-> case.latest, lit |-> case.lit], case.playing)

\* The dashboards agree on the day's sales of each station the user may see, where the
\* two zones make no difference (StationsPage.tsx, ExecutiveOverviewPage.tsx,
\* dashboard.py, executive.py, rbac.py).
PagesAgree == page = "totals" => Totals!PagesAgree(StationSet, case)
=============================================================================
