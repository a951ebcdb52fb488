------------------------------ MODULE LivePages ------------------------------
(***************************************************************************)
(* The pages that show what the server holds (ui/src/pages: overview,      *)
(* executive, stations, station detail, transactions, devices, MQTT,       *)
(* settings), the query cache they share, the event stream that tells it   *)
(* of sales and station changes (ui/src/hooks/useLiveEvents.ts,            *)
(* backend/app/routers/events.py), and the calls made from the settings.   *)
(* A query shows tables; the content of a table is its version.  Cache     *)
(* entries do not affect each other, so one query is followed at a time,   *)
(* whichever it is.                                                        *)
(***************************************************************************)
EXTENDS Naturals, Functions, QueryCache

CONSTANTS
  MaxChanges,   \* bound: changes made by others, and calls sent
  MaxVisits,    \* bound: changes of page
  MaxFaults     \* bound: fetches that fail, and connections lost

VARIABLES
  at,           \* the page shown
  version,      \* server: the version of each table
  watched,      \* the query that is followed
  entry,        \* its cache entry; the data are versions of its tables
  told,         \* history: the version of each table it must show
  calls,        \* calls under way: asked, or answered
  stream, wire, \* the event source, and the events on their way
  changes, visits, faults   \* counters for the bounds

bounds == <<changes, visits, faults>>
vars == <<at, version, watched, entry, told, calls, stream, wire, bounds>>

-----------------------------------------------------------------------------
(* The queries of each page, and the tables behind each query              *)

OverviewPage     == {"summary", "hourly", "products", "stationSales", "recentSales", "openAlerts"}
ExecutivePage    == {"executive", "performance", "hourly", "products", "openAlerts", "stations"}
StationsPage     == {"stations", "stationSales", "pumps", "outages", "summary"}
StationDetail    == {"stations", "stationTx", "hourly", "products", "devices", "pumps", "openAlerts"}
TransactionsPage == {"stations", "txPage"}
DevicesPage      == {"devices", "stations"}
MqttPage         == {"messages", "rejected"}
SettingsPage     == {"stations", "devices", "pumps"}

MountedOn ==
  [overview |-> OverviewPage, executive |-> ExecutivePage, stations |-> StationsPage,
   detail |-> StationDetail, transactions |-> TransactionsPage, devices |-> DevicesPage,
   mqtt |-> MqttPage, settings |-> SettingsPage]
Pages == DOMAIN MountedOn

Shows ==
  [summary |-> {"sale", "station", "device", "mqtt"}, hourly |-> {"sale"},
   products |-> {"sale"}, stationSales |-> {"sale"},
   recentSales |-> {"sale"}, stationTx |-> {"sale"}, txPage |-> {"sale"},
   openAlerts |-> {"alert"}, outages |-> {"alert"},
   executive |-> {"sale", "status", "alert"}, performance |-> {"sale", "status"},
   stations |-> {"station", "status"}, devices |-> {"device"}, pumps |-> {"pump"},
   messages |-> {"mqtt"}, rejected |-> {"mqtt"}]
Queries == DOMAIN Shows
Tables == UNION Range(Shows)

-----------------------------------------------------------------------------
(* Invalidation, by key prefix                                             *)

Dashboard    == {"summary", "hourly", "products", "stationSales"}
Transactions == {"recentSales", "stationTx", "txPage"}
Alerts       == {"openAlerts", "outages"}

\* Mutant: the dashboard is forgotten.
TxInvalidatesLess == Transactions \cup Alerts

\* transaction.created; and any of the events of a station.
invalidateTx == Dashboard \cup Transactions \cup Alerts
onStationStatus == {"stations"}
On(t) == IF t = "sale" THEN invalidateTx ELSE IF t = "status" THEN onStationStatus ELSE {}

\* No event tells the executive figures of a sale, or any page of an alert.
Promised ==
  {<<q, "sale">> : q \in Dashboard \cup Transactions}
  \cup {<<"stations", "status">>, <<"stations", "station">>, <<"devices", "device">>,
        <<"pumps", "pump">>}

Mounted == watched \in MountedOn[at]
Later(a, b) == IF a < b THEN b ELSE a

\* The page hears that the tables have these versions, and invalidates.
Hear(tables, v, invalidated) ==
  /\ entry' = IF watched \in invalidated THEN Invalidate(entry, Mounted) ELSE entry
  /\ told' = [t \in Shows[watched] |->
                IF t \in tables /\ <<watched, t>> \in Promised /\ Heeds(entry, Mounted)
                THEN Later(told[t], v[t]) ELSE told[t]]
  /\ UNCHANGED watched

-----------------------------------------------------------------------------
(* The server and its event stream                                         *)

Bump(t) == [version EXCEPT ![t] = @ + 1]

\* A row the stream's cursor has passed, or one written while no stream is open, is
\* never announced.
Commit(t, heard) ==
  /\ t \in {"sale", "status", "alert"} /\ changes < MaxChanges /\ changes' = changes + 1
  /\ version' = Bump(t)
  /\ heard => stream = "open" /\ t # "alert"
  /\ wire' = IF heard THEN wire \cup {[of |-> t, as |-> version']} ELSE wire
  /\ UNCHANGED <<at, watched, entry, told, calls, stream, visits, faults>>

Deliver(m) ==
  /\ m \in wire /\ wire' = wire \ {m}
  /\ Hear({m.of}, m.as, On(m.of))
  /\ UNCHANGED <<at, version, calls, stream, bounds>>

\* The browser connects again by itself; nothing is fetched for what was missed.
Break ==
  /\ stream = "open" /\ faults < MaxFaults /\ faults' = faults + 1
  /\ stream' = "down" /\ wire' = {}
  /\ UNCHANGED <<at, version, watched, entry, told, calls, changes, visits>>

Connect ==
  /\ stream = "down" /\ stream' = "open"
  /\ UNCHANGED <<at, version, watched, entry, told, calls, wire, bounds>>

-----------------------------------------------------------------------------
(* The calls of the settings page                                          *)

invalidate == {"stations", "devices", "pumps"}

Send(t) ==
  /\ at = "settings" /\ changes < MaxChanges /\ changes' = changes + 1
  /\ calls' = calls \cup {[n |-> changes, writes |-> t, as |-> None]}
  /\ UNCHANGED <<at, version, watched, entry, told, stream, wire, visits, faults>>

addStation == Send("station")
addDevice  == Send("device")
addPump    == Send("pump")

Handle(c) ==
  /\ c \in calls /\ c.as = None
  /\ version' = Bump(c.writes)
  /\ calls' = (calls \ {c}) \cup {[c EXCEPT !.as = version']}
  /\ UNCHANGED <<at, watched, entry, told, stream, wire, bounds>>

Succeed(c) ==
  /\ c \in calls /\ c.as # None /\ calls' = calls \ {c}
  /\ Hear({c.writes}, c.as, invalidate)
  /\ UNCHANGED <<at, version, stream, wire, bounds>>

\* The page says that it failed.
Refuse(c) ==
  /\ c \in calls /\ c.as = None /\ calls' = calls \ {c}
  /\ UNCHANGED <<at, version, watched, entry, told, stream, wire, bounds>>

-----------------------------------------------------------------------------
(* The query                                                               *)

\* If the new page uses it, it is mounted, and may have grown older than staleTime.
Visit(p) ==
  /\ p \in Pages \ {at} /\ visits < MaxVisits /\ visits' = visits + 1
  /\ at' = p
  /\ entry' \in IF watched \in MountedOn[p] THEN {Mount(entry), Mount(Age(entry))} ELSE {entry}
  /\ UNCHANGED <<version, watched, told, calls, stream, wire, changes, faults>>

\* refetchInterval of the MQTT page.
Poll ==
  /\ at = "mqtt" /\ Mounted /\ entry.fetch = "idle"
  /\ entry' = Mount(Age(entry))
  /\ UNCHANGED <<at, version, watched, told, calls, stream, wire, bounds>>

AnswerQuery ==
  /\ entry.fetch = "asked"
  /\ entry' = Answer(entry, [t \in Shows[watched] |-> version[t]])
  /\ UNCHANGED <<at, version, watched, told, calls, stream, wire, bounds>>

SettleQuery ==
  /\ entry.fetch = "answered"
  /\ entry' = Settle(entry)
  /\ UNCHANGED <<at, version, watched, told, calls, stream, wire, bounds>>

FailQuery ==
  /\ entry.fetch = "asked" /\ faults < MaxFaults /\ faults' = faults + 1
  /\ entry' = Fail(entry)
  /\ UNCHANGED <<at, version, watched, told, calls, stream, wire, changes, visits>>

-----------------------------------------------------------------------------
\* The query was never fetched, or is in the cache, fresh or old.
Init ==
  /\ at \in Pages /\ watched \in MountedOn[at]
  /\ version = [t \in Tables |-> 0]
  /\ told = [t \in Shows[watched] |-> 0]
  /\ \E e \in {Entry(None), Entry(told), Age(Entry(told))} :
       entry = Mount(e)
  /\ calls = {} /\ stream = "open" /\ wire = {}
  /\ changes = 0 /\ visits = 0 /\ faults = 0

Next ==
  \/ \E t \in Tables, heard \in BOOLEAN : Commit(t, heard)
  \/ \E m \in wire : Deliver(m)
  \/ Break \/ Connect
  \/ addStation \/ addDevice \/ addPump
  \/ \E c \in calls : Handle(c) \/ Succeed(c) \/ Refuse(c)
  \/ \E p \in Pages : Visit(p)
  \/ Poll \/ AnswerQuery \/ SettleQuery \/ FailQuery

Spec == Init /\ [][Next]_vars

-----------------------------------------------------------------------------
(* Correctness                                                             *)

\* Nothing a page was told is forgotten: a query that is fresh and not being fetched
\* shows every sale and station change whose event was delivered, and every own
\* change whose answer was seen, however fetches, events and visits overlapped;
\* but not one heard while the query's first fetch was under way, or any fetch of a
\* page already left.
ToldIsShown ==
  entry.fetch = "idle" /\ ~entry.stale /\ entry.data # None =>
    \A t \in Shows[watched] : entry.data[t] >= told[t]
=============================================================================
