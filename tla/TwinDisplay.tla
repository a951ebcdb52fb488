------------------------------ MODULE TwinDisplay ------------------------------
(***************************************************************************)
(* What the twin of a station shows of its pumps, tanks and edge device    *)
(* (ui/src/components/twin/OperationalTwinView.tsx, ForecourtMap.tsx,      *)
(* PumpCard.tsx, TankCard.tsx, pipe/PipeLayer.tsx): the status the server  *)
(* infers, overlaid by the opening hours (lib/stationSchedule.ts,          *)
(* lib/twinLiveStatus.ts), by the live sales (LiveSales) and by the sales  *)
(* being played (DispensingPlayback).  Colours and places are left out.    *)
(***************************************************************************)
EXTENDS Integers, FiniteSets, SequencesExt

CONSTANT None

Or(a, b) == IF a # None THEN a ELSE b       \* a ?? b

-----------------------------------------------------------------------------
(* Opening hours.  A schedule is [opens, closes, days, zone]: times of day  *)
(* in seconds or None, a set of weekdays, and a zone as its offset from UTC *)
(* in hours, None if it is not a zone.  now is in seconds of the UTC week.  *)

Minute == 60
Hour == 3600
Day == 24 * Hour

parseTimeToMinutes(time) == IF time = None THEN None ELSE time \div Minute

Zoned(now, offset) == (now + offset * Hour) % (7 * Day)

\* Mutant: the weekday in UTC.
UtcWeekday(now, zone) ==
  IF zone = None THEN None
  ELSE [weekday |-> now \div Day, minutes |-> (Zoned(now, zone) % Day) \div Minute]

getZonedWeekdayAndMinutes(now, zone) ==
  IF zone = None THEN None
  ELSE [weekday |-> Zoned(now, zone) \div Day,
        minutes |-> (Zoned(now, zone) % Day) \div Minute]

\* Open from one time of day to another, over midnight if the first is later.
Between(opens, at, closes) ==
  IF opens <= closes THEN opens <= at /\ at < closes ELSE at >= opens \/ at < closes

isWithinOperatingHours(s, now) ==
  LET opens == parseTimeToMinutes(s.opens)
      closes == parseTimeToMinutes(s.closes)
      zoned == getZonedWeekdayAndMinutes(now, s.zone)
  IN  \/ opens = None \/ closes = None
      \/ zoned = None
      \/ /\ s.days = {} \/ zoned.weekday \in s.days
         /\ Between(opens, zoned.minutes, closes)

deriveOperationalStatus(s, now) == IF isWithinOperatingHours(s, now) THEN "OPEN" ELSE "CLOSED"

\* The same question in the backend (services/station_status.py): to the second,
\* and in UTC where the zone is unknown.
ServerWithinHours(s, now) ==
  LET local == Zoned(now, IF s.zone = None THEN 0 ELSE s.zone) IN
  \/ s.opens = None \/ s.closes = None
  \/ /\ s.days = {} \/ local \div Day \in s.days
     /\ Between(s.opens, local % Day, s.closes)

-----------------------------------------------------------------------------
(* Edge device.  edge is [mapped, primary, loading, failed], primary the    *)
(* status of the station's device or None.                                  *)

edgeStatus(edge) ==
  IF ~edge.mapped THEN None
  ELSE IF edge.primary = None /\ edge.failed THEN "UNKNOWN" ELSE edge.primary

mapEdgeToConnectivityStatus(status) ==
  CASE status = "ONLINE" -> "ONLINE"
    [] status \in {"DELAYED", "STALE"} -> "DEGRADED"
    [] status \in {"OFFLINE", "NEVER_CONNECTED"} -> "OFFLINE"
    [] OTHER -> "UNKNOWN"

ConnectivityPill(edge) ==
  CASE ~edge.mapped -> "No edge device"
    [] edge.mapped /\ edge.primary = None /\ edge.loading -> "Checking"
    [] OTHER -> Or(edgeStatus(edge), "UNKNOWN")

-----------------------------------------------------------------------------
(* Pumps.  state is the server's answer: [pumps, tanks, total, sales], with  *)
(* a pump's [status, last], last its last sale.  live is what LiveSales has: *)
(* the summary, the rows, the unmapped pumps, each pump's latest sale and    *)
(* the pumps that are lit.  playing maps the pumps being played to a phase.  *)

applyLiveStationStatus(pumps, operational) ==
  [p \in DOMAIN pumps |->
     [pumps[p] EXCEPT !.status =
        IF operational = "CLOSED" THEN "POWERED_OFF"
        ELSE IF @ \in {"POWERED_OFF", "CLOSED"} THEN "IDLE" ELSE @]]

\* Mutant: the overlay asks only whether the pump is lit.
DisplayPumpsAtAnyHour(state, live, operational) ==
  LET base == applyLiveStationStatus(state.pumps, operational) IN
  [p \in DOMAIN base |->
     IF live.latest[p] = None THEN base[p]
     ELSE [status |-> IF p \in live.lit THEN "DISPENSING" ELSE base[p].status,
           last |-> live.latest[p]]]

displayPumps(state, live, operational) ==
  LET base == applyLiveStationStatus(state.pumps, operational) IN
  [p \in DOMAIN base |->
     IF live.latest[p] = None THEN base[p]
     ELSE [status |-> IF p \in live.lit /\ operational = "OPEN"
                        THEN "DISPENSING" ELSE base[p].status,
           last |-> live.latest[p]]]

TodayPills(state, live) == Or(live.summary, state.total)

latestRows(state, live) ==
  LET rows == IF live.rows # <<>> THEN live.rows ELSE state.sales IN
  [i \in 1..(IF Len(rows) < 15 THEN Len(rows) ELSE 15) |->
     [sale |-> rows[i], unmapped |-> live.rows # <<>> /\ rows[i].pump \in live.unmapped]]

\* The banner of a closed station, and the alert that the sales could not be read.
Banners(operational, failed) ==
  {b \in {"closed", "sales"} : (b = "closed" /\ operational = "CLOSED") \/ (b = "sales" /\ failed)}

-----------------------------------------------------------------------------
(* Cards.  The page tells a card of one pump being played, the first.       *)

\* Mutant: only a lit pump's card pulses.
CardPhaseOfLit(pump, first, live, playing) == IF pump \in live.lit THEN "pulse" ELSE "idle"

CardPhase(pump, first, live, playing) ==
  CASE pump = first /\ playing[pump] = "DISPENSING" -> "pulse"
    [] pump = first /\ playing[pump] = "COMPLETED" -> "completed"
    [] pump # first /\ pump \in live.lit -> "pulse"
    [] OTHER -> "idle"

PumpCard(shown, pump, phase) ==
  [status |-> shown[pump].status,
   dispensing |-> shown[pump].status = "DISPENSING" \/ phase = "pulse",
   completed |-> phase = "completed"]

cardTitle(pump) ==
  LET mqtt == Or(pump.mqtt, pump.code)
      primary == IF pump.name \notin {None, mqtt, pump.code} THEN pump.name ELSE Or(mqtt, "Pump")
  IN  [primary |-> primary, secondary |-> IF primary # mqtt THEN mqtt ELSE None]

Clamped(fill) == IF fill < 0 THEN 0 ELSE IF fill > 100 THEN 100 ELSE fill

\* A reading is a probe's only where it says so; a bar needs a figure.
TankCard(tank) ==
  [live |-> tank.live \/ tank.source = "AUTOMATED",
   bar |-> IF tank.fill = None THEN 0 ELSE Clamped(tank.fill),
   figure |-> IF tank.fill = None THEN None ELSE Clamped(tank.fill)]

-----------------------------------------------------------------------------
(* Map.                                                                     *)

PumpNodeStatus(shown, pump, playing) ==
  CASE playing[pump] = "COMPLETED" -> "COMPLETED"
    [] playing[pump] = "DISPENSING" -> "DISPENSING"
    [] OTHER -> shown[pump].status

nodeTitle(pump) ==
  LET mqtt == Or(pump.mqtt, pump.code)
      title == cardTitle(pump)
  IN  [title EXCEPT !.secondary =
         IF @ # None THEN @
         ELSE IF pump.code \notin {None, title.primary, mqtt} THEN pump.code ELSE None]

\* Without a figure the drawn tank is two fifths full.
TankNode(tank) ==
  [bar |-> IF tank.fill = None THEN 40 ELSE Clamped(tank.fill),
   live |-> tank.live \/ tank.source = "AUTOMATED"]

\* The messages above the map and whether there is a map.
Frame(tanks, pumps, mapped, message) ==
  IF tanks = {} /\ pumps = {} THEN {"no assets"}
  ELSE {"map"} \cup (IF tanks = {} THEN {"no tanks"} ELSE {})
               \cup (IF pumps = {} THEN {"no pumps"} ELSE {})
               \cup (IF ~mapped /\ message # None THEN {message} ELSE {})

\* The tanks that a sale is played from, and the pumps with an amount above them.
LitTanks(playing, from) == {from[p] : p \in {q \in DOMAIN playing : playing[q] # None}} \ {None}
Overlays(pumps, playing) == {p \in pumps \cap DOMAIN playing : playing[p] # None}

routeStatus(pump, playing, closed) ==
  IF ~closed /\ playing[pump] \in {"DISPENSING", "COMPLETED"} THEN "ACTIVE" ELSE "IDLE"

\* Fuel flows in the active pipes of a station that is open.
Flowing(playing, closed) ==
  {p \in DOMAIN playing : routeStatus(p, playing, closed) = "ACTIVE" /\ ~closed}

\* What a click on the map opens: a tank with the number of its connections, a
\* pump with the tank of its first connection, whichever pipe is drawn.
DetailPanel(selection, connections) ==
  LET of == SelectSeq(connections, LAMBDA c : c.pump = selection.id) IN
  CASE selection.kind = "TANK" ->
         [kind |-> "TANK",
          figure |-> Cardinality({i \in DOMAIN connections : connections[i].tank = selection.id})]
    [] selection.kind = "PUMP" ->
         [kind |-> "PUMP", figure |-> IF of = <<>> THEN None ELSE of[1].tank]
    [] OTHER -> [kind |-> "PIPE", figure |-> selection.id]

-----------------------------------------------------------------------------
(* Properties                                                              *)

\* The page and the backend agree on whether a station is open, at every second,
\* where its hours are whole minutes and its zone is known (stationSchedule.ts:1-4).
HoursAgree(schedule, now) ==
  /\ \A t \in {schedule.opens, schedule.closes} : t = None \/ t % Minute = 0
  /\ schedule.zone # None
  => (isWithinOperatingHours(schedule, now) <=> ServerWithinHours(schedule, now))

\* While the station is closed, whatever the server inferred and whichever sales
\* arrive, no pipe flows, and the map shows a pump as powered off unless a sale
\* is being played on it (OperationalTwinView.tsx:126-188, ForecourtMap.tsx:155-163).
ClosedForecourtIsDark(state, live, playing) ==
  LET shown == displayPumps(state, live, "CLOSED") IN
  /\ Flowing(playing, TRUE) = {}
  /\ \A p \in DOMAIN shown :
       playing[p] = None => PumpNodeStatus(shown, p, playing) = "POWERED_OFF"

\* While the station is open and at most one pump is played, a pump that the map
\* draws as dispensing is drawn so on its card (OperationalTwinView.tsx:335-351).
CardsFollowTheMap(state, live, playing) ==
  LET shown == displayPumps(state, live, "OPEN")
      played == {p \in DOMAIN playing : playing[p] # None}
  IN  (\A p, q \in played : p = q) =>
        \A p \in DOMAIN shown :
          PumpNodeStatus(shown, p, playing) = "DISPENSING" =>
            LET first == IF played = {} THEN None ELSE CHOOSE q \in played : TRUE IN
            PumpCard(shown, p, CardPhase(p, first, live, playing)).dispensing
=============================================================================
