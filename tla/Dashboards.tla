------------------------------ MODULE Dashboards ------------------------------
(***************************************************************************)
(* What the dashboards draw from the answers of their queries              *)
(* (ui/src/pages: OverviewPage, ExecutiveOverviewPage, StationsPage,       *)
(* StationDetailPage, DevicesPage, MqttPage), and the queries that add up  *)
(* the sales of the day (backend/app/services/dashboard.py, routers/       *)
(* executive.py).  Sales are stored under the id that the edge agent       *)
(* sends: the code of a station, or its MQTT id.                           *)
(***************************************************************************)
EXTENDS Integers, FiniteSets, SequencesExt, FiniteSetsExt

CONSTANTS
  None,   \* no answer yet, no id
  Dash    \* drawn where there is no figure

Rows(answer) == IF answer = None THEN <<>> ELSE answer       \* data || []
Figure(d, f) == IF d = None THEN Dash ELSE d[f]              \* d?.f ?? '—'
Count(d, f)  == IF d = None THEN 0 ELSE d[f]                 \* d?.f ?? 0

\* The first n rows, or the text that there are none; also while there is no answer.
Listed(answer, n, text) ==
  IF Rows(answer) = <<>> THEN text ELSE SubSeq(answer, 1, Min({n, Len(answer)}))

-----------------------------------------------------------------------------
(* The sales of the day, as the server adds them up                        *)

\* A station has an id, a code, perhaps an MQTT id, and perhaps an organisation.  A user
\* of an organisation may see its stations and those of none.
IdsOf(s) == {s.code, s.mqtt} \ {None}
Accessible(stations, org) == {s \in stations : org = None \/ s.org \in {org, None}}

\* The hours of a day, from midnight to midnight, in a zone so many hours from UTC.
\* One query takes the zone of the settings, the other Africa/Lagos.
DayOf(now, zone) == LET start == now - ((now + zone) % 24) IN start..(start + 23)
Lagos == 1

\* sales gives the amount stored under an id in an hour.
SalesOf(sales, day) == {k \in DOMAIN sales : k[2] \in day}
IdsSold(sales, day) == {k[1] : k \in SalesOf(sales, day)}
SoldUnder(sales, ids, day) ==
  MapThenSumSet(LAMBDA k : sales[k], {k \in SalesOf(sales, day) : k[1] \in ids})

\* The largest amount first; rows of equal amounts in any order.
Descending(rows) ==
  CHOOSE s \in SetToSeqs(rows) :
    \A i, j \in DOMAIN s : i < j => s[i].amount >= s[j].amount

\* One row per id that sold, for every user; only a code has a name.
StationSales(stations, sales, now, zone) ==
  LET day == DayOf(now, zone) IN
  Descending({[id |-> i, amount |-> SoldUnder(sales, {i}, day),
               named |-> \E s \in stations : s.code = i] : i \in IdsSold(sales, day)})

\* One row per station the user may see, its two ids together.
Performance(stations, sales, now, org) ==
  LET day == DayOf(now, Lagos) IN
  Descending({[id |-> s.id, amount |-> SoldUnder(sales, IdsOf(s), day)] :
                s \in Accessible(stations, org)})

-----------------------------------------------------------------------------
(* Charts and rankings                                                     *)

\* The hour of the largest amount, the first of equals; none when nothing is sold.
PeakHour(hourly) ==
  LET rows == Rows(hourly)
      best == CHOOSE h \in 1..Len(rows) : \A o \in 1..Len(rows) :
                rows[o] < rows[h] \/ (rows[o] = rows[h] /\ h <= o)
  IN  IF rows = <<>> \/ rows[best] = 0 THEN None ELSE best

\* In tenths of a percent.
Shares(products) ==
  LET total == FoldSeq(+, 0, products) IN
  [i \in 1..Len(products) |->
     IF total > 0 THEN (1000 * products[i] + total \div 2) \div total ELSE 0]

\* A ranked row's bar, in percent of the largest amount.
Bars(rows) ==
  LET most == Max({1} \cup {rows[i].amount : i \in 1..Len(rows)}) IN
  [i \in 1..Len(rows) |-> Max({6, (100 * rows[i].amount) \div most})]

Best(ranking) == IF Rows(ranking) = <<>> THEN None ELSE ranking[1]

-----------------------------------------------------------------------------
(* The overview                                                            *)

OverviewFigures(s, hourly, ranking) ==
  [cards |-> [f \in {"amount", "volume", "count", "average", "active", "online",
                     "offline", "rejected"} |-> Figure(s, f)],
   hint  |-> PeakHour(hourly), best |-> Best(ranking)]

OverviewCharts(hourly, products) ==
  [hourly   |-> Listed(hourly, Len(Rows(hourly)), "No sales yet today"),
   products |-> Listed(products, Len(Rows(products)), "No product breakdown yet"),
   shares   |-> Shares(Rows(products))]

OverviewLists(ranking, alerts, recent) ==
  [ranking |-> Listed(ranking, 8, "No station sales yet"),
   bars    |-> Bars(Rows(ranking)),
   alerts  |-> Listed(alerts, 6, "No open alerts"),
   recent  |-> Listed(recent, 8, "No transactions yet")]

-----------------------------------------------------------------------------
(* The executive overview                                                  *)

\* Nothing counted against it is healthy, and so is nothing counted yet.
ReconLabel(d) ==
  IF Count(d, "variance") = 0 /\ Count(d, "missing") = 0
  THEN "Healthy" ELSE <<Count(d, "variance"), Count(d, "missing")>>

\* The live summary is that of one station; once it is there it stands for the
\* network's sales of the day.
ExecutiveFigures(d, live, hourly, ranking) ==
  [cards |-> [f \in {"amount", "volume", "month", "stations", "open", "offline",
                     "variance", "critical"} |->
                IF f \in {"amount", "volume"} /\ live # None THEN live[f] ELSE Figure(d, f)],
   live  |-> [f \in {"amount", "volume", "count", "average"} |-> Figure(live, f)],
   hint  |-> PeakHour(hourly), best |-> Best(ranking), recon |-> ReconLabel(d)]

ExecutiveCharts(hourly, products) == OverviewCharts(hourly, products)

ExecutiveLists(ranking, alerts) ==
  LET top == SubSeq(Rows(ranking), 1, Min({8, Len(Rows(ranking))})) IN
  [ranking |-> Listed(ranking, 8, "No station sales yet"),
   bars    |-> Bars(top),
   alerts  |-> Listed(alerts, 8, "No open alerts"),
   table   |-> Rows(ranking)]

-----------------------------------------------------------------------------
(* Stations, devices, MQTT messages                                        *)

\* Mutant: the sales stored under the MQTT id are not looked up.
StationRowsByCode(stations, ranking, pumps, outages) ==
  LET sold(i) == {r \in Range(Rows(ranking)) : r.id = i} IN
  [s \in stations |->
     [amount |-> IF sold(s.code) # {} THEN (CHOOSE r \in sold(s.code) : TRUE).amount ELSE 0,
      pumps  |-> Cardinality({p \in pumps : p.station = s.id}),
      outage |-> s.id \in outages]]

\* The sales of a station are those under its code or, without any, its MQTT id.
StationRows(stations, ranking, pumps, outages) ==
  LET sold(i) == {r \in Range(Rows(ranking)) : r.id = i}
      perf(s) == IF sold(s.code) # {} THEN sold(s.code)
                 ELSE IF s.mqtt # None THEN sold(s.mqtt) ELSE {}
  IN  [s \in stations |->
         [amount |-> IF perf(s) # {} THEN (CHOOSE r \in perf(s) : TRUE).amount ELSE 0,
          pumps  |-> Cardinality({p \in pumps : p.station = s.id}),
          outage |-> s.id \in outages]]

\* The page is opened with an id or a code; until the stations are there, what it was
\* opened with serves as the code.  A device is also told by its code.
StationDetail(wanted, stations, devices, pumps) ==
  LET found == {s \in stations : wanted \in {s.id, s.code}}
      code  == IF found = {} THEN wanted ELSE (CHOOSE s \in found : TRUE).code
      ids   == {s.id : s \in found}
  IN  [code    |-> code,
       mqtt    |-> IF \E s \in found : s.mqtt # None
                   THEN (CHOOSE s \in found : TRUE).mqtt ELSE code,
       devices |-> {d \in devices : d.station \in ids \/ code \in d.codes},
       pumps   |-> {p \in pumps : p.station \in ids}]

DeviceRows(devices, stations) ==
  [d \in devices |-> IF \E s \in stations : s.id = d.station
                     THEN d.station ELSE Dash]

\* A message the consumer rejects is in both lists.
MqttStats(messages, rejected) ==
  LET with(status) == Cardinality({m \in messages : m.status = status}) IN
  [received |-> Cardinality(messages), processed |-> with("processed"),
   rejected |-> Cardinality(rejected) + with("rejected"), errors |-> with("error")]

-----------------------------------------------------------------------------
(* Correctness                                                             *)

\* Two pages, from two queries of the server that add up the day's sales in two ways,
\* show the same amount for every station the user may see, as long as no sale is in the
\* day of one zone and not of the other and none of these stations sold under both of
\* its ids; and overview and executive overview put the same amount first if these
\* stations are all that sold.
PagesAgree(stations, t) ==
  LET day == DayOf(t.now, t.zone)
      byId == StationSales(stations, t.sales, t.now, t.zone)
      byStation == Performance(stations, t.sales, t.now, t.org)
      rows == StationRows(stations, byId, {}, {})
      sold == IdsSold(t.sales, day)
      accessible == Accessible(stations, t.org)
  IN  /\ SalesOf(t.sales, day) = SalesOf(t.sales, DayOf(t.now, Lagos))
      /\ \A s \in accessible : Cardinality(IdsOf(s) \cap sold) <= 1
      =>
        /\ \A s \in accessible : \E r \in Range(byStation) :
             r.id = s.id /\ r.amount = rows[s].amount
        /\ sold # {} /\ sold \subseteq UNION {IdsOf(s) : s \in accessible} =>
             Best(byId).amount = Best(byStation).amount
=============================================================================
