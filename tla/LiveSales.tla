------------------------------- MODULE LiveSales -------------------------------
(***************************************************************************)
(* The live sales of one station in a browser: a REST snapshot (summary    *)
(* and recent listing) merged with the sale.created events of an event     *)
(* stream (ui/src/hooks/useStationLiveSales.ts, useLiveSalesStream.ts,     *)
(* types/sales.ts).  The cloud API behind them is not in this repository:  *)
(* it keeps a ledger of sales, answers from a prefix of it, and streams    *)
(* what is committed while a stream is open.                               *)
(*                                                                         *)
(* A summary is the bag of the sales it counts: its transaction count is   *)
(* the size of the bag and its totals are sums over it.  The live state of *)
(* the pumps is kept the same way; a sale belongs to one pump.             *)
(***************************************************************************)
EXTENDS Naturals, Sequences, FiniteSets, SequencesExt

CONSTANTS
  None,         \* null, or nothing there
  Sales,        \* transaction ids
  Stations,
  StationOf,    \* the station of a sale
  PumpOf,       \* the pump id of a sale, as sent: [name |-> ..., sep |-> "/" or "-"]
  Configured,   \* canonical ids of the pumps the dashboard knows; {} if not given
  RecentLimit,  \* rows fetched and kept
  SeenMax,      \* entries of the hook's duplicate filter
  HeardMax,     \* entries of the stream's
  Fetches,      \* bound: snapshots being fetched at a time
  MaxSwitches,  \* bound: selections of a station and changes of the pump list
  MaxFaults     \* bound: connections lost and ids that outlive their day

\* Nothing is not a summary.
NoneAssumption == None \notin [of : Stations \cup {None}, n : [Sales -> Nat]]
LimitsAssumption == RecentLimit \in Nat /\ SeenMax \in Nat

VARIABLES
  ledger,       \* server: the sales committed, oldest first
  station,      \* stationId of the hook, None when it is disabled
  switches,     \* counter for MaxSwitches
  fetch,        \* loadRest calls that have not settled
  summary,      \* SalesSummary
  sales,        \* rows of the recent feed, newest first
  pumped,       \* pumpLiveState: how often each sale is counted for its pump
  lit,          \* pumps with isRecentlyActive
  timers,       \* clearRecentTimer: pumps whose timer is pending
  unmapped,     \* unmappedPumpIds
  seen,         \* ids in the hook's duplicate filter, oldest first
  bootstrapped,
  conn,         \* the EventSource: "closed", "connecting", "open"
  wire,         \* messages sent and not yet handled
  hadConnected,
  heard,        \* ids in the stream's duplicate filter
  applied,      \* history: the snapshot on screen
  forgotten,    \* history: sales on screen that the hook's filter has dropped
  aged, breaks  \* counters for MaxFaults

hook    == <<summary, sales, pumped, lit, unmapped, seen, applied, forgotten>>
stream  == <<conn, wire, hadConnected, heard, breaks>>
vars == <<ledger, station, switches, fetch, hook, timers, bootstrapped, stream, aged>>

-----------------------------------------------------------------------------
(* Pump ids: trimmed and upper-cased, with "/" written as "-".             *)

canonicalPumpId(id) == id.name
KeyOf(s) == canonicalPumpId(PumpOf[s])
Keys == {KeyOf(s) : s \in Sales}
IsUnmapped(s) == Configured # {} /\ KeyOf(s) \notin Configured

-----------------------------------------------------------------------------
(* The duplicate filters (useRecentTransactionDedup.ts).  Each look-up and *)
(* each insertion prunes first; an id inserted again keeps its place.      *)

Pruned(f, max) == IF Len(f) > max THEN SubSeq(f, Len(f) - max + 1, Len(f)) ELSE f
Has(f, max, s) == s \in ToSet(Pruned(f, max))
Remember(f, max, s) ==
  IF Has(f, max, s) THEN Pruned(f, max) ELSE Append(Pruned(f, max), s)

\* Of the hook's filter only the ids in left are left.
Forgets(left) == forgotten' = forgotten \cup (ToSet(seen) \ ToSet(left))

-----------------------------------------------------------------------------
(* The server.  A request is answered from the first n sales.              *)

SalesOf(seq, st) == SelectSeq(seq, LAMBDA s : StationOf[s] = st)
Ledger(st, n) == SalesOf(SubSeq(ledger, 1, n), st)
Count(set) == [s \in Sales |-> IF s \in set THEN 1 ELSE 0]
AllOf(st, n) == {s \in ToSet(SubSeq(ledger, 1, n)) : StationOf[s] = st}

\* /v1/sales/recent: the last RecentLimit sales of the station, newest first.
Newest(seq, st) ==
  LET own == {k \in DOMAIN seq : StationOf[seq[k]] = st}
      place(j) == CHOOSE k \in own : Cardinality({l \in own : l > k}) = j - 1
  IN  [j \in 1..(IF Cardinality(own) > RecentLimit THEN RecentLimit ELSE Cardinality(own)) |->
         seq[place(j)]]
RecentOf(st, n) == Newest(SubSeq(ledger, 1, n), st)

Idle == [at |-> None]
NewFetch(st) == [at |-> st, began |-> Len(ledger)]

Connected == [type |-> "connected", sale |-> None]
Created(s) == [type |-> "sale.created", sale |-> s]

-----------------------------------------------------------------------------
(* The event source follows the station and bootstrapped.                  *)

Tuned(st, boot) == IF boot THEN st ELSE None

Retune(st, boot) ==
  IF Tuned(st, boot) = Tuned(station, bootstrapped)
    THEN UNCHANGED <<conn, wire>>
    ELSE /\ wire' = <<>>
         /\ conn' = IF Tuned(st, boot) = None THEN "closed" ELSE "connecting"

-----------------------------------------------------------------------------
(* loadRest                                                                *)

Begin(i, st) ==
  fetch' = [fetch EXCEPT ![i] = NewFetch(st)]

\* The Refresh button.
Refresh(i) ==
  /\ station # None /\ fetch[i] = Idle
  /\ Begin(i, station)
  /\ UNCHANGED <<ledger, station, switches, hook, timers, bootstrapped, stream, aged>>

\* Any of the requests fails: what is on screen stays.
FetchFails(i) ==
  /\ fetch[i] # Idle
  /\ fetch' = [fetch EXCEPT ![i] = Idle]
  /\ UNCHANGED <<ledger, station, switches, hook, timers, bootstrapped, stream, aged>>

\* Mutant: the rows of a snapshot are not remembered.
ForgetRows(rows) == seen

\* The rows of a snapshot enter the duplicate filter, the oldest first.
RememberRows(rows) ==
  LET after[k \in 0..Len(rows)] ==
        IF k = 0 THEN seen ELSE Remember(after[k - 1], SeenMax, rows[Len(rows) + 1 - k])
  IN  after[Len(rows)]

\* Mutant: the summary on the screen is kept.
KeepSummary(st, n) == IF summary = None THEN [of |-> st, n |-> Count(AllOf(st, n))] ELSE summary

SummaryOf(st, n) == [of |-> st, n |-> Count(AllOf(st, n))]

\* The summary and the listing are two requests, each answered from the ledger as it
\* is at some moment since the loadRest began: of its first n and m sales.  Nothing
\* aborts a loadRest, so the snapshot of a station shown before is applied too.
Apply(i, n, m) ==
  /\ fetch[i] # Idle /\ fetch[i].began <= n /\ fetch[i].began <= m
  /\ LET f == fetch[i]
         rows == RecentOf(f.at, m)
     IN  /\ summary' = SummaryOf(f.at, n)
         /\ sales' = rows
         /\ pumped' = Count(ToSet(rows))
         /\ seen' = RememberRows(rows)
         /\ forgotten' = ToSet(rows) \ ToSet(seen')
         /\ unmapped' = unmapped \cup {PumpOf[s] : s \in {r \in ToSet(rows) : IsUnmapped(r)}}
         /\ applied' = [of |-> f.at, began |-> f.began, recent |-> m]
  /\ lit' = {}
  /\ fetch' = [fetch EXCEPT ![i] = Idle]
  /\ bootstrapped' = TRUE
  /\ Retune(station, TRUE)
  /\ UNCHANGED <<ledger, station, switches, timers, hadConnected, heard, breaks, aged>>

-----------------------------------------------------------------------------
(* The effect of the hook: clean up, clear the screen and load.            *)

\* Mutant: pumps stay lit.
ClearKeepingLit ==
  /\ summary' = None /\ sales' = <<>> /\ pumped' = Count({}) /\ lit' = lit
  /\ unmapped' = {} /\ seen' = <<>> /\ applied' = None /\ forgotten' = {}

Clear ==
  /\ summary' = None /\ sales' = <<>> /\ pumped' = Count({}) /\ lit' = {}
  /\ unmapped' = {} /\ seen' = <<>> /\ applied' = None /\ forgotten' = {}

\* Another station is selected, or none.  Only a disabled hook forgets that it
\* was bootstrapped.
Select(st, i) ==
  /\ st # station /\ switches < MaxSwitches /\ fetch[i] = Idle
  /\ station' = st
  /\ timers' = {}
  /\ IF st = None
       THEN bootstrapped' = FALSE /\ UNCHANGED <<hook, fetch>>
       ELSE Clear /\ Begin(i, st) /\ UNCHANGED bootstrapped
  /\ Retune(st, bootstrapped')
  /\ switches' = switches + 1
  /\ UNCHANGED <<ledger, hadConnected, heard, breaks, aged>>

\* The list of configured pumps is another array, as after a sale has been
\* written into the twin's cache: the effect runs again for the same station.
Reconfigure(i) ==
  /\ station # None /\ switches < MaxSwitches /\ fetch[i] = Idle
  /\ timers' = {}
  /\ Clear /\ Begin(i, station)
  /\ switches' = switches + 1
  /\ UNCHANGED <<ledger, station, bootstrapped, stream, aged>>

-----------------------------------------------------------------------------
(* The event stream                                                        *)

\* The browser connects or reconnects.  The server may replay its last sales.
Establish(n) ==
  /\ conn = "connecting"
  /\ conn' = "open"
  /\ LET all == Ledger(station, Len(ledger))
     IN  n <= Len(all) /\
         wire' = <<Connected>> \o [j \in 1..n |-> Created(all[Len(all) - n + j])]
  /\ UNCHANGED <<ledger, station, switches, fetch, hook, timers, bootstrapped,
                 hadConnected, heard, breaks, aged>>

Break ==
  /\ conn = "open" /\ aged + breaks < MaxFaults
  /\ conn' = "connecting" /\ breaks' = breaks + 1
  /\ wire' = <<>>
  /\ UNCHANGED <<ledger, station, switches, fetch, hook, timers, bootstrapped,
                 hadConnected, heard, aged>>

\* connected: after the first one of this page, load again.
HandleConnected(i) ==
  /\ wire # <<>> /\ Head(wire) = Connected /\ fetch[i] = Idle
  /\ wire' = Tail(wire)
  /\ hadConnected' = TRUE
  /\ IF hadConnected THEN Begin(i, station) ELSE UNCHANGED fetch
  /\ UNCHANGED <<ledger, station, switches, hook, timers, bootstrapped, conn, heard, breaks,
                 aged>>

\* A sale neither filter has seen: the summary and its pump count it, and the
\* pump lights up until its timer fires.
Ingest(s) ==
  /\ seen' = Remember(seen, SeenMax, s)
  /\ sales' = SubSeq(<<s>> \o SelectSeq(sales, LAMBDA r : r # s), 1,
                     IF Len(sales) < RecentLimit /\ s \notin ToSet(sales)
                       THEN Len(sales) + 1 ELSE Len(sales))
  /\ summary' = IF summary = None THEN None
                ELSE [summary EXCEPT !.n[s] = @ + 1]
  /\ pumped' = [pumped EXCEPT ![s] = @ + 1]
  /\ lit' = lit \cup {KeyOf(s)}
  /\ timers' = timers \cup {KeyOf(s)}
  /\ unmapped' = IF IsUnmapped(s) THEN unmapped \cup {PumpOf[s]} ELSE unmapped
  /\ UNCHANGED applied

HandleSale ==
  /\ wire # <<>> /\ Head(wire).type = "sale.created"
  /\ LET s == Head(wire).sale
     IN  /\ heard' = Remember(heard, HeardMax, s)
         /\ \/ /\ Has(heard, HeardMax, s)
               /\ UNCHANGED <<hook, timers>>
            \/ /\ ~Has(heard, HeardMax, s) /\ Has(seen, SeenMax, s)
               /\ seen' = Pruned(seen, SeenMax) /\ Forgets(Pruned(seen, SeenMax))
               /\ UNCHANGED <<summary, sales, pumped, lit, unmapped, applied, timers>>
            \/ /\ ~Has(heard, HeardMax, s) /\ ~Has(seen, SeenMax, s)
               /\ Ingest(s) /\ Forgets(Pruned(seen, SeenMax))
  /\ wire' = Tail(wire)
  /\ UNCHANGED <<ledger, station, switches, fetch, bootstrapped, conn, hadConnected, breaks,
                 aged>>

\* An event without a transaction id, a station or a pump is dropped.
HandleMalformed ==
  /\ wire # <<>> /\ Head(wire).type = "sale.created"
  /\ wire' = Tail(wire)
  /\ UNCHANGED <<ledger, station, switches, fetch, hook, timers, bootstrapped,
                 conn, hadConnected, heard, breaks, aged>>

\* RECENT_ACTIVE_MS after the last sale of the pump.
Dim(k) ==
  /\ k \in timers
  /\ timers' = timers \ {k}
  /\ lit' = lit \ {k}
  /\ UNCHANGED <<ledger, station, switches, fetch, summary, sales, pumped, unmapped,
                 seen, applied, forgotten, bootstrapped, stream, aged>>

\* A day after it was remembered an id is gone, from either filter or both: each has
\* its own time for it.
Without(f, s) == {RemoveAt(f, k) : k \in {j \in DOMAIN f : f[j] = s}}
Age(s) ==
  /\ aged + breaks < MaxFaults /\ aged' = aged + 1
  /\ seen' \in {seen} \cup Without(seen, s)
  /\ heard' \in {heard} \cup Without(heard, s)
  /\ <<seen', heard'>> # <<seen, heard>>
  /\ Forgets(seen')
  /\ UNCHANGED <<ledger, station, switches, fetch, summary, sales, pumped, lit, unmapped,
                 applied, timers, bootstrapped, conn, wire, hadConnected, breaks>>

-----------------------------------------------------------------------------
\* A sale is stored by the cloud; an open stream of its station gets it.
Sell(s) ==
  /\ s \notin ToSet(ledger)
  /\ ledger' = Append(ledger, s)
  /\ wire' = IF conn = "open" /\ StationOf[s] = station
               THEN Append(wire, Created(s)) ELSE wire
  /\ UNCHANGED <<station, switches, fetch, hook, timers, bootstrapped, conn,
                 hadConnected, heard, breaks, aged>>

\* The hook is mounted, for no station or for one, which it begins to load.
Init ==
  /\ ledger = <<>> /\ switches = 0
  /\ \/ station = None /\ fetch = [i \in Fetches |-> Idle]
     \/ \E i \in Fetches :
          /\ station \in Stations
          /\ fetch = [j \in Fetches |-> IF j = i THEN NewFetch(station) ELSE Idle]
  /\ summary = None /\ sales = <<>> /\ pumped = Count({}) /\ lit = {}
  /\ timers = {} /\ unmapped = {} /\ seen = <<>> /\ applied = None /\ forgotten = {}
  /\ bootstrapped = FALSE
  /\ conn = "closed" /\ wire = <<>>
  /\ hadConnected = FALSE /\ heard = <<>>
  /\ aged = 0 /\ breaks = 0

Next ==
  \/ \E s \in Sales : Sell(s) \/ Age(s)
  \/ \E st \in Stations \cup {None}, i \in Fetches : Select(st, i)
  \/ \E i \in Fetches : \/ Refresh(i) \/ Reconfigure(i) \/ HandleConnected(i)
                        \/ FetchFails(i)
  \/ \E i \in Fetches, n, m \in 0..Len(ledger) : Apply(i, n, m)
  \/ \E n \in 0..Len(ledger) : Establish(n)
  \/ Break
  \/ HandleSale \/ HandleMalformed
  \/ \E k \in Keys : Dim(k)

Spec == Init /\ [][Next]_vars

-----------------------------------------------------------------------------
(* Correctness                                                             *)

\* Sales stored before the snapshot on screen was asked for are in the summary,
\* and once if the listing of the same snapshot had them, whatever the stream
\* delivered, replayed or delayed since, until the duplicate filter drops them.
SettledSalesCountedOnce ==
  (applied # None /\ applied.of = station) =>
     \A s \in AllOf(station, applied.began) :
        /\ summary.n[s] >= 1
        /\ s \in ToSet(RecentOf(station, applied.recent)) \ forgotten => summary.n[s] = 1

\* A pump counts a sale again only after the duplicate filter has dropped it; until
\* then what it counts is in the filter.  The filter drops a sale on screen only when
\* a day has passed, or for the newer ones that fill it.
PumpsCountOnce ==
  /\ \A s \in Sales \ forgotten : pumped[s] <= 1 /\ (pumped[s] = 1 => s \in ToSet(seen))
  /\ forgotten = {} \/ aged > 0 \/ Len(seen) >= SeenMax

\* While a station is shown, a pump shown as recently active has a timer that
\* ends it.
LitPumpsHaveTimer == station # None => lit \subseteq timers
=============================================================================
