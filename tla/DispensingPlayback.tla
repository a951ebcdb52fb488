-------------------------- MODULE DispensingPlayback --------------------------
(***************************************************************************)
(* The playback of completed sales on the twin of the chosen station       *)
(* (ui/src/hooks/useDispensingPlayback.ts) over the cached live state that *)
(* the page fetches and polls (ui/src/pages/DigitalTwinPage.tsx).  A sale  *)
(* of the event stream is written into the cache and played: its pump      *)
(* dispenses, is completed, and is then forgotten, and the cache is        *)
(* fetched again.                                                          *)
(***************************************************************************)
EXTENDS Naturals, Sequences, FiniteSets, SequencesExt

CONSTANTS
  None,          \* undefined, or nothing there
  Sales,         \* transaction ids
  PumpIds,       \* pump ids as sent; the keys of a playback
  PumpIdOf,      \* the pump id of a sale
  Pumps,         \* pumps of the live state
  PumpMatching,  \* pumpMatchesId: the pump a pump id names, or None
  LatestRows,    \* rows of latestTransactions
  DedupMax,      \* entries of the duplicate filter
  MaxExpiries,   \* bound: times old entries outlive their ten minutes
  MaxFailures,   \* bound: fetches that fail
  MaxModes,      \* bound: changes of the view or of the station
  MaxBreaks      \* bound: connections lost

Phases    == {"DISPENSING", "COMPLETED"}
Playbacks == [tx : Sales, phase : Phases]
Timers    == [tx : Sales, ends : Phases]

ASSUME NoneAssumption == None \notin Playbacks \cup Timers

VARIABLES
  ledger,     \* server: sales committed at the station, oldest first
  elsewhere,  \* sales of the stations chosen before
  cache,      \* the query's live state
  fetch,      \* the query's fetch: idle, asked, or answered from a prefix
  active,     \* activeByPump
  timer,      \* timersRef: the playback each pump's timer ends
  dedup,      \* ids in the duplicate filter, oldest first
  open, wire, \* the event source and its messages
  view,       \* viewMode
  cut,        \* history: playbacks whose timer an effect's cleanup cleared
  expiries, failures, modes, breaks   \* counters for the bounds

bounds == <<expiries, failures, modes, breaks>>
playback == <<active, timer, cut>>
vars == <<ledger, elsewhere, cache, fetch, playback, dedup, open, wire, view, bounds>>

-----------------------------------------------------------------------------
(* The duplicate filter (useRecentTransactionDedup.ts)                     *)

\* prune runs before each look-up and before each insertion.
Pruned == IF Len(dedup) > DedupMax
            THEN SubSeq(dedup, Len(dedup) - DedupMax + 1, Len(dedup)) ELSE dedup
Has(s) == s \in ToSet(Pruned)
Remember(s) == IF Has(s) THEN Pruned ELSE Append(Pruned, s)

\* Ten minutes after it was remembered an entry is gone.
Expire ==
  /\ dedup # <<>> /\ expiries < MaxExpiries
  /\ dedup' = Tail(dedup)
  /\ expiries' = expiries + 1
  /\ UNCHANGED <<ledger, elsewhere, cache, fetch, playback, open, wire, view, failures, modes, breaks>>

-----------------------------------------------------------------------------
(* The query ['twin', 'live-state', station]                               *)

\* What the server shows after its first n sales; pumps are idle there.
LiveState(n) ==
  [n |-> [s \in Sales |-> IF s \in ToSet(SubSeq(ledger, 1, n)) THEN 1 ELSE 0],
   latest |-> SubSeq(Reverse(SubSeq(ledger, 1, n)), 1, IF n < LatestRows THEN n ELSE LatestRows),
   pump |-> [p \in Pumps |-> "IDLE"]]

Idle        == [is |-> "idle", upTo |-> 0]
Asked       == [is |-> "asked", upTo |-> 0]
Answered(n) == [is |-> "answered", upTo |-> n]

\* Mutant: without refetchInterval.
PollOnce ==
  /\ cache = None /\ fetch = Idle /\ fetch' = Asked
  /\ UNCHANGED <<ledger, elsewhere, cache, playback, dedup, open, wire, view, bounds>>

\* The page is opened, or refetchInterval has passed.
Poll ==
  /\ fetch = Idle /\ fetch' = Asked
  /\ UNCHANGED <<ledger, elsewhere, cache, playback, dedup, open, wire, view, bounds>>

Answer ==
  /\ fetch = Asked /\ fetch' = Answered(Len(ledger))
  /\ UNCHANGED <<ledger, elsewhere, cache, playback, dedup, open, wire, view, bounds>>

\* The effect that owns the event source is cleaned up: the source is closed and
\* every timer cleared, and activeByPump kept.
Cleanup ==
  /\ open' = FALSE /\ wire' = <<>>
  /\ timer' = [p \in PumpIds |-> None]
  /\ cut' = {p \in PumpIds : active[p] # None}
  /\ UNCHANGED active

\* The answer replaces the cache, and with it what playbacks wrote meanwhile.  The
\* first one brings the station's ids, on which the effect depends: it runs again.
Settle ==
  /\ fetch.is = "answered"
  /\ cache' = LiveState(fetch.upTo)
  /\ fetch' = Idle
  /\ IF cache = None THEN Cleanup ELSE UNCHANGED <<playback, open, wire>>
  /\ UNCHANGED <<ledger, elsewhere, dedup, view, bounds>>

FetchFails ==
  /\ fetch # Idle /\ failures < MaxFailures
  /\ fetch' = Idle /\ failures' = failures + 1
  /\ UNCHANGED <<ledger, elsewhere, cache, playback, dedup, open, wire, view, expiries, modes, breaks>>

-----------------------------------------------------------------------------
(* trigger                                                                 *)

WithSale(old, s) ==
  [n |-> [old.n EXCEPT ![s] = @ + 1],
   latest |-> LET rows == <<s>> \o SelectSeq(old.latest, LAMBDA r : r # s)
              IN  SubSeq(rows, 1, IF Len(rows) < LatestRows THEN Len(rows) ELSE LatestRows),
   pump |-> [p \in Pumps |->
               IF p = PumpMatching[PumpIdOf[s]] THEN "DISPENSING" ELSE old.pump[p]]]

\* Mutant: the timer of an earlier sale is left running.
TimedOnce(s) ==
  IF timer[PumpIdOf[s]] = None
    THEN [timer EXCEPT ![PumpIdOf[s]] = [tx |-> s, ends |-> "DISPENSING"]] ELSE timer

\* The pump's timer is cleared and set for this sale.
Timed(s) == [timer EXCEPT ![PumpIdOf[s]] = [tx |-> s, ends |-> "DISPENSING"]]

Trigger(s) ==
  /\ dedup' = Remember(s)
  /\ cache' = IF cache = None THEN None ELSE WithSale(cache, s)
  /\ active' = [active EXCEPT ![PumpIdOf[s]] = [tx |-> s, phase |-> "DISPENSING"]]
  /\ timer' = Timed(s)
  /\ cut' = cut \ {PumpIdOf[s]}

HandleSale ==
  /\ wire # <<>>
  /\ wire' = Tail(wire)
  /\ IF Has(Head(wire))
       THEN dedup' = Pruned /\ UNCHANGED <<cache, playback>>
       ELSE Trigger(Head(wire))
  /\ UNCHANGED <<ledger, elsewhere, fetch, open, view, bounds>>

Playing(p, s) == active[p] # None /\ active[p].tx = s

\* durationMs after the trigger: the final figures are shown for a second.
Complete(p) ==
  /\ timer[p] # None /\ timer[p].ends = "DISPENSING"
  /\ active' = IF Playing(p, timer[p].tx)
                 THEN [active EXCEPT ![p] = [tx |-> timer[p].tx, phase |-> "COMPLETED"]]
                 ELSE active
  /\ cache' = IF cache = None THEN None
              ELSE [cache EXCEPT !.pump = [q \in Pumps |->
                      IF q = PumpMatching[p] THEN "COMPLETED" ELSE @[q]]]
  /\ timer' = [timer EXCEPT ![p] = [tx |-> timer[p].tx, ends |-> "COMPLETED"]]
  /\ UNCHANGED <<ledger, elsewhere, fetch, dedup, cut, open, wire, view, bounds>>

\* COMPLETED_HOLD_MS later: the playback is forgotten and the query invalidated,
\* which drops a fetch under way and starts another.
Forget(p) ==
  /\ timer[p] # None /\ timer[p].ends = "COMPLETED"
  /\ active' = IF Playing(p, timer[p].tx) THEN [active EXCEPT ![p] = None] ELSE active
  /\ timer' = [timer EXCEPT ![p] = None]
  /\ fetch' = Asked
  /\ UNCHANGED <<ledger, elsewhere, cache, dedup, cut, open, wire, view, bounds>>

-----------------------------------------------------------------------------
(* The effect that owns the event source                                   *)

\* The server may send sales again that it sent before the connection broke.
Establish(n) ==
  /\ view = "operational" /\ ~open
  /\ open' = TRUE
  /\ wire' = SubSeq(ledger, Len(ledger) - n + 1, Len(ledger))
  /\ UNCHANGED <<ledger, elsewhere, cache, fetch, playback, dedup, view, bounds>>

Break ==
  /\ open /\ breaks < MaxBreaks
  /\ open' = FALSE /\ wire' = <<>> /\ breaks' = breaks + 1
  /\ UNCHANGED <<ledger, elsewhere, cache, fetch, playback, dedup, view, expiries, failures, modes>>

\* Leaving the view disables the effect.
SetMode ==
  /\ modes < MaxModes /\ modes' = modes + 1
  /\ IF view = "3d"
       THEN view' = "operational" /\ UNCHANGED <<playback, open, wire>>
       ELSE view' = "3d" /\ Cleanup
  /\ UNCHANGED <<ledger, elsewhere, cache, fetch, dedup, expiries, failures, breaks>>

\* Another station is chosen: its live state has another key, under which nothing is
\* cached yet, and the effect runs again on it.
ChooseStation ==
  /\ modes < MaxModes /\ modes' = modes + 1
  /\ elsewhere' = elsewhere \cup ToSet(ledger)
  /\ ledger' = <<>> /\ cache' = None /\ fetch' = Idle
  /\ Cleanup
  /\ UNCHANGED <<dedup, view, expiries, failures, breaks>>

-----------------------------------------------------------------------------
Sell(s) ==
  /\ s \notin ToSet(ledger) \cup elsewhere
  /\ ledger' = Append(ledger, s)
  /\ wire' = IF open THEN Append(wire, s) ELSE wire
  /\ UNCHANGED <<elsewhere, cache, fetch, playback, dedup, open, view, bounds>>

Init ==
  /\ ledger = <<>> /\ elsewhere = {} /\ cache = None /\ fetch = Idle
  /\ active = [p \in PumpIds |-> None] /\ timer = [p \in PumpIds |-> None] /\ cut = {}
  /\ dedup = <<>> /\ open = FALSE /\ wire = <<>> /\ view = "operational"
  /\ expiries = 0 /\ failures = 0 /\ modes = 0 /\ breaks = 0

Next ==
  \/ \E s \in Sales : Sell(s)
  \/ Poll \/ Answer \/ Settle \/ FetchFails
  \/ HandleSale \/ Expire \/ Break \/ SetMode \/ ChooseStation
  \/ \E n \in 0..Len(ledger) : Establish(n)
  \/ \E p \in PumpIds : Complete(p) \/ Forget(p)

\* Messages are handled, timers fire, the page polls and the server answers.
Fairness ==
  /\ WF_vars(HandleSale) /\ WF_vars(Poll) /\ WF_vars(Answer) /\ WF_vars(Settle)
  /\ \A p \in PumpIds : WF_vars(Complete(p)) /\ WF_vars(Forget(p))
Spec == Init /\ [][Next]_vars /\ Fairness

-----------------------------------------------------------------------------
(* Correctness                                                             *)

\* A pump that is shown dispensing or completed has a timer pending for that
\* very sale and phase, and no other pump has one: no sale is shown for ever and no
\* timer of an earlier sale ends a later one.  Only a cleanup during the playback
\* leaves a pump shown without a timer, until its next sale.
PlaybackHasTimer ==
  \A p \in PumpIds :
    timer[p] = IF active[p] = None \/ p \in cut THEN None
               ELSE [tx |-> active[p].tx, ends |-> active[p].phase]

\* Whatever the stream repeats and however fetches and playbacks interleave, the
\* live state ends up counting every sale stored at the station exactly once.
CacheConverges ==
  <>[](cache # None /\ \A s \in Sales : cache.n[s] = IF s \in ToSet(ledger) THEN 1 ELSE 0)
=============================================================================
