-------------------------- MODULE ReconciliationsPage --------------------------
(***************************************************************************)
(* The reconciliations page (ui/src/pages/ReconciliationsPage.tsx): the    *)
(* runs of the station chosen, the run selected, its detail and its items, *)
(* the run created and the five actions, which share one mutation          *)
(* (backend/app/services/reconciliation.py).  Cache entries do not affect  *)
(* each other, so one of them is followed, whichever it is.                *)
(***************************************************************************)
EXTENDS Integers, FiniteSets, FiniteSetsExt, QueryCache

CONSTANTS
  Runs,        \* the runs that may exist
  Stations,    \* their stations
  Amounts,     \* totals of a day
  MaxCalls,    \* bound: calls of this page, and of other reviewers
  MaxSwitches  \* bound: changes of the filters

Statuses == {"DRAFT", "COMPLETED", "REVIEW_REQUIRED", "SUBMITTED", "APPROVED", "REJECTED"}
RunRecords == [station : Stations, status : Statuses, items : {0, 1}]

\* Nothing is not a run.
NoneAssumption == None \notin RunRecords

VARIABLES
  run,         \* server: the station, status and item count of each run
  version,     \* server: counts the changes
  station,     \* the filter; None for all stations
  selectedId,  \* the run selected
  byRow,       \* history: it was selected in the list
  watched,     \* the query that is followed
  entry,       \* its cache entry
  told,        \* history: the version it must show
  create, action,  \* what each mutation waits for
  sent, switches   \* counters for the bounds

bounds == <<sent, switches>>
server == <<run, version>>
choice == <<station, selectedId, byRow>>
query  == <<watched, entry, told>>
vars == <<server, choice, query, create, action, bounds>>

-----------------------------------------------------------------------------
(* The queries: the list of a station, the detail and the items of a run   *)

Key(kind, id) == [kind |-> kind, id |-> id]
Keys == [kind : {"list"}, id : Stations \cup {None}] \cup [kind : {"detail", "items"}, id : Runs]

MountedFor(st, sel) ==
  {Key("list", st)} \cup (IF sel = None THEN {} ELSE {Key("detail", sel), Key("items", sel)})
Mounted == watched \in MountedFor(station, selectedId)

\* What is mounted follows the choice.
Turn(st, sel, row) ==
  /\ station' = st /\ selectedId' = sel /\ byRow' = row
  /\ entry' = IF ~Mounted /\ watched \in MountedFor(st, sel) THEN Mount(entry) ELSE entry

\* Mutant: only the list is fetched again.
InvalidateList == IF watched = Key("list", station) THEN Invalidate(entry, Mounted) ELSE entry

\* Every key that begins with 'reconciliations'.
invalidate == Invalidate(entry, Mounted)

Told(v) == IF Heeds(entry, Mounted) /\ told < v THEN v ELSE told

-----------------------------------------------------------------------------
(* Choosing                                                                *)

\* Mutant: the selection is kept.
ChooseKeepingRun(st) ==
  /\ st # station /\ switches < MaxSwitches /\ switches' = switches + 1
  /\ Turn(st, selectedId, byRow)
  /\ UNCHANGED <<server, watched, told, create, action, sent>>

\* Each filter drops the selection.
Choose(st) ==
  /\ st # station /\ switches < MaxSwitches /\ switches' = switches + 1
  /\ Turn(st, None, FALSE)
  /\ UNCHANGED <<server, watched, told, create, action, sent>>

\* A row of the list.
Select(r) ==
  /\ run[r] # None /\ station \in {None, run[r].station} /\ r # selectedId
  /\ Turn(station, r, TRUE)
  /\ UNCHANGED <<server, watched, told, create, action, bounds>>

-----------------------------------------------------------------------------
(* Creating a run                                                          *)

Create ==
  /\ station # None /\ create = None /\ sent < MaxCalls /\ sent' = sent + 1
  /\ create' = [station |-> station, id |-> None, as |-> 0]
  /\ UNCHANGED <<server, choice, query, action, switches>>

\* Nothing keeps a day from having two runs.
HandleCreate(r) ==
  /\ create # None /\ create.id = None /\ run[r] = None
  /\ run' = [run EXCEPT ![r] = [station |-> create.station, status |-> "DRAFT", items |-> 0]]
  /\ version' = version + 1
  /\ create' = [create EXCEPT !.id = r, !.as = version']
  /\ UNCHANGED <<choice, query, action, bounds>>

\* The new run is selected, whatever the filters are now.
Created ==
  /\ create # None /\ create.id # None /\ create' = None
  /\ station' = station /\ selectedId' = create.id /\ byRow' = FALSE
  /\ LET e == invalidate
         new == ~Mounted /\ watched \in MountedFor(station, create.id)
     IN  entry' = IF new THEN Mount(e) ELSE e
  /\ told' = Told(create.as)
  /\ UNCHANGED <<server, watched, action, bounds>>

-----------------------------------------------------------------------------
(* Acting on the run selected                                              *)

Actions == {"calculate", "submit", "approve", "reject", "reopen"}

\* The page offers every action in every status.
Act(a) ==
  /\ selectedId # None /\ action = None /\ sent < MaxCalls /\ sent' = sent + 1
  /\ action' = [of |-> a, id |-> selectedId, as |-> 0]
  /\ UNCHANGED <<server, choice, query, create, switches>>

From == [calculate |-> Statuses,
         submit    |-> {"COMPLETED", "REVIEW_REQUIRED", "DRAFT", "REJECTED"},
         approve   |-> {"SUBMITTED", "REVIEW_REQUIRED", "COMPLETED"},
         reject    |-> {"SUBMITTED", "REVIEW_REQUIRED", "COMPLETED"},
         reopen    |-> Statuses]

To == [calculate |-> {"COMPLETED", "REVIEW_REQUIRED"}, submit |-> {"SUBMITTED"},
       approve |-> {"APPROVED"}, reject |-> {"REJECTED"}, reopen |-> {"DRAFT"}]

\* A calculation replaces the items.
Changed(r, a, status) ==
  [run EXCEPT ![r] = [station |-> run[r].station, status |-> status,
                      items |-> IF a = "calculate" THEN 1 ELSE run[r].items]]

Handle ==
  /\ action # None /\ action.as = 0 /\ run[action.id].status \in From[action.of]
  /\ \E status \in To[action.of] : run' = Changed(action.id, action.of, status)
  /\ version' = version + 1
  /\ action' = [action EXCEPT !.as = version']
  /\ UNCHANGED <<choice, query, create, bounds>>

Succeed ==
  /\ action # None /\ action.as # 0 /\ action' = None
  /\ entry' = invalidate /\ told' = Told(action.as)
  /\ UNCHANGED <<server, choice, watched, create, bounds>>

Refuse ==
  /\ action # None /\ action.as = 0 /\ action' = None
  /\ UNCHANGED <<server, choice, query, create, bounds>>

ActByOthers(r, a) ==
  /\ run[r] # None /\ run[r].status \in From[a] /\ sent < MaxCalls /\ sent' = sent + 1
  /\ \E status \in To[a] : run' = Changed(r, a, status)
  /\ version' = version + 1
  /\ UNCHANGED <<choice, query, create, action, switches>>

-----------------------------------------------------------------------------
(* The query that is followed                                              *)

AnswerQuery ==
  /\ entry.fetch = "asked"
  /\ entry' = Answer(entry, version)
  /\ UNCHANGED <<server, choice, watched, told, create, action, bounds>>

SettleQuery ==
  /\ entry.fetch = "answered"
  /\ entry' = Settle(entry)
  /\ UNCHANGED <<server, choice, watched, told, create, action, bounds>>

\* transaction.created, from the event stream: the same keys are invalidated.
HearSale ==
  /\ entry' = invalidate /\ entry' # entry
  /\ UNCHANGED <<server, choice, watched, told, create, action, bounds>>

Grow ==
  /\ ~Mounted /\ entry.data # None /\ ~entry.stale
  /\ entry' = Age(entry)
  /\ UNCHANGED <<server, choice, watched, told, create, action, bounds>>

Init ==
  /\ run \in [Runs -> {None} \cup [station : Stations, status : {"DRAFT"}, items : {0}]]
  /\ version = 0 /\ station = None /\ selectedId = None /\ byRow = FALSE
  /\ watched \in Keys
  /\ \E e \in {Entry(None), Entry(0)} :
       entry = IF watched = Key("list", None) THEN Mount(e) ELSE e
  /\ told = 0 /\ create = None /\ action = None /\ sent = 0 /\ switches = 0

Next ==
  \/ \E st \in Stations \cup {None} : Choose(st)
  \/ \E r \in Runs : Select(r) \/ HandleCreate(r)
  \/ Create \/ Created
  \/ \E a \in Actions : Act(a)
  \/ Handle \/ Succeed \/ Refuse
  \/ \E r \in Runs, a \in Actions : ActByOthers(r, a)
  \/ AnswerQuery \/ SettleQuery \/ HearSale \/ Grow

Spec == Init /\ [][Next]_vars

-----------------------------------------------------------------------------
(* What is drawn of the items                                              *)

\* What a calculation finds: the sales captured, and the payments entered, if any.
ItemsOf(captured, payments) ==
  {[type |-> "CAPTURED_SALES", expected |-> None, actual |-> captured, variance |-> None]}
  \cup (IF payments = None THEN {}
        ELSE {[type |-> "PAYMENT_SUMMARY", expected |-> captured, actual |-> payments,
               variance |-> payments - captured]})

SalesFigures(items) ==
  LET sales    == CHOOSE i \in items : i.type = "CAPTURED_SALES"
      payments == {i \in items : i.type = "PAYMENT_SUMMARY"}
      of(i)    == IF i.expected # None THEN i.expected ELSE i.actual
      expected == IF sales.expected # None THEN sales.expected
                  ELSE MapThenSumSet(of, payments)
  IN  [expected |-> expected, captured |-> sales.actual,
       variance |-> IF sales.variance # None THEN sales.variance ELSE sales.actual - expected]

-----------------------------------------------------------------------------
(* Correctness                                                             *)

\* A run that was selected in the list is one of the station chosen, through every
\* change of the filters; the run that was just created need not be.
SelectionMatchesFilter ==
  byRow => station \in {None, run[selectedId].station}

\* The list, detail or items of a run, fresh and not being fetched, show what this
\* page did to it, although the run was deselected and selected again meanwhile; but
\* not what was answered during a first fetch, or a fetch of what was deselected.
PageShowsOwnActions ==
  entry.fetch = "idle" /\ ~entry.stale /\ entry.data # None => entry.data >= told

\* Once a run is calculated, the expected sales on the page are the sales captured,
\* whether or not payments were entered: "Reconciliation expected sales should default
\* to MQTT-captured pump_transactions amounts" (docs/previous-feature-assessment.md:315).
ExpectedDefaultsToCaptured ==
  \A r \in Runs : run[r] # None /\ run[r].items > 0 =>
    \A c \in Amounts, p \in Amounts \cup {None} : SalesFigures(ItemsOf(c, p)).expected = c
=============================================================================
