------------------------------ MODULE AlertsPage ------------------------------
(***************************************************************************)
(* The alerts page (ui/src/pages/AlertsPage.tsx): the list for each status *)
(* filter, cached under the filter, the alert shown in detail, and the     *)
(* four actions, each a mutation of its own, so that an alert may be       *)
(* resolved and dismissed at once (backend/app/routers/alerts.py).         *)
(***************************************************************************)
EXTENDS Naturals, QueryCache

CONSTANTS
  Alerts,      \* the alerts on the server
  MaxCalls,    \* bound: actions of this user and of others, and sales heard
  MaxSwitches  \* bound: changes of the filter

VARIABLES
  alert,       \* server: the status of each alert
  version,     \* server: counts the changes
  filter,      \* the status chosen
  lists,       \* the cache entry of each filter, and of the summary
  selected,    \* the alert shown in detail, as it was when it was shown
  pending,     \* the call each mutation waits for
  told,        \* history: the version the page must show
  sent, switches   \* counters for the bounds

bounds == <<sent, switches>>
vars == <<alert, version, filter, lists, selected, pending, told, bounds>>

Filters == {"all", "OPEN"}
Keys == Filters \cup {"summary"}
Mounted == {filter, "summary"}

\* What the server answers: the alerts with the status, or their counts.
Listed(key) ==
  [as |-> version,
   rows |-> {[id |-> a, status |-> alert[a]] :
               a \in {b \in Alerts : key # "OPEN" \/ alert[b] = "OPEN"}}]

Closed == {"RESOLVED", "DISMISSED"}
Results == [ack |-> "ACKNOWLEDGED", resolve |-> "RESOLVED",
            dismiss |-> "DISMISSED", reopen |-> "OPEN"]
Actions == DOMAIN Results
Statuses == {Results[a] : a \in Actions}

-----------------------------------------------------------------------------
(* The detail and its buttons                                              *)

\* The severity only hides rows of the list.
Select(row) ==
  /\ lists[filter].data # None /\ row \in lists[filter].data.rows /\ row # selected
  /\ selected' = row
  /\ UNCHANGED <<alert, version, filter, lists, pending, told, bounds>>

Offered(status) ==
  CASE status = "OPEN" -> {"ack", "resolve", "dismiss"}
    [] status = "ACKNOWLEDGED" -> {"resolve", "dismiss"}
    [] status \in Closed -> {"reopen"}

\* Only the mutation pressed is disabled while its call is pending.
Press(action) ==
  /\ selected # None /\ action \in Offered(selected.status) /\ pending[action] = None
  /\ sent < MaxCalls /\ sent' = sent + 1
  /\ pending' = [pending EXCEPT ![action] = [id |-> selected.id, as |-> None]]
  /\ UNCHANGED <<alert, version, filter, lists, selected, told, switches>>

\* Whatever the status was.
Handle(action) ==
  LET c == pending[action] IN
  /\ c # None /\ c.as = None
  /\ alert' = [alert EXCEPT ![c.id] = Results[action]]
  /\ version' = version + 1
  /\ pending' = [pending EXCEPT ![action] = [id |-> c.id, as |-> version']]
  /\ UNCHANGED <<filter, lists, selected, told, bounds>>

\* Mutant: only the list on the screen is fetched again.
InvalidateShown ==
  [lists EXCEPT ![filter] = Invalidate(@, TRUE)]

\* Every key that begins with 'alerts'.
invalidate == [k \in Keys |-> Invalidate(lists[k], k \in Mounted)]

\* onSuccess: the detail shows the answer, whichever alert it showed.
Succeed(action) ==
  LET c == pending[action] IN
  /\ c # None /\ c.as # None
  /\ lists' = invalidate
  /\ selected' = [id |-> c.id, status |-> Results[action]]
  /\ pending' = [pending EXCEPT ![action] = None]
  /\ told' = [k \in Keys |-> IF Heeds(lists[k], k \in Mounted) /\ told[k] < c.as
                             THEN c.as ELSE told[k]]
  /\ UNCHANGED <<alert, version, filter, bounds>>

Refuse(action) ==
  /\ pending[action] # None /\ pending[action].as = None
  /\ pending' = [pending EXCEPT ![action] = None]
  /\ UNCHANGED <<alert, version, filter, lists, selected, told, bounds>>

\* Other users, and the monitors that resolve what they raised.
ChangeByOthers(a, status) ==
  /\ alert[a] # status /\ sent < MaxCalls /\ sent' = sent + 1
  /\ alert' = [alert EXCEPT ![a] = status] /\ version' = version + 1
  /\ UNCHANGED <<filter, lists, selected, pending, told, switches>>

\* transaction.created, from the event stream: the same keys are invalidated.
HearSale ==
  /\ sent < MaxCalls /\ sent' = sent + 1 /\ lists' = invalidate
  /\ UNCHANGED <<alert, version, filter, selected, pending, told, switches>>

-----------------------------------------------------------------------------
(* The filter and the lists                                                *)

\* The detail stays, whether or not the list has it.
Choose(f) ==
  /\ f # filter /\ switches < MaxSwitches /\ switches' = switches + 1
  /\ filter' = f
  /\ lists' = [lists EXCEPT ![f] = Mount(@)]
  /\ UNCHANGED <<alert, version, selected, pending, told, sent>>

\* staleTime of the list of a filter used before.
Grow(f) ==
  /\ f # filter /\ lists[f].data # None /\ ~lists[f].stale
  /\ lists' = [lists EXCEPT ![f] = Age(@)]
  /\ UNCHANGED <<alert, version, filter, selected, pending, told, bounds>>

AnswerQuery(k) ==
  /\ lists[k].fetch = "asked"
  /\ lists' = [lists EXCEPT ![k] = Answer(@, Listed(k))]
  /\ UNCHANGED <<alert, version, filter, selected, pending, told, bounds>>

SettleQuery(k) ==
  /\ lists[k].fetch = "answered"
  /\ lists' = [lists EXCEPT ![k] = Settle(@)]
  /\ UNCHANGED <<alert, version, filter, selected, pending, told, bounds>>

\* The summary is not tried again.
FailQuery(k) ==
  /\ lists[k].fetch = "asked"
  /\ lists' = [lists EXCEPT ![k] = Fail(@)]
  /\ UNCHANGED <<alert, version, filter, selected, pending, told, bounds>>

Init ==
  /\ alert \in [Alerts -> {"OPEN", "RESOLVED"}] /\ version = 0
  /\ filter = "all" /\ selected = None
  /\ \E seen \in SUBSET Keys :
       lists = [k \in Keys |-> IF k \in seen THEN Entry(Listed(k))
                               ELSE IF k \in Mounted THEN Mount(Entry(None)) ELSE Entry(None)]
  /\ pending = [a \in Actions |-> None]
  /\ told = [k \in Keys |-> 0]
  /\ sent = 0 /\ switches = 0

Next ==
  \/ \E row \in [id : Alerts, status : Statuses] : Select(row)
  \/ \E a \in Actions : Press(a) \/ Handle(a) \/ Succeed(a) \/ Refuse(a)
  \/ \E a \in Alerts, status \in {"OPEN", "RESOLVED"} : ChangeByOthers(a, status)
  \/ HearSale
  \/ \E f \in Filters : Choose(f) \/ Grow(f)
  \/ \E k \in Keys : AnswerQuery(k) \/ SettleQuery(k) \/ FailQuery(k)

Spec == Init /\ [][Next]_vars

-----------------------------------------------------------------------------
(* Correctness                                                             *)

\* The list of every filter, once fresh and not being fetched, shows what this user
\* did, although it was cached under another filter, the actions overlapped or
\* others changed the alerts meanwhile; but not what was answered while the list was
\* first fetched, or was being fetched behind another filter.
ListsShowOwnActions ==
  \A k \in Keys : LET e == lists[k] IN
    e.fetch = "idle" /\ ~e.stale /\ e.data # None => e.data.as >= told[k]
=============================================================================
