---------------------------- MODULE StationStatus ----------------------------
(***************************************************************************)
(* Who writes a station's status: the consumer's MQTT callback             *)
(* (process_event), its heartbeat-timeout thread (evaluate_timeouts, one   *)
(* transaction over all stations), and in the backend an operator's manual *)
(* close and the station form, which saves a status of its own.  Each      *)
(* reads the station with a plain SELECT, decides, and updates it later in *)
(* the same READ COMMITTED transaction, so the decision may rest on a row  *)
(* that has changed.  An UPDATE locks the row until commit.                *)
(***************************************************************************)
EXTENDS StationRules, FiniteSets

CONSTANTS
  Stations,
  Pumps,        \* pumps a station may have
  Messages,     \* station messages that may arrive
  Forms,        \* statuses the station form may send
  MaxEvents,    \* bound: messages received
  MaxRequests,  \* bound: manual closes and saves of the form
  MaxFaults     \* bound: transactions that fail and roll back, and closed outage
                \* alerts an operator makes active again

MessageType ==
  [kind : {"heartbeat", "status", "connectivity"},
   op : Operational \cup {None}, conn : Connectivity \cup {None},
   mqtt : BOOLEAN \cup {None}, serial : BOOLEAN \cup {None},
   power : BOOLEAN \cup {None}]

ASSUME MessagesAssumption == Messages \subseteq MessageType
ASSUME FormsAssumption == Forms \subseteq [op : Operational, conn : Connectivity]
ASSUME StationsAssumption == Stations # {} /\ IsFiniteSet(Stations)
ASSUME NoneAssumption ==
  /\ None \notin Stations
  /\ None \notin Operational \cup Connectivity \cup PumpStates \cup Sources
  /\ None \notin BOOLEAN
  /\ None \notin Decisions
ASSUME BoundsAssumption ==
  {MaxEvents, MaxRequests, MaxFaults} \subseteq Nat

VARIABLES
  row,        \* stations: status columns as committed
  pump,       \* pumps: operational_state, None before the pump is created
  tip,        \* station_status_history: the latest row of the station
  alerts,     \* outage alerts of the station, by active and closed status
  alive,      \* last_heartbeat_at is set and within the timeout
  hours,      \* the station's schedule says it is open now
  cb,         \* the MQTT callback
  job,        \* the timeout thread
  req,        \* the manual close or save of the form
  events, requests, revivals, failures,  \* counters for the bounds
  diverged,   \* history: stations whose last write the records may not share
  answered,   \* history: an operator closed an alert of the current outage
  closing     \* history: the same, since the pass looked for an alert

status   == <<row, pump, tip, alive>>
counters == <<events, requests, revivals, failures>>
histories == <<diverged, answered, closing>>
vars == <<status, alerts, hours, cb, job, req, counters, histories>>

Rows == [op : Operational, conn : Connectivity, source : Sources \cup {None}]

Tips == [op : Operational, conn : Connectivity]

CallbackType ==
  [pc : {"idle", "update", "insert"}, s : Stations \cup {None},
   beat : BOOLEAN, prev : Tips \cup {None}, plan : Decisions \cup {None},
   pumps : SUBSET Pumps]

JobType ==
  [pc : {"idle", "scan", "alert", "insert"},
   read : [Stations -> Tips], plan : [Stations -> Decisions \cup {None}],
   todo : SUBSET Stations, pumps : [Stations -> SUBSET Pumps],
   raised : SUBSET Stations, at : Stations \cup {None}, calls : 0 .. 2]

Pumped == [Pumps -> PumpStates \cup {None}]

RequestType ==
  [s : Stations \cup {None}, row : Rows \cup {None},
   pump : Pumped \cup {None}, form : Tips \cup {None}]

TypeOK ==
  /\ row \in [Stations -> Rows]
  /\ pump \in [Stations -> Pumped]
  /\ tip \in [Stations -> Tips]
  /\ alerts \in [Stations -> [active : Nat, closed : Nat]]
  /\ alive \in [Stations -> BOOLEAN]
  /\ hours \in [Stations -> BOOLEAN]
  /\ cb \in CallbackType
  /\ job \in JobType
  /\ req \in RequestType
  /\ {events, requests, revivals, failures} \subseteq Nat
  /\ {diverged, answered, closing} \subseteq SUBSET Stations

\* What the consumer looks at of a row.
StatusOf(r) == [op |-> r.op, conn |-> r.conn]

NewRow == [op |-> "UNKNOWN", conn |-> "UNKNOWN", source |-> None]

CbIdle  == [pc |-> "idle", s |-> None, beat |-> FALSE, prev |-> None,
            plan |-> None, pumps |-> {}]
ReqIdle == [s |-> None, row |-> None, pump |-> None, form |-> None]
JobIdle == [pc |-> "idle",
            read |-> [s \in Stations |-> StatusOf(NewRow)],
            plan |-> [s \in Stations |-> None], todo |-> {},
            pumps |-> [s \in Stations |-> {}], raised |-> {},
            at |-> None, calls |-> 0]

Init ==
  /\ row = [s \in Stations |-> NewRow]
  /\ pump = [s \in Stations |-> [p \in Pumps |-> None]]
  /\ tip = [s \in Stations |-> StatusOf(NewRow)]
  /\ alerts = [s \in Stations |-> [active |-> 0, closed |-> 0]]
  /\ alive = [s \in Stations |-> FALSE]
  /\ hours \in [Stations -> BOOLEAN]
  /\ cb = CbIdle /\ job = JobIdle /\ req = ReqIdle
  /\ events = 0 /\ requests = 0 /\ revivals = 0 /\ failures = 0
  /\ diverged = {} /\ answered = {} /\ closing = {}

-----------------------------------------------------------------------------
(***************************************************************************)
(* The transaction steps the writers share.                                *)
(***************************************************************************)
CallbackLocks(s) == cb.pc = "insert" /\ cb.s = s
JobLocks(s)      == job.plan[s] # None /\ s \notin job.todo

\* Mutant: an alert closed before is as good as an active one.
AlertEverFound(s) == alerts[s].active + alerts[s].closed > 0

\* SELECT 1 FROM alerts WHERE deduplication_key = ... AND status is active.
AlertFound(s) == alerts[s].active > 0

Differs(r, q) == r.op # q.op \/ r.conn # q.conn

\* Mutant: only operational changes are kept in the history.
NewTipOperational(s, d, prev) ==
  IF prev.op # d.op THEN StatusOf(d) ELSE tip[s]

\* What one committed _apply leaves in a station's row, pumps and history.
NewStatus(d)     == [op |-> d.op, conn |-> d.conn, source |-> d.source]
NewPump(s, d, reached) ==
  [p \in Pumps |-> IF d.pump # None /\ p \in reached THEN d.pump ELSE pump[s][p]]
NewTip(s, d, prev) ==
  IF Differs(prev, d) THEN StatusOf(d) ELSE tip[s]

\* The pumps that UPDATE pumps ... WHERE station_id reaches.
Existing(s) == {p \in Pumps : pump[s][p] # None}

\* History: a decision that changes what was read gives row and history the same
\* state, and closing powers the pumps off.  One that does not may leave them apart,
\* if the row had changed since or they were apart already.
Recorded(prev, d) ==
  Differs(prev, d) /\ (d.op = "CLOSED" => d.pump = "POWERED_OFF")

Diverges(s, prev, d) ==
  ~Recorded(prev, d) /\ (s \in diverged \/ Differs(prev, row[s]))

TransactionFails ==
  /\ failures + revivals < MaxFaults
  /\ failures' = failures + 1

-----------------------------------------------------------------------------
(***************************************************************************)
(* The MQTT callback: process_event.                                       *)
(***************************************************************************)
Or(field, default) == IF field = None THEN default ELSE field

EventDecision(m, prev, within) ==
  CASE m.kind = "heartbeat" ->
         FromStatusMessage(Or(m.op, prev.op), Or(m.conn, "ONLINE"), m.mqtt,
                           m.serial, m.power)
    [] m.kind = "status" ->
         FromStatusMessage(Or(m.op, "UNKNOWN"), m.conn, m.mqtt, m.serial,
                           m.power)
    [] m.kind = "connectivity" -> FromConnectivity(m.conn, within, prev.op)

\* _load_schedule and _load_current, and the decision.
Receive(s, m) ==
  /\ cb.pc = "idle"
  /\ events < MaxEvents
  /\ events' = events + 1
  /\ LET prev == StatusOf(row[s]) IN
       cb' = [pc |-> "update", s |-> s, beat |-> m.kind = "heartbeat",
              prev |-> prev, plan |-> EventDecision(m, prev, hours[s]),
              pumps |-> {}]
  /\ UNCHANGED <<status, alerts, hours, job, req, requests, revivals, failures,
                 histories>>

CallbackCommits(reached) ==
  LET s == cb.s
      d == cb.plan
  IN
  /\ row' = [row EXCEPT ![s] = NewStatus(d)]
  /\ pump' = [pump EXCEPT ![s] = NewPump(s, d, reached)]
  /\ tip' = [tip EXCEPT ![s] = NewTip(s, d, cb.prev)]
  /\ alive' = [alive EXCEPT ![s] = @ \/ cb.beat]
  /\ diverged' = IF Diverges(s, cb.prev, d)
                 THEN diverged \cup {s} ELSE diverged \ {s}
  /\ answered' = answered \ {s} /\ UNCHANGED closing
  /\ cb' = CbIdle

\* Mutant: the row is written without waiting for the other writer's lock.
CallbackUpdateUnlocked ==
  /\ cb.pc = "update"
  /\ IF cb.plan.alert /\ ~AlertFound(cb.s)
     THEN /\ cb' = [cb EXCEPT !.pc = "insert", !.pumps = Existing(cb.s)]
          /\ UNCHANGED <<status, histories>>
     ELSE CallbackCommits(Existing(cb.s))
  /\ UNCHANGED <<alerts, hours, job, req, counters>>

\* _apply: the UPDATE waits for the row, then the alert is looked up.
CallbackUpdate ==
  /\ cb.pc = "update"
  /\ ~JobLocks(cb.s)
  /\ IF cb.plan.alert /\ ~AlertFound(cb.s)
     THEN /\ cb' = [cb EXCEPT !.pc = "insert", !.pumps = Existing(cb.s)]
          /\ UNCHANGED <<status, histories>>
     ELSE CallbackCommits(Existing(cb.s))
  /\ UNCHANGED <<alerts, hours, job, req, counters>>

\* _create_outage_alert: the INSERT, then the commit.  A unique violation is
\* swallowed, and committing the aborted transaction rolls it back.
CallbackInsert ==
  /\ cb.pc = "insert"
  /\ \/ /\ ~AlertFound(cb.s)
        /\ alerts' = [alerts EXCEPT ![cb.s].active = @ + 1]
        /\ CallbackCommits(cb.pumps)
     \/ /\ AlertFound(cb.s)
        /\ cb' = CbIdle
        /\ UNCHANGED <<status, alerts, histories>>
  /\ UNCHANGED <<hours, job, req, counters>>

\* The transaction fails; the event is lost with it.
CallbackFails ==
  /\ cb.pc # "idle"
  /\ TransactionFails
  /\ cb' = CbIdle
  /\ UNCHANGED <<status, alerts, hours, job, req, events, requests, revivals,
                 histories>>

-----------------------------------------------------------------------------
(***************************************************************************)
(* The timeout thread: evaluate_timeouts.  Everything it decides follows   *)
(* from the rows and the time at its start.                                *)
(***************************************************************************)

\* Mutant: closed stations are passed over.
JobSkipsClosed(r, d) == d.conn # "OFFLINE" \/ r.op = "CLOSED"

JobSkips(r, d) ==
  \/ d.conn # "OFFLINE"
  \/ r.conn = "OFFLINE" /\ r.op = d.op

JobPlan(s) ==
  LET d == HeartbeatTimeout(alive[s], hours[s], row[s].op)
  IN  IF JobSkips(row[s], d) THEN None ELSE d

JobStart ==
  /\ job.pc = "idle"
  /\ \E s \in Stations : JobPlan(s) # None   \* a pass without one changes nothing
  /\ job' = [JobIdle EXCEPT !.pc = "scan",
               !.read = [s \in Stations |-> StatusOf(row[s])],
               !.plan = [s \in Stations |-> JobPlan(s)],
               !.todo = {s \in Stations : JobPlan(s) # None}]
  /\ UNCHANGED <<status, alerts, hours, cb, req, counters, histories>>

\* The next station of the result set, in no particular order.
JobStation(s) ==
  LET alert == job.plan[s].alert IN
  /\ job.pc = "scan" /\ s \in job.todo
  /\ ~CallbackLocks(s)
  /\ job' = [job EXCEPT
               !.todo = @ \ {s}, !.pumps[s] = Existing(s),
               !.pc = IF alert THEN "alert" ELSE "scan",
               !.at = IF alert THEN s ELSE None,
               !.calls = IF alert THEN 2 ELSE 0]
  /\ UNCHANGED <<status, alerts, hours, cb, req, counters, histories>>

\* _create_outage_alert runs twice, from _apply and from evaluate_timeouts.
AlertCallDone(raised) ==
  [job EXCEPT !.raised = raised, !.calls = @ - 1,
     !.pc = IF job.calls = 1 THEN "scan" ELSE "alert",
     !.at = IF job.calls = 1 THEN None ELSE @]

JobSelect ==
  /\ job.pc = "alert"
  /\ job' = IF AlertFound(job.at) \/ job.at \in job.raised
            THEN AlertCallDone(job.raised)
            ELSE [job EXCEPT !.pc = "insert"]
  /\ closing' = closing \ {job.at}
  /\ UNCHANGED <<status, alerts, hours, cb, req, counters, diverged, answered>>

JobInsert ==
  /\ job.pc = "insert"
  /\ \/ /\ ~AlertFound(job.at)
        /\ job' = AlertCallDone(job.raised \cup {job.at})
        /\ UNCHANGED closing
     \/ /\ AlertFound(job.at)
        /\ job' = JobIdle /\ closing' = {}
  /\ UNCHANGED <<status, alerts, hours, cb, req, counters, diverged, answered>>

Written == {s \in Stations : JobLocks(s)}

JobCommit ==
  LET After(f, New(_)) ==
        [s \in Stations |-> IF s \in Written THEN New(s) ELSE f[s]]
      RowOf(s)  == NewStatus(job.plan[s])
      PumpOf(s) == NewPump(s, job.plan[s], job.pumps[s])
      TipOf(s)  == NewTip(s, job.plan[s], job.read[s])
  IN
  /\ job.pc = "scan" /\ job.todo = {}
  /\ row' = After(row, RowOf)
  /\ pump' = After(pump, PumpOf)
  /\ tip' = After(tip, TipOf)
  /\ alerts' = [s \in Stations |-> IF s \in job.raised
                  THEN [alerts[s] EXCEPT !.active = @ + 1] ELSE alerts[s]]
  /\ diverged' = (diverged \ Written)
       \cup {s \in Written : Diverges(s, job.read[s], job.plan[s])}
  /\ answered' = (answered \ Written) \cup (closing \cap Written)
  /\ job' = JobIdle /\ closing' = {}
  /\ UNCHANGED <<alive, hours, cb, req, counters>>

\* One failing statement takes every station of the pass along.
JobFails ==
  /\ job.pc # "idle"
  /\ TransactionFails
  /\ job' = JobIdle /\ closing' = {}
  /\ UNCHANGED <<status, alerts, hours, cb, req, events, requests, revivals,
                 diverged, answered>>

-----------------------------------------------------------------------------
(***************************************************************************)
(* The operator: a manual close (manually_close_station), the station form *)
(* (admin_update_station), a new pump, and the outage alert resolved or    *)
(* dismissed, and made active again.                                       *)
(***************************************************************************)
Request(s, form) ==
  /\ req.s = None
  /\ requests < MaxRequests
  /\ requests' = requests + 1
  /\ req' = [s |-> s, row |-> row[s], pump |-> pump[s], form |-> form]
  /\ UNCHANGED <<status, alerts, hours, cb, job, events, revivals, failures,
                 histories>>

ReadClose(s) == Request(s, None)

\* Every save of the form sends the status the page shows.  A station is created
\* with the status of a form, too: one of status UNKNOWN that is saved at once.
ReadSave(s) == \E form \in Forms : Request(s, form)

\* The ORM writes the columns whose value differs from the one it loaded.
Flushed(loaded, new, stored) == IF new = loaded THEN stored ELSE new

\* History: somebody else wrote what the close had loaded.
CloseOutdated(s) ==
  \/ Differs(req.row, row[s])
  \/ \E p \in Pumps : pump[s][p] \notin {req.pump[p], "UNKNOWN"}

CommitClose ==
  LET s == req.s IN
  /\ s # None /\ req.form = None
  /\ ~CallbackLocks(s) /\ ~JobLocks(s)
  /\ row' = [row EXCEPT
       ![s].op = Flushed(req.row.op, ManualClose.op, @),
       ![s].source = Flushed(req.row.source, ManualClose.source, @)]
  /\ pump' = [pump EXCEPT ![s] = [p \in Pumps |->
       IF req.pump[p] = None THEN @[p]
       ELSE Flushed(req.pump[p], ManualClose.pump, @[p])]]
  /\ tip' = [tip EXCEPT ![s] = [op |-> ManualClose.op, conn |-> req.row.conn]]
  /\ diverged' = IF CloseOutdated(s) THEN diverged \cup {s} ELSE diverged \ {s}
  /\ req' = ReqIdle
  /\ UNCHANGED <<alerts, alive, hours, cb, job, counters, answered, closing>>

\* No history row, no word to the pumps, and the source stays what it was.
CommitSave ==
  LET s == req.s IN
  /\ s # None /\ req.form # None
  /\ ~CallbackLocks(s) /\ ~JobLocks(s)
  /\ row' = [row EXCEPT
       ![s].op = Flushed(req.row.op, req.form.op, @),
       ![s].conn = Flushed(req.row.conn, req.form.conn, @)]
  /\ diverged' = IF Differs(row'[s], row[s]) THEN diverged \cup {s} ELSE diverged
  /\ req' = ReqIdle
  /\ UNCHANGED <<pump, tip, alerts, alive, hours, cb, job, counters, answered,
                 closing>>

\* A pump is created (or copied) without a state, whatever its station's.
CreatePump(s, p) ==
  /\ pump[s][p] = None
  /\ pump' = [pump EXCEPT ![s][p] = "UNKNOWN"]
  /\ UNCHANGED <<row, tip, alive, alerts, hours, cb, job, req, counters, histories>>

ResolveAlert(s) ==
  /\ alerts[s].active > 0
  /\ alerts' = [alerts EXCEPT ![s].active = @ - 1, ![s].closed = @ + 1]
  /\ answered' = IF row[s].source = "INFERRED" THEN answered \cup {s} ELSE answered
  /\ closing' = IF JobLocks(s) THEN closing \cup {s} ELSE closing
  /\ UNCHANGED <<status, hours, cb, job, req, counters, diverged>>

\* A closed alert becomes active when it is reopened and also when it is
\* acknowledged, for no status is checked.  The unique index refuses a second
\* active alert, or waits for one that is not committed yet.
ReviveAlert(s) ==
  /\ alerts[s].closed > 0 /\ alerts[s].active = 0 /\ s \notin job.raised
  /\ failures + revivals < MaxFaults
  /\ revivals' = revivals + 1
  /\ alerts' = [alerts EXCEPT ![s].active = @ + 1, ![s].closed = @ - 1]
  /\ UNCHANGED <<status, hours, cb, job, req, events, requests, failures,
                 histories>>

-----------------------------------------------------------------------------
(***************************************************************************)
(* Time: the heartbeat timeout passes, operating hours begin and end.      *)
(***************************************************************************)
Expire(s) ==
  /\ alive[s]
  /\ alive' = [alive EXCEPT ![s] = FALSE]
  /\ UNCHANGED <<row, pump, tip, alerts, hours, cb, job, req, counters, histories>>

HoursChange(s) ==
  /\ hours' = [hours EXCEPT ![s] = ~@]
  /\ UNCHANGED <<status, alerts, cb, job, req, counters, histories>>

CallbackNext ==
  \/ \E s \in Stations, m \in Messages : Receive(s, m)
  \/ CallbackUpdate \/ CallbackInsert \/ CallbackFails

JobNext ==
  \/ JobStart \/ (\E s \in Stations : JobStation(s)) \/ JobSelect
  \/ JobInsert \/ JobCommit \/ JobFails

OperatorNext ==
  \/ \E s \in Stations : ReadClose(s) \/ ReadSave(s)
  \/ CommitClose \/ CommitSave
  \/ \E s \in Stations, p \in Pumps : CreatePump(s, p)
  \/ \E s \in Stations : ResolveAlert(s) \/ ReviveAlert(s)

TimeNext == \E s \in Stations : Expire(s) \/ HoursChange(s)

Next == CallbackNext \/ JobNext \/ OperatorNext \/ TimeNext

Spec == Init /\ [][Next]_vars

\* Both consumer threads keep running, and heartbeats grow old.
Fairness ==
  /\ WF_vars(CallbackUpdate \/ CallbackInsert)
  /\ WF_vars(JobNext)
  /\ \A s \in Stations : WF_vars(Expire(s))

FairSpec == Spec /\ Fairness
-----------------------------------------------------------------------------
(***************************************************************************)
(* Properties.                                                             *)
(***************************************************************************)

\* A station's three records agree, whoever wrote it last, in whatever order: the
\* latest history row is the state of the row, and no pump of a closed station is
\* in another state than powered off, unless it was never told one.  Excepted are
\* stations a save of the form or an outdated write changed unrecorded, until the
\* next write that records (diverged).
RecordsAgree ==
  \A s \in Stations : s \notin diverged =>
    /\ ~Differs(tip[s], row[s])
    /\ row[s].op = "CLOSED" =>
         \A p \in Pumps : pump[s][p] \in {"POWERED_OFF", "UNKNOWN", None}

\* A timeout during operating hours never goes without an alert, although the
\* alert is looked up, inserted and committed in separate steps: the outage the
\* timeout wrote last has an active alert, or an operator closed one since that
\* outage looked for it.  An alert closed before counts for nothing.
OutageHasAlert ==
  \A s \in Stations :
    row[s].source = "INFERRED" /\ row[s].conn = "OFFLINE" =>
      alerts[s].active > 0 \/ s \in answered

\* The two threads never collide on the alert index by themselves, for the lock
\* on the station row serialises them: an INSERT that is bound to fail (and to
\* roll the whole transaction back) needs an operator who reopened or
\* acknowledged a closed alert.
ConflictNeedsRevival ==
  \/ cb.pc = "insert" /\ AlertFound(cb.s)
  \/ job.pc = "insert" /\ AlertFound(job.at)
  => revivals > 0

\* A silent station ends up OFFLINE for good, whatever else is going on.
SilentGoesOffline ==
  \A s \in Stations : <>[](row[s].conn = "OFFLINE")

-----------------------------------------------------------------------------
(***************************************************************************)
(* What the documentation says and the code does not do.                   *)
(***************************************************************************)

\* status_service.py: "Mark stations offline when heartbeat timed out."  The
\* timeout thread would mark no station whose heartbeat is fresh.
OnlyTimedOutGoOffline ==
  [][JobCommit => \A s \in Written : ~alive[s]]_vars

\* docs/station-status-mqtt.md: "Unexpected Pi/broker loss during hours" is
\* OPEN + OFFLINE + outage alert.  Heartbeats are bounded, so a station heard
\* from in its hours is lost in its hours unless they end first; where neither a
\* message nor an operator ever says CLOSED, and no write rested on an outdated
\* read, it would become OPEN and OFFLINE.
LossDuringHoursIsOpen ==
  \A s \in Stations :
    (alive[s] /\ hours[s]) ~>
      \/ ~hours[s] \/ s \in diverged
      \/ row[s].op = "OPEN" /\ row[s].conn = "OFFLINE"
           /\ alerts[s].active + alerts[s].closed > 0
=============================================================================
