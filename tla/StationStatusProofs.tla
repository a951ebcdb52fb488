------------------------ MODULE StationStatusProofs ------------------------
(***************************************************************************)
(* Theorems about StationStatus, for every set of stations and messages    *)
(* and every bound.                                                        *)
(***************************************************************************)
EXTENDS StationStatus, TLAPS

\* What the callback decides, as its invariants need it: no inferred outage,
\* and pumps left alone only at a station whose state is left alone.
Reported(d, current) ==
  /\ d \in Decisions
  /\ d.source = "REPORTED"
  /\ d.op = "CLOSED" =>
       (d.pump = "POWERED_OFF" \/ (d.pump = None /\ current = "CLOSED"))

\* What the timeout thread decides: a change, recorded in full, and an alert for
\* an outage it infers.
Planned(d, read) ==
  /\ d \in Decisions
  /\ Recorded(read, d)
  /\ d.source = "INFERRED" => d.alert = TRUE

\* The callback between its SELECT and its commit.
CallbackInv ==
  /\ cb.pc # "idle" =>
       cb.s \in Stations /\ cb.prev \in Tips /\ Reported(cb.plan, cb.prev.op)
  /\ cb.pc = "idle" => cb.s = None

\* The row locks are exclusive.
LockInv == \A s \in Stations : ~(CallbackLocks(s) /\ JobLocks(s))

\* While a row is locked, the pumps its writer has not reached are new.
NewBut(s, reached) ==
  \A p \in Pumps \ reached : pump[s][p] \in {"UNKNOWN", None}

ReachInv ==
  \A s \in Stations :
    /\ CallbackLocks(s) => NewBut(s, cb.pumps)
    /\ JobLocks(s) => NewBut(s, job.pumps[s])

\* The alert of a station is there, or closed since it was looked for.
Cared(s, closed) == alerts[s].active > 0 \/ s \in closed

\* What the job holds of the stations it has decided on, and the alert calls it
\* still owes.
JobInv ==
  /\ job.raised \subseteq Written
  /\ job.pc \in {"alert", "insert"} =>
       job.at \in Written /\ job.calls \in {1, 2}
  /\ job.pc = "insert" => job.at \notin job.raised
  /\ job.pc = "idle" => Written = {}
  /\ \A s \in job.todo : job.plan[s] # None
  /\ \A s \in Stations : job.plan[s] # None => Planned(job.plan[s], job.read[s])
  /\ \A s \in Written : job.plan[s].source = "INFERRED" =>
       \/ job.at = s /\ (job.pc = "insert" \/ (job.pc = "alert" /\ job.calls = 2))
       \/ s \in job.raised
       \/ Cared(s, closing)

ReqInv ==
  req.s # None => req.row \in Rows /\ req.pump \in Pumped

\* OutageHasAlert, whatever the form made of the connectivity since.
OutageInv ==
  \A s \in Stations : row[s].source = "INFERRED" => Cared(s, answered)

IInv ==
  /\ TypeOK
  /\ CallbackInv
  /\ LockInv
  /\ ReachInv
  /\ JobInv
  /\ ReqInv
  /\ RecordsAgree
  /\ OutageInv
  /\ ConflictNeedsRevival

-----------------------------------------------------------------------------
(***************************************************************************)
(* What the rules decide.                                                  *)
(***************************************************************************)

\* The states and sources the rules name.
LEMMA RuleConstants ==
  /\ {"OPEN", "CLOSED", "UNKNOWN"} \subseteq Operational
  /\ {"ONLINE", "OFFLINE", "DEGRADED", "UNKNOWN"} \subseteq Connectivity
  /\ {"REPORTED", "SCHEDULED", "MANUAL", "INFERRED"} \subseteq Sources
  /\ {"POWERED_OFF", "OFFLINE", "IDLE"} \subseteq PumpStates
  /\ TRUE \in BOOLEAN /\ FALSE \in BOOLEAN
BY DEF Operational, Connectivity, Sources, PumpStates

\* A silent station is OFFLINE; it is CLOSED only with its pumps off, and an
\* inferred outage asks for an alert.
LEMMA TimeoutFacts ==
  ASSUME NEW up \in BOOLEAN, NEW within \in BOOLEAN, NEW op \in Operational
  PROVE  /\ HeartbeatTimeout(up, within, op) \in Decisions
         /\ (HeartbeatTimeout(up, within, op).conn = "OFFLINE") = ~up
         /\ ~up /\ HeartbeatTimeout(up, within, op).op = "CLOSED" =>
              HeartbeatTimeout(up, within, op).pump = "POWERED_OFF"
         /\ ~up /\ HeartbeatTimeout(up, within, op).source = "INFERRED" =>
              HeartbeatTimeout(up, within, op).alert = TRUE
<1>1. CASE up
  <2>1. HeartbeatTimeout(up, within, op)
          = Decide(op, "ONLINE", "INFERRED", FALSE, None)
    BY <1>1 DEF HeartbeatTimeout
  <2>2. "ONLINE" \in Connectivity /\ "INFERRED" \in Sources /\ FALSE \in BOOLEAN
    BY RuleConstants
  <2>3. /\ Decide(op, "ONLINE", "INFERRED", FALSE, None) \in Decisions
        /\ Decide(op, "ONLINE", "INFERRED", FALSE, None).conn = "ONLINE"
    BY <2>2 DEF Decide, Decisions
  <2>. QED
    BY <1>1, <2>1, <2>3
<1>2. CASE ~up /\ (op = "CLOSED" \/ ~within)
  <2>1. PICK source \in {"REPORTED", "SCHEDULED"} :
          HeartbeatTimeout(up, within, op)
            = Decide("CLOSED", "OFFLINE", source, FALSE, "POWERED_OFF")
    BY <1>2 DEF HeartbeatTimeout
  <2>2. /\ "CLOSED" \in Operational /\ "OFFLINE" \in Connectivity
        /\ source \in Sources /\ "POWERED_OFF" \in PumpStates \cup {None}
        /\ FALSE \in BOOLEAN
    BY RuleConstants
  <2>3. /\ Decide("CLOSED", "OFFLINE", source, FALSE, "POWERED_OFF") \in Decisions
        /\ Decide("CLOSED", "OFFLINE", source, FALSE, "POWERED_OFF").conn = "OFFLINE"
        /\ Decide("CLOSED", "OFFLINE", source, FALSE, "POWERED_OFF").source = source
        /\ Decide("CLOSED", "OFFLINE", source, FALSE, "POWERED_OFF").pump = "POWERED_OFF"
    BY <2>2 DEF Decide, Decisions
  <2>. QED
    BY <1>2, <2>1, <2>3
<1>3. CASE ~up /\ op # "CLOSED" /\ within
  <2>1. HeartbeatTimeout(up, within, op)
          = Decide("OPEN", "OFFLINE", "INFERRED", TRUE, "OFFLINE")
    BY <1>3 DEF HeartbeatTimeout
  <2>2. /\ "OPEN" \in Operational /\ "OFFLINE" \in Connectivity
        /\ "INFERRED" \in Sources /\ "OFFLINE" \in PumpStates \cup {None}
        /\ TRUE \in BOOLEAN
    BY RuleConstants
  <2>3. /\ Decide("OPEN", "OFFLINE", "INFERRED", TRUE, "OFFLINE") \in Decisions
        /\ Decide("OPEN", "OFFLINE", "INFERRED", TRUE, "OFFLINE").op = "OPEN"
        /\ Decide("OPEN", "OFFLINE", "INFERRED", TRUE, "OFFLINE").conn = "OFFLINE"
        /\ Decide("OPEN", "OFFLINE", "INFERRED", TRUE, "OFFLINE").alert = TRUE
    BY <2>2 DEF Decide, Decisions
  <2>. QED
    BY <1>3, <2>1, <2>3
<1>. QED
  BY <1>1, <1>2, <1>3

\* A status message decides so.
LEMMA MessageFacts ==
  ASSUME NEW op \in Operational, NEW device \in Connectivity \cup {None},
         NEW mqtt, NEW serial, NEW power, NEW current
  PROVE  Reported(FromStatusMessage(op, device, mqtt, serial, power), current)
<1>1. PICK conn \in Connectivity : conn = ReportedLink(op, device, mqtt, serial)
  BY DEF ReportedLink, Connectivity
<1>2. PICK pmp \in PumpStates \cup {None} : pmp = ReportedPump(op, conn, power)
  BY DEF ReportedPump, PumpStates
<1>3. op = "CLOSED" => pmp = "POWERED_OFF"
  BY <1>2 DEF ReportedPump
<1>4. FromStatusMessage(op, device, mqtt, serial, power)
        = Decide(op, conn, "REPORTED", FALSE, pmp)
  BY <1>1, <1>2 DEF FromStatusMessage
<1>5. "REPORTED" \in Sources /\ FALSE \in BOOLEAN
  BY RuleConstants
<1>6. /\ Decide(op, conn, "REPORTED", FALSE, pmp) \in Decisions
      /\ Decide(op, conn, "REPORTED", FALSE, pmp).op = op
      /\ Decide(op, conn, "REPORTED", FALSE, pmp).source = "REPORTED"
      /\ Decide(op, conn, "REPORTED", FALSE, pmp).pump = pmp
  BY <1>5 DEF Decide, Decisions
<1>. QED
  BY <1>3, <1>4, <1>6 DEF Reported

\* So does a connectivity message.
LEMMA ConnectivityFacts ==
  ASSUME NEW device, NEW within \in BOOLEAN, NEW current \in Operational
  PROVE  Reported(FromConnectivity(device, within, current), current)
<1>1. CASE device = "OFFLINE"
  <2>1. PICK d \in Decisions : d = HeartbeatTimeout(FALSE, within, current)
    BY TimeoutFacts, RuleConstants
  <2>2. d.op = "CLOSED" => d.pump = "POWERED_OFF"
    BY <2>1, TimeoutFacts, RuleConstants
  <2>3. FromConnectivity(device, within, current)
          = [d EXCEPT !.source = "REPORTED"]
    BY <1>1, <2>1 DEF FromConnectivity
  <2>4. /\ [d EXCEPT !.source = "REPORTED"] \in Decisions
        /\ [d EXCEPT !.source = "REPORTED"].source = "REPORTED"
        /\ [d EXCEPT !.source = "REPORTED"].op = d.op
        /\ [d EXCEPT !.source = "REPORTED"].pump = d.pump
    BY DEF Decisions, Sources
  <2>. QED
    BY <2>2, <2>3, <2>4 DEF Reported
<1>2. CASE device # "OFFLINE"
  <2>1. FromConnectivity(device, within, current)
          = Decide(current, "ONLINE", "REPORTED", FALSE, None)
    BY <1>2 DEF FromConnectivity
  <2>2. /\ "ONLINE" \in Connectivity /\ "REPORTED" \in Sources
        /\ FALSE \in BOOLEAN
    BY RuleConstants
  <2>3. /\ Decide(current, "ONLINE", "REPORTED", FALSE, None) \in Decisions
        /\ Decide(current, "ONLINE", "REPORTED", FALSE, None).op = current
        /\ Decide(current, "ONLINE", "REPORTED", FALSE, None).source = "REPORTED"
        /\ Decide(current, "ONLINE", "REPORTED", FALSE, None).pump = None
    BY <2>2 DEF Decide, Decisions
  <2>. QED
    BY <2>1, <2>3 DEF Reported
<1>. QED
  BY <1>1, <1>2

\* So does every event of the callback.
LEMMA EventFacts ==
  ASSUME NEW m \in Messages, NEW prev \in Tips, NEW within \in BOOLEAN
  PROVE  Reported(EventDecision(m, prev, within), prev.op)
<1>1. /\ m.kind \in {"heartbeat", "status", "connectivity"}
      /\ m.op \in Operational \cup {None}
      /\ m.conn \in Connectivity \cup {None}
  BY MessagesAssumption DEF MessageType
<1>2. prev.op \in Operational
  BY DEF Tips
<1>3. CASE m.kind = "heartbeat"
  <2>1. Or(m.op, prev.op) \in Operational
    BY <1>1, <1>2 DEF Or
  <2>2. Or(m.conn, "ONLINE") \in Connectivity \cup {None}
    BY <1>1 DEF Or, Connectivity
  <2>3. EventDecision(m, prev, within)
          = FromStatusMessage(Or(m.op, prev.op), Or(m.conn, "ONLINE"), m.mqtt,
                              m.serial, m.power)
    BY <1>3 DEF EventDecision
  <2>. QED
    BY <2>1, <2>2, <2>3, MessageFacts
<1>4. CASE m.kind = "status"
  <2>1. Or(m.op, "UNKNOWN") \in Operational
    BY <1>1 DEF Or, Operational
  <2>2. EventDecision(m, prev, within)
          = FromStatusMessage(Or(m.op, "UNKNOWN"), m.conn, m.mqtt, m.serial,
                              m.power)
    BY <1>4 DEF EventDecision
  <2>. QED
    BY <1>1, <2>1, <2>2, MessageFacts
<1>5. CASE m.kind = "connectivity"
  <2>1. EventDecision(m, prev, within)
          = FromConnectivity(m.conn, within, prev.op)
    BY <1>5 DEF EventDecision
  <2>. QED
    BY <1>2, <2>1, ConnectivityFacts
<1>. QED
  BY <1>1, <1>3, <1>4, <1>5

\* What the timeout pass plans for a station.
LEMMA PlanFacts ==
  ASSUME TypeOK, NEW s \in Stations
  PROVE  /\ JobPlan(s) \in Decisions \cup {None}
         /\ JobPlan(s) # None => Planned(JobPlan(s), StatusOf(row[s]))
<1>1. /\ alive[s] \in BOOLEAN /\ hours[s] \in BOOLEAN
      /\ row[s].op \in Operational
  BY DEF TypeOK, Rows
<1>2. PICK d \in Decisions : d = HeartbeatTimeout(alive[s], hours[s], row[s].op)
  BY <1>1, TimeoutFacts
<1>3. JobPlan(s) \in {d, None}
  BY <1>2 DEF JobPlan
<1>4. ASSUME JobPlan(s) # None
      PROVE  Planned(d, StatusOf(row[s])) /\ JobPlan(s) = d
  <2>1. JobPlan(s) = d /\ ~JobSkips(row[s], d)
    BY <1>2, <1>4 DEF JobPlan
  <2>2. d.conn = "OFFLINE" /\ (row[s].conn # "OFFLINE" \/ row[s].op # d.op)
    BY <2>1 DEF JobSkips
  <2>3. ~alive[s]
    BY <1>1, <1>2, <2>2, TimeoutFacts
  <2>4. /\ d.op = "CLOSED" => d.pump = "POWERED_OFF"
        /\ d.source = "INFERRED" => d.alert = TRUE
    BY <1>1, <1>2, <2>3, TimeoutFacts
  <2>5. Recorded(StatusOf(row[s]), d)
    BY <2>2, <2>4 DEF Recorded, Differs, StatusOf
  <2>. QED
    BY <2>1, <2>4, <2>5 DEF Planned
<1>. QED
  BY <1>3, <1>4

-----------------------------------------------------------------------------
(***************************************************************************)
(* Types.                                                                  *)
(***************************************************************************)

\* What a decision writes has the type of the columns.
LEMMA WriteType ==
  ASSUME TypeOK, NEW d \in Decisions, NEW s \in Stations, NEW prev, NEW reached
  PROVE  /\ NewStatus(d) \in Rows
         /\ NewPump(s, d, reached) \in Pumped
         /\ NewTip(s, d, prev) \in Tips
<1>1. /\ d.op \in Operational /\ d.conn \in Connectivity /\ d.source \in Sources
      /\ d.pump \in PumpStates \cup {None}
  BY DEF Decisions
<1>2. NewPump(s, d, reached) \in Pumped
  <2>1. pump[s] \in [Pumps -> PumpStates \cup {None}]
    BY DEF TypeOK, Pumped
  <2>. QED
    BY <1>1, <2>1 DEF NewPump, Pumped
<1>3. StatusOf(d) \in Tips
  BY <1>1 DEF StatusOf, Tips
<1>4. NewTip(s, d, prev) \in Tips
  BY <1>3 DEF TypeOK, NewTip
<1>5. NewStatus(d) \in Rows
  BY <1>1 DEF NewStatus, Rows
<1>. QED
  BY <1>2, <1>4, <1>5

\* What is read of a row.
LEMMA StatusType ==
  ASSUME NEW r \in Rows
  PROVE  StatusOf(r) \in Tips
BY DEF StatusOf, Rows, Tips

\* A record of the job when it is idle.
LEMMA IdleType ==
  /\ NewRow \in Rows
  /\ JobIdle \in JobType
  /\ CbIdle \in CallbackType
  /\ ReqIdle \in RequestType
<1>1. "UNKNOWN" \in Operational /\ "UNKNOWN" \in Connectivity
  BY DEF Operational, Connectivity
<1>2. NewRow \in Rows
  BY <1>1 DEF NewRow, Rows
<1>3. StatusOf(NewRow) \in Tips
  BY <1>2, StatusType
<1>4. JobIdle \in JobType
  BY <1>3 DEF JobIdle, JobType
<1>. QED
  BY <1>2, <1>4 DEF CbIdle, CallbackType, ReqIdle, RequestType

\* Initially every variable has its type.
LEMMA InitType == Init => TypeOK
<1>. SUFFICES ASSUME Init PROVE TypeOK
  OBVIOUS
<1>1. row \in [Stations -> Rows] /\ tip \in [Stations -> Tips]
  <2>1. StatusOf(NewRow) \in Tips /\ NewRow \in Rows
    BY IdleType, StatusType
  <2>. QED
    BY <2>1 DEF Init
<1>2. pump \in [Stations -> Pumped]
  <2>1. [p \in Pumps |-> None] \in Pumped
    BY DEF Pumped
  <2>. QED
    BY <2>1 DEF Init
<1>. QED
  BY <1>1, <1>2, IdleType DEF Init, TypeOK

\* A commit of the callback keeps the types.
LEMMA CommitType ==
  ASSUME TypeOK, CallbackInv, cb.pc # "idle", NEW reached, CallbackCommits(reached)
  PROVE  /\ row' \in [Stations -> Rows]
         /\ pump' \in [Stations -> Pumped]
         /\ tip' \in [Stations -> Tips]
         /\ alive' \in [Stations -> BOOLEAN]
         /\ cb' \in CallbackType
         /\ {diverged', answered', closing'} \subseteq SUBSET Stations
<1>1. cb.s \in Stations /\ cb.plan \in Decisions /\ cb.beat \in BOOLEAN
  BY DEF CallbackInv, Reported, TypeOK, CallbackType
<1>2. /\ NewStatus(cb.plan) \in Rows
      /\ NewPump(cb.s, cb.plan, reached) \in Pumped
      /\ NewTip(cb.s, cb.plan, cb.prev) \in Tips
  BY <1>1, WriteType
<1>3. cb' \in CallbackType
  BY IdleType DEF CallbackCommits
<1>4. /\ row' \in [Stations -> Rows]
      /\ pump' \in [Stations -> Pumped]
      /\ tip' \in [Stations -> Tips]
  BY <1>2 DEF CallbackCommits, TypeOK
<1>5. alive' \in [Stations -> BOOLEAN]
  BY <1>1 DEF CallbackCommits, TypeOK
<1>6. {diverged', answered', closing'} \subseteq SUBSET Stations
  BY <1>1 DEF CallbackCommits, TypeOK
<1>. QED
  BY <1>3, <1>4, <1>5, <1>6

\* The callback's steps keep the types.
LEMMA CallbackTypeStep ==
  ASSUME TypeOK, CallbackInv, CallbackNext
  PROVE  TypeOK'
<1>1. ASSUME NEW s \in Stations, NEW m \in Messages, Receive(s, m)
      PROVE  TypeOK'
  <2>1. StatusOf(row[s]) \in Tips /\ hours[s] \in BOOLEAN
    BY StatusType DEF TypeOK
  <2>2. EventDecision(m, StatusOf(row[s]), hours[s]) \in Decisions
    BY <2>1, EventFacts DEF Reported
  <2>3. cb' \in CallbackType
    BY <1>1, <2>1, <2>2 DEF Receive, CallbackType
  <2>. QED
    BY <1>1, <2>3 DEF Receive, TypeOK, status, histories
<1>2. CASE CallbackUpdate
  <2>1. cb.pc = "update" /\ UNCHANGED <<alerts, hours, job, req, counters>>
    BY <1>2 DEF CallbackUpdate
  <2>2. CASE /\ cb' = [cb EXCEPT !.pc = "insert", !.pumps = Existing(cb.s)]
             /\ UNCHANGED <<status, histories>>
    <3>1. Existing(cb.s) \subseteq Pumps
      BY DEF Existing
    <3>2. cb' \in CallbackType
      BY <2>2, <3>1 DEF CallbackType, TypeOK
    <3>. QED
      BY <2>1, <2>2, <3>2 DEF TypeOK, status, counters, histories
  <2>3. CASE CallbackCommits(Existing(cb.s))
    BY <2>1, <2>3, CommitType DEF TypeOK, counters
  <2>. QED
    BY <1>2, <2>2, <2>3 DEF CallbackUpdate
<1>3. CASE CallbackInsert
  <2>1. cb.pc = "insert" /\ UNCHANGED <<hours, job, req, counters>>
    BY <1>3 DEF CallbackInsert
  <2>2. cb.s \in Stations
    BY <2>1 DEF CallbackInv
  <2>3. CASE /\ alerts' = [alerts EXCEPT ![cb.s].active = @ + 1]
             /\ CallbackCommits(cb.pumps)
    <3>1. alerts' \in [Stations -> [active : Nat, closed : Nat]]
      BY <2>2, <2>3 DEF TypeOK
    <3>. QED
      BY <2>1, <2>3, <3>1, CommitType DEF TypeOK, counters
  <2>4. CASE cb' = CbIdle /\ UNCHANGED <<status, alerts, histories>>
    BY <2>1, <2>4, IdleType DEF TypeOK, status, counters, histories
  <2>. QED
    BY <1>3, <2>3, <2>4 DEF CallbackInsert
<1>4. CASE CallbackFails
  BY <1>4, IdleType DEF CallbackFails, TransactionFails, TypeOK, status, histories
<1>. QED
  BY <1>1, <1>2, <1>3, <1>4 DEF CallbackNext

\* The job's record after a call for an alert.
LEMMA JobRecordType ==
  ASSUME TypeOK, NEW raised \in SUBSET Stations, job.calls \in {1, 2}
  PROVE  AlertCallDone(raised) \in JobType
<1>1. job \in JobType /\ job.calls - 1 \in 0 .. 2
  BY DEF TypeOK
<1>. QED
  BY <1>1 DEF AlertCallDone, JobType

\* What the job records of a station it writes.
LEMMA StationEffect ==
  ASSUME TypeOK, JobInv, NEW s \in Stations, JobStation(s)
  PROVE  /\ job.pc = "scan" /\ s \in job.todo
         /\ job'.todo = job.todo \ {s}
         /\ job'.pumps = [job.pumps EXCEPT ![s] = Existing(s)]
         /\ job'.plan = job.plan /\ job'.read = job.read
         /\ job'.raised = job.raised
         /\ job'.pc \in {"scan", "alert"}
         /\ job'.pc = "alert" => job'.at = s /\ job'.calls = 2
         /\ job.plan[s] # None /\ job.plan[s].alert = TRUE => job'.pc = "alert"
         /\ job' \in JobType
<1>1. job \in JobType /\ Existing(s) \in SUBSET Pumps
  BY DEF TypeOK, Existing
<1>2. job.pc = "scan" /\ s \in job.todo
  BY DEF JobStation
<1>3. PICK pc \in {"scan", "alert"}, at \in {s, None}, calls \in {0, 2} :
        /\ job' = [job EXCEPT !.todo = @ \ {s}, !.pumps[s] = Existing(s),
                              !.pc = pc, !.at = at, !.calls = calls]
        /\ pc = "alert" => at = s /\ calls = 2
        /\ job.plan[s].alert = TRUE => pc = "alert"
  BY DEF JobStation
<1>4. /\ job'.todo = job.todo \ {s}
      /\ job'.pumps = [job.pumps EXCEPT ![s] = Existing(s)]
      /\ job'.plan = job.plan /\ job'.read = job.read
      /\ job'.raised = job.raised
      /\ job'.pc = pc /\ job'.at = at /\ job'.calls = calls
  BY <1>1, <1>3 DEF JobType
<1>5. job' \in JobType
  <2>1. [job.pumps EXCEPT ![s] = Existing(s)] \in [Stations -> SUBSET Pumps]
    BY <1>1 DEF JobType
  <2>2. job' = [pc |-> pc, read |-> job.read, plan |-> job.plan,
                todo |-> job.todo \ {s},
                pumps |-> [job.pumps EXCEPT ![s] = Existing(s)],
                raised |-> job.raised, at |-> at, calls |-> calls]
    BY <1>1, <1>3 DEF JobType
  <2>3. /\ job.todo \ {s} \in SUBSET Stations /\ calls \in 0 .. 2
        /\ job.read \in [Stations -> Tips] /\ job.raised \in SUBSET Stations
        /\ job.plan \in [Stations -> Decisions \cup {None}]
    BY <1>1 DEF JobType
  <2>. QED
    BY <2>1, <2>2, <2>3 DEF JobType
<1>. QED
  BY <1>2, <1>3, <1>4, <1>5

\* The start of a pass.
LEMMA StartEffect ==
  ASSUME TypeOK, JobStart
  PROVE  /\ job' \in JobType
         /\ job'.pc = "scan" /\ job'.raised = {}
         /\ \A s \in Stations :
              /\ job'.read[s] = StatusOf(row[s]) /\ job'.plan[s] = JobPlan(s)
              /\ s \in job'.todo <=> job'.plan[s] # None
<1>1. job' = [JobIdle EXCEPT !.pc = "scan",
                !.read = [s \in Stations |-> StatusOf(row[s])],
                !.plan = [s \in Stations |-> JobPlan(s)],
                !.todo = {s \in Stations : JobPlan(s) # None}]
  BY DEF JobStart
<1>2. \A s \in Stations : StatusOf(row[s]) \in Tips
  BY StatusType DEF TypeOK
<1>3. \A s \in Stations : JobPlan(s) \in Decisions \cup {None}
  BY PlanFacts
<1>. QED
  BY <1>1, <1>2, <1>3, IdleType DEF JobIdle, JobType

\* The timeout thread's steps keep the types.
LEMMA JobTypeStep ==
  ASSUME TypeOK, JobInv, JobNext
  PROVE  TypeOK'
<1>1. JobIdle \in JobType
  BY IdleType
<1>2. job \in JobType
  BY DEF TypeOK
<1>3. CASE JobStart
  BY <1>3, StartEffect DEF JobStart, TypeOK, status, counters, histories
<1>4. ASSUME NEW s \in Stations, JobStation(s)
      PROVE  TypeOK'
  BY <1>4, StationEffect DEF JobStation, TypeOK, status, counters, histories
<1>5. ASSUME job.pc \in {"alert", "insert"}
      PROVE  job.at \in Stations /\ job.calls \in {1, 2}
  BY <1>5 DEF JobInv, Written
<1>6. CASE JobSelect
  <2>1. job' \in JobType
    <3>1. CASE job' = AlertCallDone(job.raised)
      BY <1>2, <1>5, <1>6, <3>1, JobRecordType DEF JobSelect, JobType
    <3>2. CASE job' = [job EXCEPT !.pc = "insert"]
      BY <1>2, <3>2 DEF JobType
    <3>. QED
      BY <1>6, <3>1, <3>2 DEF JobSelect
  <2>. QED
    BY <1>6, <2>1 DEF JobSelect, TypeOK, status, counters
<1>7. CASE JobInsert
  <2>1. job' \in JobType
    <3>1. CASE job' = AlertCallDone(job.raised \cup {job.at})
      <4>1. job.raised \cup {job.at} \in SUBSET Stations
        BY <1>2, <1>5, <1>7 DEF JobInsert, JobType
      <4>. QED
        BY <1>5, <1>7, <3>1, <4>1, JobRecordType DEF JobInsert
    <3>2. CASE job' = JobIdle
      BY <1>1, <3>2
    <3>. QED
      BY <1>7, <3>1, <3>2 DEF JobInsert
  <2>2. closing' \in {closing, {}}
    BY <1>7 DEF JobInsert
  <2>. QED
    BY <1>7, <2>1, <2>2 DEF JobInsert, TypeOK, status, counters
<1>8. CASE JobCommit
  <2>1. ASSUME NEW s \in Written
        PROVE  /\ s \in Stations
               /\ NewStatus(job.plan[s]) \in Rows
               /\ NewPump(s, job.plan[s], job.pumps[s]) \in Pumped
               /\ NewTip(s, job.plan[s], job.read[s]) \in Tips
    <3>1. s \in Stations /\ job.plan[s] \in Decisions
      BY <1>2 DEF Written, JobLocks, JobType
    <3>. QED
      BY <3>1, WriteType
  <2>2. /\ row' \in [Stations -> Rows]
        /\ pump' \in [Stations -> Pumped]
        /\ tip' \in [Stations -> Tips]
    BY <1>8, <2>1 DEF JobCommit, TypeOK
  <2>3. alerts' \in [Stations -> [active : Nat, closed : Nat]]
    BY <1>8 DEF JobCommit, TypeOK
  <2>4. {diverged', answered', closing'} \subseteq SUBSET Stations
    BY <1>8 DEF JobCommit, TypeOK, Written
  <2>. QED
    BY <1>1, <1>8, <2>2, <2>3, <2>4 DEF JobCommit, TypeOK, counters
<1>9. CASE JobFails
  BY <1>1, <1>9 DEF JobFails, TransactionFails, TypeOK, status
<1>. QED
  BY <1>3, <1>4, <1>6, <1>7, <1>8, <1>9 DEF JobNext

\* What a manual close and a save of the form write.
LEMMA RequestEffect ==
  ASSUME TypeOK, ReqInv, CommitClose \/ CommitSave
  PROVE  /\ req.s \in Stations /\ req.row \in Rows /\ req.pump \in Pumped
         /\ row[req.s] \in Rows /\ pump[req.s] \in Pumped
         /\ ManualClose.op = "CLOSED" /\ ManualClose.source = "MANUAL"
         /\ ManualClose.pump = "POWERED_OFF"
<1>1. req.s \in Stations /\ req.row \in Rows /\ req.pump \in Pumped
  BY DEF CommitClose, CommitSave, ReqInv, RequestType, TypeOK
<1>. QED
  BY <1>1 DEF TypeOK, ManualClose, Decide

\* The operator's steps, and time, keep the types.
LEMMA OperatorTypeStep ==
  ASSUME TypeOK, ReqInv, OperatorNext \/ TimeNext
  PROVE  TypeOK'
<1>1. ASSUME NEW s \in Stations, NEW form \in Tips \cup {None}, Request(s, form)
      PROVE  TypeOK'
  <2>1. req' \in RequestType
    BY <1>1 DEF Request, RequestType, TypeOK
  <2>. QED
    BY <1>1, <2>1 DEF Request, TypeOK, status, histories
<1>2. CASE CommitClose
  <2>1. /\ Flushed(req.row.op, ManualClose.op, row[req.s].op) \in Operational
        /\ Flushed(req.row.source, ManualClose.source, row[req.s].source)
             \in Sources \cup {None}
    BY <1>2, RequestEffect DEF Flushed, Rows, Operational, Sources
  <2>2. row' \in [Stations -> Rows]
    BY <1>2, <2>1 DEF CommitClose, TypeOK, Rows
  <2>3. pump' \in [Stations -> Pumped]
    <3>1. \A p \in Pumps :
            /\ pump[req.s][p] \in PumpStates \cup {None}
            /\ Flushed(req.pump[p], ManualClose.pump, pump[req.s][p])
                 \in PumpStates \cup {None}
      BY <1>2, RequestEffect DEF Flushed, Pumped, PumpStates
    <3>2. [p \in Pumps |-> IF req.pump[p] = None THEN pump[req.s][p]
             ELSE Flushed(req.pump[p], ManualClose.pump, pump[req.s][p])] \in Pumped
      BY <3>1 DEF Pumped
    <3>. QED
      BY <1>2, <3>2 DEF CommitClose, TypeOK
  <2>4. tip' \in [Stations -> Tips]
    <3>1. [op |-> ManualClose.op, conn |-> req.row.conn] \in Tips
      BY <1>2, RequestEffect DEF Rows, Tips, Operational
    <3>. QED
      BY <1>2, <3>1 DEF CommitClose, TypeOK
  <2>5. diverged' \in {diverged \cup {req.s}, diverged \ {req.s}}
    BY <1>2 DEF CommitClose
  <2>. QED
    BY <1>2, <2>2, <2>3, <2>4, <2>5, RequestEffect, IdleType
       DEF CommitClose, TypeOK, counters
<1>3. CASE CommitSave
  <2>1. req.form \in Tips
    BY <1>3 DEF CommitSave, TypeOK, RequestType
  <2>2. /\ Flushed(req.row.op, req.form.op, row[req.s].op) \in Operational
        /\ Flushed(req.row.conn, req.form.conn, row[req.s].conn) \in Connectivity
    BY <1>3, <2>1, RequestEffect DEF Flushed, Rows, Tips
  <2>3. row' \in [Stations -> Rows]
    BY <1>3, <2>2 DEF CommitSave, TypeOK, Rows
  <2>4. diverged' \in {diverged \cup {req.s}, diverged}
    BY <1>3 DEF CommitSave
  <2>. QED
    BY <1>3, <2>3, <2>4, RequestEffect, IdleType DEF CommitSave, TypeOK, counters
<1>4. ASSUME NEW s \in Stations, NEW p \in Pumps, CreatePump(s, p)
      PROVE  TypeOK'
  <2>1. "UNKNOWN" \in PumpStates
    BY DEF PumpStates
  <2>2. pump' \in [Stations -> Pumped]
    BY <1>4, <2>1 DEF CreatePump, TypeOK, Pumped
  <2>. QED
    BY <1>4, <2>2 DEF CreatePump, TypeOK, counters, histories
<1>5. ASSUME NEW s \in Stations, ResolveAlert(s) \/ ReviveAlert(s)
      PROVE  TypeOK'
  <2>1. alerts' \in [Stations -> [active : Nat, closed : Nat]]
    BY <1>5 DEF ResolveAlert, ReviveAlert, TypeOK
  <2>2. {events', requests', revivals', failures'} \subseteq Nat
    BY <1>5 DEF ResolveAlert, ReviveAlert, TypeOK, counters
  <2>3. {diverged', answered', closing'} \subseteq SUBSET Stations
    BY <1>5 DEF ResolveAlert, ReviveAlert, TypeOK, histories
  <2>. QED
    BY <1>5, <2>1, <2>2, <2>3 DEF ResolveAlert, ReviveAlert, TypeOK, status
<1>6. CASE TimeNext
  BY <1>6 DEF TimeNext, Expire, HoursChange, TypeOK, status, counters, histories
<1>7. \A form \in Forms : form \in Tips
  BY FormsAssumption DEF Tips
<1>. QED
  BY <1>1, <1>2, <1>3, <1>4, <1>5, <1>6, <1>7 DEF OperatorNext, ReadClose, ReadSave

\* Every step keeps the types.
LEMMA NextType ==
  ASSUME TypeOK, CallbackInv, JobInv, ReqInv, [Next]_vars
  PROVE  TypeOK'
<1>1. CASE UNCHANGED vars
  BY <1>1 DEF vars, status, counters, histories, TypeOK
<1>. QED
  BY <1>1, CallbackTypeStep, JobTypeStep, OperatorTypeStep DEF Next

-----------------------------------------------------------------------------
(***************************************************************************)
(* The transactions.                                                       *)
(***************************************************************************)

\* What each actor leaves alone.
LEMMA Frames ==
  /\ CallbackNext => UNCHANGED <<job, req, hours, requests, revivals, closing>>
  /\ JobNext => UNCHANGED <<cb, req, hours, alive, events, requests, revivals>>
  /\ OperatorNext => UNCHANGED <<cb, job, hours, alive, events, failures>>
  /\ TimeNext => UNCHANGED <<row, pump, tip, alerts, cb, job, req, counters, histories>>
<1>1. CallbackNext => UNCHANGED <<job, req, hours, requests, revivals, closing>>
  BY DEF CallbackNext, Receive, CallbackUpdate, CallbackInsert, CallbackFails,
     CallbackCommits, counters, histories
<1>2. JobNext => UNCHANGED <<cb, req, hours, alive, events, requests, revivals>>
  BY DEF JobNext, JobStart, JobStation, JobSelect, JobInsert, JobCommit, JobFails,
     status, counters
<1>3. OperatorNext => UNCHANGED <<cb, job, hours, alive, events, failures>>
  BY DEF OperatorNext, ReadClose, ReadSave, Request, CommitClose, CommitSave,
     CreatePump, ResolveAlert, ReviveAlert, status, counters
<1>4. TimeNext => UNCHANGED <<row, pump, tip, alerts, cb, job, req, counters, histories>>
  BY DEF TimeNext, Expire, HoursChange, status
<1>. QED
  BY <1>1, <1>2, <1>3, <1>4

\* What the callback and the request hold of the rows they have read.
LEMMA SessionStep ==
  ASSUME IInv, [Next]_vars
  PROVE  CallbackInv' /\ ReqInv'
<1>1. TypeOK /\ CallbackInv /\ ReqInv
  BY DEF IInv
<1>2. CallbackInv'
  <2>1. ASSUME NEW s \in Stations, NEW m \in Messages, Receive(s, m)
        PROVE  CallbackInv'
    <3>1. StatusOf(row[s]) \in Tips /\ hours[s] \in BOOLEAN
      BY <1>1, StatusType DEF TypeOK
    <3>2. Reported(EventDecision(m, StatusOf(row[s]), hours[s]), StatusOf(row[s]).op)
      BY <3>1, EventFacts
    <3>. QED
      BY <2>1, <3>1, <3>2 DEF Receive, CallbackInv
  <2>2. CASE cb' = [cb EXCEPT !.pc = "insert", !.pumps = Existing(cb.s)]
               /\ cb.pc = "update"
    BY <1>1, <2>2 DEF CallbackInv, TypeOK, CallbackType
  <2>3. CASE cb' = CbIdle
    BY <2>3 DEF CallbackInv, CbIdle
  <2>4. CASE UNCHANGED cb
    BY <1>1, <2>4 DEF CallbackInv
  <2>. QED
    BY <2>1, <2>2, <2>3, <2>4, Frames DEF Next, CallbackNext, CallbackUpdate,
       CallbackInsert, CallbackFails, CallbackCommits, vars
<1>3. ReqInv'
  <2>1. ASSUME NEW s \in Stations, NEW form, Request(s, form)
        PROVE  ReqInv'
    BY <1>1, <2>1 DEF Request, ReqInv, TypeOK
  <2>2. CASE req' = ReqIdle
    BY <2>2 DEF ReqInv, ReqIdle
  <2>3. CASE UNCHANGED req
    BY <1>1, <2>3 DEF ReqInv
  <2>. QED
    BY <2>1, <2>2, <2>3, Frames DEF Next, OperatorNext, ReadClose, ReadSave,
       CommitClose, CommitSave, CreatePump, ResolveAlert, ReviveAlert, vars
<1>. QED
  BY <1>2, <1>3

\* An active alert stays active, unless an operator closes it.
LEMMA AlertsStay ==
  ASSUME IInv, [Next]_vars, NEW s \in Stations, alerts[s].active > 0
  PROVE  alerts'[s].active > 0 \/ ResolveAlert(s)
<1>1. /\ alerts \in [Stations -> [active : Nat, closed : Nat]]
      /\ alerts[s].active \in Nat
  BY DEF IInv, TypeOK
<1>2. CASE UNCHANGED alerts
  BY <1>2
<1>3. CASE alerts' = [alerts EXCEPT ![cb.s].active = @ + 1]
  BY <1>1, <1>3
<1>4. CASE JobCommit
  BY <1>1, <1>4 DEF JobCommit
<1>5. ASSUME NEW r \in Stations, ResolveAlert(r) \/ ReviveAlert(r)
      PROVE  alerts'[s].active > 0 \/ ResolveAlert(s)
  BY <1>1, <1>5 DEF ResolveAlert, ReviveAlert
<1>6. CASE CallbackNext
  BY <1>2, <1>3, <1>6 DEF CallbackNext, Receive, CallbackUpdate, CallbackInsert,
     CallbackFails
<1>7. CASE JobNext
  BY <1>2, <1>4, <1>7 DEF JobNext, JobStart, JobStation, JobSelect, JobInsert,
     JobFails
<1>8. CASE OperatorNext
  BY <1>2, <1>5, <1>8 DEF OperatorNext, ReadClose, ReadSave, Request, CommitClose,
     CommitSave, CreatePump
<1>. QED
  BY <1>2, <1>6, <1>7, <1>8, Frames DEF Next, vars

\* A row is locked by one writer at a time.
LEMMA LockStep ==
  ASSUME IInv, [Next]_vars
  PROVE  LockInv'
<1>1. TypeOK /\ CallbackInv /\ LockInv /\ JobInv
  BY DEF IInv
<1>2. job \in JobType
  BY <1>1 DEF TypeOK
<1>3. CASE UNCHANGED <<cb, job>>
  BY <1>1, <1>3 DEF LockInv, CallbackLocks, JobLocks
<1>4. CASE cb'.pc # "insert"
  BY <1>4 DEF LockInv, CallbackLocks
<1>5. CASE \A s \in Stations : job'.plan[s] = None
  BY <1>5 DEF LockInv, JobLocks
<1>6. CASE CallbackNext
  <2>1. CASE cb' = [cb EXCEPT !.pc = "insert", !.pumps = Existing(cb.s)]
               /\ ~JobLocks(cb.s)
    <3>1. cb'.s = cb.s /\ job' = job
      BY <1>1, <1>6, <2>1, Frames DEF TypeOK, CallbackType
    <3>. QED
      BY <2>1, <3>1 DEF LockInv, CallbackLocks, JobLocks
  <2>2. CASE cb'.pc = "update" \/ cb' = CbIdle
    BY <1>4, <2>2 DEF CbIdle
  <2>. QED
    BY <1>6, <2>1, <2>2 DEF CallbackNext, Receive, CallbackUpdate, CallbackInsert,
       CallbackFails, CallbackCommits
<1>7. CASE JobNext
  <2>1. cb' = cb
    BY <1>7, Frames
  <2>2. CASE JobStart
    BY <1>1, <2>2, StartEffect DEF LockInv, JobLocks
  <2>3. ASSUME NEW s \in Stations, JobStation(s)
        PROVE  LockInv'
    <3>1. /\ job'.plan = job.plan /\ job'.todo = job.todo \ {s}
          /\ ~CallbackLocks(s)
      BY <1>1, <2>3, StationEffect DEF JobStation
    <3>. QED
      BY <1>1, <2>1, <3>1 DEF LockInv, CallbackLocks, JobLocks
  <2>4. CASE UNCHANGED <<job.plan, job.todo>>
    BY <1>1, <2>1, <2>4 DEF LockInv, CallbackLocks, JobLocks
  <2>5. CASE job' = JobIdle
    BY <1>5, <2>5 DEF JobIdle
  <2>6. CASE JobSelect \/ JobInsert
    <3>1. UNCHANGED <<job.plan, job.todo>> \/ job' = JobIdle
      BY <1>2, <2>6 DEF JobSelect, JobInsert, AlertCallDone, JobType
    <3>. QED
      BY <2>4, <2>5, <3>1
  <2>. QED
    BY <1>7, <2>2, <2>3, <2>5, <2>6 DEF JobNext, JobCommit, JobFails
<1>. QED
  BY <1>3, <1>6, <1>7, Frames DEF Next, vars

\* A pump's state is written by the writer that holds the lock of its station.
LEMMA PumpWriters ==
  ASSUME IInv, [Next]_vars, NEW s \in Stations, NEW p \in Pumps
  PROVE  \/ pump'[s][p] \in {pump[s][p], "UNKNOWN"}
         \/ cb' = CbIdle /\ cb.s = s /\ ~JobLocks(s)
         \/ JobCommit /\ JobLocks(s)
         \/ ~CallbackLocks(s) /\ ~JobLocks(s) /\ UNCHANGED <<cb, job>>
<1>1. TypeOK /\ CallbackInv /\ LockInv
  BY DEF IInv
<1>2. pump \in [Stations -> Pumped] /\ pump[s] \in [Pumps -> PumpStates \cup {None}]
  BY <1>1 DEF TypeOK, Pumped
<1>3. CASE UNCHANGED pump
  BY <1>3
<1>4. CASE CallbackNext
  <2>1. ASSUME NEW reached, CallbackCommits(reached), cb.pc # "idle", ~JobLocks(cb.s)
        PROVE  pump'[s][p] = pump[s][p] \/ (cb' = CbIdle /\ cb.s = s /\ ~JobLocks(s))
    BY <1>2, <2>1 DEF CallbackCommits
  <2>2. CASE CallbackUpdate
    BY <1>3, <2>1, <2>2 DEF CallbackUpdate, status
  <2>3. CASE CallbackInsert
    <3>1. ~JobLocks(cb.s)
      BY <1>1, <2>3 DEF CallbackInsert, CallbackInv, LockInv, CallbackLocks
    <3>. QED
      BY <1>3, <2>1, <2>3, <3>1 DEF CallbackInsert, status
  <2>. QED
    BY <1>3, <1>4, <2>2, <2>3 DEF CallbackNext, Receive, CallbackFails, status
<1>5. CASE JobNext
  <2>1. CASE JobCommit
    BY <1>2, <2>1 DEF JobCommit, Written
  <2>. QED
    BY <1>3, <1>5, <2>1 DEF JobNext, JobStart, JobStation, JobSelect, JobInsert,
       JobFails, status
<1>6. CASE OperatorNext
  <2>1. CASE CommitClose
    BY <1>2, <1>6, <2>1, Frames DEF CommitClose
  <2>2. ASSUME NEW r \in Stations, NEW q \in Pumps, CreatePump(r, q)
        PROVE  pump'[s][p] \in {pump[s][p], "UNKNOWN"}
    BY <1>2, <2>2 DEF CreatePump
  <2>. QED
    BY <1>3, <1>6, <2>1, <2>2 DEF OperatorNext, ReadClose, ReadSave, Request,
       CommitSave, ResolveAlert, ReviveAlert, status
<1>. QED
  BY <1>3, <1>4, <1>5, <1>6, Frames DEF Next, vars, status

\* A writer with a lock has reached every pump that has a state.
LEMMA ReachStep ==
  ASSUME IInv, [Next]_vars
  PROVE  ReachInv'
<1>1. TypeOK /\ CallbackInv /\ LockInv /\ JobInv /\ ReachInv
  BY DEF IInv
<1>2. job \in JobType /\ cb \in CallbackType
  BY <1>1 DEF TypeOK
<1>3. ASSUME NEW s \in Stations, NEW reached, reached = cb'.pumps, CallbackLocks(s)',
             NEW p \in Pumps \ reached
      PROVE  pump'[s][p] \in {"UNKNOWN", None}
  <2>1. cb'.pc = "insert" /\ cb'.s = s /\ cb' # CbIdle
    BY <1>3 DEF CallbackLocks, CbIdle
  <2>2. CASE cb' = cb
    <3>1. CallbackLocks(s) /\ ~JobLocks(s)
      BY <1>1, <2>1, <2>2 DEF CallbackLocks, LockInv
    <3>2. pump'[s][p] \in {pump[s][p], "UNKNOWN"}
      BY <2>1, <3>1, PumpWriters
    <3>. QED
      BY <1>1, <1>3, <2>2, <3>1, <3>2 DEF ReachInv, NewBut
  <2>3. CASE cb' # cb
    <3>1. CASE CallbackUpdate
      <4>1. /\ cb' = [cb EXCEPT !.pc = "insert", !.pumps = Existing(cb.s)]
            /\ pump' = pump
        BY <2>1, <3>1 DEF CallbackUpdate, CallbackCommits, status
      <4>2. cb'.pumps = Existing(s)
        BY <1>2, <2>1, <4>1 DEF CallbackType
      <4>. QED
        BY <1>3, <4>1, <4>2 DEF Existing
    <3>. QED
      BY <2>1, <2>3, <3>1, Frames DEF Next, CallbackNext, Receive, CallbackInsert,
         CallbackFails, CallbackCommits, vars
  <2>. QED
    BY <2>2, <2>3
<1>4. ASSUME NEW s \in Stations, NEW reached, reached = job'.pumps[s], JobLocks(s)',
             NEW p \in Pumps \ reached
      PROVE  pump'[s][p] \in {"UNKNOWN", None}
  <2>1. job' # JobIdle
    BY <1>4 DEF JobLocks, JobIdle
  <2>2. CASE job'.plan = job.plan /\ job'.todo = job.todo /\ job'.pumps = job.pumps
    <3>1. JobLocks(s)
      BY <1>4, <2>2 DEF JobLocks
    <3>2. pump'[s][p] \in {pump[s][p], "UNKNOWN"}
      BY <2>1, <3>1, PumpWriters DEF JobCommit
    <3>. QED
      BY <1>1, <1>4, <2>2, <3>1, <3>2 DEF ReachInv, NewBut
  <2>3. ASSUME NEW r \in Stations, JobStation(r)
        PROVE  pump'[s][p] \in {"UNKNOWN", None}
    <3>1. /\ job'.plan = job.plan /\ job'.todo = job.todo \ {r}
          /\ job'.pumps = [job.pumps EXCEPT ![r] = Existing(r)]
          /\ pump' = pump
      BY <1>1, <2>3, StationEffect DEF JobStation, status
    <3>2. job.pumps \in [Stations -> SUBSET Pumps]
      BY <1>2 DEF JobType
    <3>3. CASE r = s
      BY <1>4, <3>1, <3>2, <3>3 DEF Existing
    <3>4. CASE r # s
      BY <1>1, <1>4, <3>1, <3>2, <3>4 DEF JobLocks, ReachInv, NewBut
    <3>. QED
      BY <3>3, <3>4
  <2>4. CASE JobNext
    <3>1. CASE JobStart
      BY <1>1, <1>4, <3>1, StartEffect DEF JobLocks
    <3>2. CASE JobSelect \/ JobInsert
      BY <1>2, <2>1, <2>2, <3>2 DEF JobSelect, JobInsert, AlertCallDone, JobType
    <3>. QED
      BY <2>1, <2>3, <2>4, <3>1, <3>2 DEF JobNext, JobCommit, JobFails
  <2>. QED
    BY <2>2, <2>4, Frames DEF Next, vars
<1>5. ASSUME NEW s \in Stations
      PROVE  /\ CallbackLocks(s)' => NewBut(s, cb.pumps)'
             /\ JobLocks(s)' => NewBut(s, job.pumps[s])'
  BY <1>3, <1>4 DEF NewBut
<1>. QED
  BY <1>5 DEF ReachInv

\* The invariant of the job's transaction.
LEMMA JobStep ==
  ASSUME IInv, [Next]_vars
  PROVE  JobInv'
<1>1. TypeOK /\ JobInv /\ job \in JobType
  BY DEF IInv, TypeOK
<1>2. alerts \in [Stations -> [active : Nat, closed : Nat]]
  BY <1>1 DEF TypeOK
<1>3. CASE job' = job
  <2>1. Written' = Written
    BY <1>3 DEF Written, JobLocks
  <2>2. ASSUME NEW s \in Written, Cared(s, closing)
        PROVE  Cared(s, closing)'
    <3>1. s \in Stations /\ JobLocks(s)
      BY DEF Written
    <3>2. \/ closing' = closing
          \/ \E r \in Stations : ResolveAlert(r) /\ closing' \in {closing, closing \cup {r}}
          \/ job' = JobIdle
          \/ JobSelect
      BY Frames DEF Next, JobNext, JobStart, JobStation, JobInsert, JobCommit,
         JobFails, OperatorNext, ReadClose, ReadSave, Request, CommitClose,
         CommitSave, CreatePump, ResolveAlert, ReviveAlert, vars, histories
    <3>3. job' # JobIdle /\ ~JobSelect
      <4>1. ~JobLocks(s)' \/ job' # JobIdle
        BY <3>1 DEF JobLocks, JobIdle
      <4>2. JobSelect => job' # job
        <5>1. ASSUME job.pc = "alert", job' = AlertCallDone(job.raised)
              PROVE  job'.calls # job.calls
          BY <1>1, <5>1 DEF AlertCallDone, JobType, JobInv
        <5>2. ASSUME job.pc = "alert", job' = [job EXCEPT !.pc = "insert"]
              PROVE  job'.pc # job.pc
          BY <1>1, <5>2 DEF JobType
        <5>. QED
          BY <5>1, <5>2 DEF JobSelect
      <4>. QED
        BY <1>3, <3>1, <4>1, <4>2 DEF JobLocks
    <3>4. closing \subseteq closing'
      BY <3>2, <3>3
    <3>5. ResolveAlert(s) => s \in closing'
      BY <3>1 DEF ResolveAlert
    <3>. QED
      BY <2>2, <3>1, <3>4, <3>5, AlertsStay DEF Cared
  <2>. QED
    BY <1>1, <1>3, <2>1, <2>2 DEF JobInv
<1>4. CASE job' = JobIdle
  <2>1. Written' = {}
    BY <1>4 DEF Written, JobLocks, JobIdle
  <2>. QED
    BY <1>4, <2>1 DEF JobInv, JobIdle
<1>5. CASE JobStart
  <2>1. /\ job'.pc = "scan" /\ job'.raised = {}
        /\ \A s \in Stations :
             /\ job'.read[s] = StatusOf(row[s]) /\ job'.plan[s] = JobPlan(s)
             /\ (s \in job'.todo <=> job'.plan[s] # None)
    BY <1>1, <1>5, StartEffect
  <2>2. Written' = {} /\ job'.todo \subseteq Stations
    BY <1>1, <1>5, <2>1, StartEffect DEF Written, JobLocks, JobType
  <2>3. \A s \in Stations : job'.plan[s] # None => Planned(job'.plan[s], job'.read[s])
    BY <1>1, <2>1, PlanFacts
  <2>. QED
    BY <2>1, <2>2, <2>3 DEF JobInv
<1>6. ASSUME NEW s \in Stations, JobStation(s)
      PROVE  JobInv'
  <2>1. /\ job.pc = "scan" /\ job'.todo = job.todo \ {s}
        /\ job'.plan = job.plan /\ job'.read = job.read /\ job'.raised = job.raised
        /\ job'.pc \in {"scan", "alert"}
        /\ job'.pc = "alert" => job'.at = s /\ job'.calls = 2
        /\ job.plan[s] # None /\ job.plan[s].alert = TRUE => job'.pc = "alert"
    BY <1>1, <1>6, StationEffect
  <2>2. alerts' = alerts /\ closing' = closing
    BY <1>6 DEF JobStation, histories
  <2>3. /\ Written \subseteq Written' /\ Written' \subseteq Written \cup {s}
    BY <2>1 DEF Written, JobLocks
  <2>4. s \in Written' /\ job.plan[s].source = "INFERRED" => job'.pc = "alert"
    BY <1>1, <2>1 DEF Written, JobLocks, JobInv, Planned
  <2>5. s \in Written'
    BY <1>1, <1>6, <2>1 DEF Written, JobLocks, JobInv, JobStation
  <2>6. \A r \in Written' : job'.plan[r].source = "INFERRED" =>
          \/ job'.at = r /\ job'.pc = "alert" /\ job'.calls = 2
          \/ r \in job'.raised
          \/ Cared(r, closing)'
    BY <1>1, <2>1, <2>2, <2>3, <2>4 DEF JobInv, Cared
  <2>. QED
    BY <1>1, <2>1, <2>3, <2>5, <2>6 DEF JobInv
<1>7. ASSUME NEW raised \in SUBSET Stations, job.pc \in {"alert", "insert"},
             job' = AlertCallDone(raised), job.raised \subseteq raised,
             raised \subseteq job.raised \cup {job.at}, alerts' = alerts,
             closing \ {job.at} \subseteq closing',
             job.at \in raised \/ alerts[job.at].active > 0
      PROVE  JobInv'
  <2>1. /\ job.at \in Written /\ job.calls \in {1, 2} /\ job.at \in Stations
        /\ job.raised \subseteq Written
    BY <1>1, <1>7 DEF JobInv, Written
  <2>2. /\ job'.raised = raised /\ job'.plan = job.plan /\ job'.read = job.read
        /\ job'.todo = job.todo /\ job'.at \in {job.at, None}
        /\ job.calls = 1 => job'.pc = "scan"
        /\ job.calls = 2 => job'.pc = "alert" /\ job'.at = job.at
                              /\ job'.calls = 1
    BY <1>1, <1>7, <2>1 DEF AlertCallDone, JobType
  <2>3. Written' = Written
    BY <2>2 DEF Written, JobLocks
  <2>4. \A r \in Written : job.plan[r].source = "INFERRED" =>
          r \in raised \/ Cared(r, closing)'
    BY <1>1, <1>7 DEF JobInv, Cared
  <2>. QED
    BY <1>1, <1>7, <2>1, <2>2, <2>3, <2>4 DEF JobInv
<1>8. CASE JobSelect
  <2>1. alerts' = alerts /\ closing' = closing \ {job.at} /\ job.pc = "alert"
    BY <1>8 DEF JobSelect
  <2>2. CASE AlertFound(job.at) \/ job.at \in job.raised
    BY <1>1, <1>7, <1>8, <2>1, <2>2 DEF JobSelect, AlertFound, JobType
  <2>3. CASE ~(AlertFound(job.at) \/ job.at \in job.raised)
    <3>1. /\ job'.pc = "insert" /\ job'.at = job.at
          /\ job'.calls = job.calls /\ job'.plan = job.plan
          /\ job'.raised = job.raised /\ job'.todo = job.todo
          /\ job'.read = job.read
      BY <1>1, <1>8, <2>3 DEF JobSelect, JobType
    <3>2. Written' = Written
      BY <3>1 DEF Written, JobLocks
    <3>3. \A r \in Written \ {job.at} : Cared(r, closing) => Cared(r, closing)'
      BY <2>1 DEF Cared
    <3>. QED
      BY <1>1, <2>1, <2>3, <3>1, <3>2, <3>3 DEF JobInv
  <2>. QED
    BY <2>2, <2>3
<1>9. CASE JobInsert
  <2>1. CASE /\ job' = AlertCallDone(job.raised \cup {job.at})
             /\ UNCHANGED closing
    <3>1. job.raised \cup {job.at} \in SUBSET Stations
      BY <1>1, <1>9 DEF JobInsert, JobInv, Written, JobType
    <3>. QED
      BY <1>7, <1>9, <2>1, <3>1 DEF JobInsert
  <2>. QED
    BY <1>4, <1>9, <2>1 DEF JobInsert
<1>10. CASE JobCommit \/ JobFails
  BY <1>4, <1>10 DEF JobCommit, JobFails
<1>. QED
  BY <1>3, <1>5, <1>6, <1>8, <1>9, <1>10, Frames DEF Next, JobNext, vars

-----------------------------------------------------------------------------
(***************************************************************************)
(* The safety invariants.                                                  *)
(***************************************************************************)

\* What the callback's commit rests on.
LEMMA CommitFacts ==
  ASSUME IInv, CallbackUpdate \/ CallbackInsert, NEW reached,
         reached \in {Existing(cb.s), cb.pumps},
         CallbackUpdate => reached = Existing(cb.s), CallbackCommits(reached)
  PROVE  /\ cb.s \in Stations /\ cb.prev \in Tips /\ Reported(cb.plan, cb.prev.op)
         /\ NewBut(cb.s, reached)
<1>1. /\ cb.pc # "idle"
      /\ CallbackInv /\ ReachInv
  BY DEF IInv, CallbackUpdate, CallbackInsert
<1>2. NewBut(cb.s, Existing(cb.s))
  BY DEF NewBut, Existing
<1>3. CASE CallbackInsert
  BY <1>1, <1>2, <1>3 DEF CallbackInv, ReachInv, CallbackLocks, CallbackInsert
<1>. QED
  BY <1>1, <1>2, <1>3 DEF CallbackInv

\* The steps that write a station's records, or say who answered its outage.
LEMMA Writers ==
  ASSUME IInv, [Next]_vars
  PROVE  \/ UNCHANGED <<row, pump, tip, diverged, answered>>
         \/ \E reached : /\ CallbackCommits(reached)
                         /\ cb.s \in Stations /\ cb.prev \in Tips
                         /\ Reported(cb.plan, cb.prev.op) /\ NewBut(cb.s, reached)
         \/ JobCommit \/ CommitClose \/ CommitSave
         \/ \E s \in Stations, p \in Pumps : CreatePump(s, p)
         \/ \E s \in Stations : ResolveAlert(s)
<1>1. CASE CallbackNext
  BY <1>1, CommitFacts DEF CallbackNext, Receive, CallbackUpdate, CallbackInsert,
     CallbackFails, status, histories
<1>2. CASE JobNext
  BY <1>2 DEF JobNext, JobStart, JobStation, JobSelect, JobInsert, JobFails,
     status, histories
<1>3. CASE OperatorNext
  BY <1>3 DEF OperatorNext, ReadClose, ReadSave, Request, ReviveAlert, status,
     histories
<1>. QED
  BY <1>1, <1>2, <1>3, Frames DEF Next, vars, status, histories

\* One station's records agree.
Agree(s) ==
  /\ ~Differs(tip[s], row[s])
  /\ row[s].op = "CLOSED" =>
       \A p \in Pumps : pump[s][p] \in {"POWERED_OFF", "UNKNOWN", None}

\* They do after a decision that records, and after one that rests on a row that
\* is still the same.
LEMMA DecisionAgrees ==
  ASSUME TypeOK, NEW s \in Stations, NEW d \in Decisions, NEW prev \in Tips,
         NEW reached, NewBut(s, reached), Agree(s) \/ Recorded(prev, d),
         Recorded(prev, d) \/ ~Differs(prev, row[s]),
         d.op = "CLOSED" =>
           (d.pump = "POWERED_OFF" \/ (d.pump = None /\ prev.op = "CLOSED")),
         row'[s] = NewStatus(d), pump'[s] = NewPump(s, d, reached),
         tip'[s] = NewTip(s, d, prev)
  PROVE  Agree(s)'
<1>1. row'[s].op = d.op /\ row'[s].conn = d.conn
  BY DEF NewStatus
<1>2. ~Differs(tip'[s], row'[s])
  <2>1. CASE Differs(prev, d)
    BY <1>1, <2>1 DEF NewTip, StatusOf, Differs
  <2>2. CASE ~Differs(prev, d)
    BY <1>1, <2>2 DEF NewTip, Recorded, Agree, Differs
  <2>. QED
    BY <2>1, <2>2
<1>3. ASSUME d.op = "CLOSED", NEW p \in Pumps
      PROVE  pump'[s][p] \in {"POWERED_OFF", "UNKNOWN", None}
  <2>1. CASE d.pump = "POWERED_OFF"
    BY <2>1, NoneAssumption DEF NewPump, NewBut, PumpStates
  <2>2. CASE d.pump # "POWERED_OFF"
    <3>1. row[s].op = "CLOSED" /\ Agree(s) /\ d.pump = None
      BY <1>3, <2>2 DEF Recorded, Differs
    <3>. QED
      BY <3>1 DEF NewPump, Agree
  <2>. QED
    BY <2>1, <2>2
<1>. QED
  BY <1>1, <1>2, <1>3 DEF Agree

\* The records go on agreeing, or are found to have diverged.
LEMMA RecordsStep ==
  ASSUME IInv, [Next]_vars
  PROVE  RecordsAgree'
<1>1. TypeOK /\ ReachInv /\ JobInv /\ ReqInv
      /\ (\A s \in Stations : s \notin diverged => Agree(s))
  BY DEF IInv, RecordsAgree, Agree
<1>. SUFFICES ASSUME NEW s \in Stations, s \notin diverged'
              PROVE  Agree(s)'
  BY DEF RecordsAgree, Agree
<1>2. ASSUME row'[s] = row[s], pump'[s] = pump[s], tip'[s] = tip[s], s \notin diverged
      PROVE  Agree(s)'
  BY <1>1, <1>2 DEF Agree
<1>3. ASSUME NEW reached, CallbackCommits(reached), cb.s \in Stations,
             cb.prev \in Tips, Reported(cb.plan, cb.prev.op), NewBut(cb.s, reached)
      PROVE  Agree(s)'
  <2>1. CASE s # cb.s
    BY <1>1, <1>2, <1>3, <2>1 DEF CallbackCommits, TypeOK
  <2>2. CASE s = cb.s
    <3>1. /\ row'[s] = NewStatus(cb.plan)
          /\ pump'[s] = NewPump(s, cb.plan, reached)
          /\ tip'[s] = NewTip(s, cb.plan, cb.prev)
      BY <1>1, <1>3, <2>2 DEF CallbackCommits, TypeOK
    <3>2. ~Diverges(s, cb.prev, cb.plan)
      BY <1>3, <2>2 DEF CallbackCommits
    <3>3. \/ Recorded(cb.prev, cb.plan)
          \/ s \notin diverged /\ ~Differs(cb.prev, row[s])
      BY <3>2 DEF Diverges
    <3>. QED
      BY <1>1, <1>3, <2>2, <3>1, <3>3, DecisionAgrees DEF Reported
  <2>. QED
    BY <2>1, <2>2
<1>4. CASE JobCommit
  <2>1. CASE s \notin Written
    BY <1>2, <1>4, <2>1 DEF JobCommit
  <2>2. CASE s \in Written
    <3>1. /\ row'[s] = NewStatus(job.plan[s])
          /\ pump'[s] = NewPump(s, job.plan[s], job.pumps[s])
          /\ tip'[s] = NewTip(s, job.plan[s], job.read[s])
      BY <1>4, <2>2 DEF JobCommit
    <3>2. Planned(job.plan[s], job.read[s]) /\ NewBut(s, job.pumps[s])
      BY <1>1, <2>2 DEF JobInv, ReachInv, Written, JobLocks
    <3>3. job.read[s] \in Tips
      BY <1>1 DEF TypeOK, JobType
    <3>. QED
      BY <1>1, <3>1, <3>2, <3>3, DecisionAgrees DEF Planned, Recorded
  <2>. QED
    BY <2>1, <2>2
<1>5. CASE CommitClose
  <2>1. /\ req.s \in Stations /\ req.row \in Rows /\ req.pump \in Pumped
        /\ row[req.s] \in Rows /\ pump[req.s] \in Pumped
        /\ ManualClose.op = "CLOSED" /\ ManualClose.source = "MANUAL"
        /\ ManualClose.pump = "POWERED_OFF"
    BY <1>1, <1>5, RequestEffect
  <2>2. CASE s # req.s
    BY <1>1, <1>2, <1>5, <2>2 DEF CommitClose, TypeOK
  <2>3. CASE s = req.s
    <3>1. /\ ~Differs(req.row, row[s])
          /\ \A p \in Pumps : pump[s][p] \in {req.pump[p], "UNKNOWN"}
      BY <1>5, <2>3 DEF CommitClose, CloseOutdated
    <3>2. row'[s].op = "CLOSED" /\ row'[s].conn = row[s].conn
      BY <1>1, <1>5, <2>1, <2>3, <3>1 DEF CommitClose, Flushed, Differs, TypeOK, Rows
    <3>3. tip'[s] = [op |-> "CLOSED", conn |-> req.row.conn]
      BY <1>1, <1>5, <2>1, <2>3 DEF CommitClose, TypeOK
    <3>4. ASSUME NEW p \in Pumps
          PROVE  pump'[s][p] \in {"POWERED_OFF", "UNKNOWN", None}
      BY <1>1, <1>5, <2>1, <2>3, <3>1, <3>4 DEF CommitClose, Flushed, TypeOK
    <3>. QED
      BY <3>1, <3>2, <3>3, <3>4 DEF Agree, Differs
  <2>. QED
    BY <2>2, <2>3
<1>6. CASE CommitSave
  <2>1. pump' = pump /\ tip' = tip /\ s \notin diverged /\ req.s \in Stations
    BY <1>1, <1>6, RequestEffect DEF CommitSave
  <2>2. ~Differs(row'[s], row[s])
    BY <1>1, <1>6, <2>1 DEF CommitSave, TypeOK, Differs
  <2>. QED
    BY <1>1, <2>1, <2>2 DEF Agree, Differs
<1>7. ASSUME NEW r \in Stations, NEW p \in Pumps, CreatePump(r, p)
      PROVE  Agree(s)'
  <2>1. \A q \in Pumps : pump'[s][q] \in {pump[s][q], "UNKNOWN"}
    BY <1>1, <1>7 DEF CreatePump, TypeOK, Pumped
  <2>. QED
    BY <1>1, <1>7, <2>1 DEF CreatePump, Agree, histories
<1>8. CASE UNCHANGED <<row, pump, tip, diverged>>
  BY <1>2, <1>8
<1>9. ASSUME NEW r \in Stations, ResolveAlert(r)
      PROVE  UNCHANGED <<row, pump, tip, diverged>>
  BY <1>9 DEF ResolveAlert, status
<1>. QED
  BY <1>3, <1>4, <1>5, <1>6, <1>7, <1>8, <1>9, Writers

\* An inferred outage keeps its alert, until an operator closes it.
LEMMA OutageStep ==
  ASSUME IInv, [Next]_vars
  PROVE  OutageInv'
<1>1. TypeOK /\ OutageInv /\ JobInv
  BY DEF IInv
<1>. SUFFICES ASSUME NEW s \in Stations, row'[s].source = "INFERRED"
              PROVE  Cared(s, answered)'
  BY DEF OutageInv
<1>2. ASSUME row[s].source = "INFERRED", s \in answered => s \in answered'
      PROVE  Cared(s, answered)'
  <2>1. ResolveAlert(s) => s \in answered'
    BY <1>2 DEF ResolveAlert
  <2>. QED
    BY <1>1, <1>2, <2>1, AlertsStay DEF OutageInv, Cared
<1>3. CASE UNCHANGED <<row, pump, tip, diverged, answered>>
  BY <1>2, <1>3
<1>4. ASSUME NEW reached, CallbackCommits(reached), cb.s \in Stations,
             Reported(cb.plan, cb.prev.op)
      PROVE  Cared(s, answered)'
  <2>1. row'[cb.s].source = "REPORTED"
    BY <1>1, <1>4 DEF CallbackCommits, NewStatus, Reported, TypeOK
  <2>2. s # cb.s
    BY <2>1
  <2>. QED
    BY <1>1, <1>2, <1>4, <2>2 DEF CallbackCommits, TypeOK
<1>5. CASE JobCommit
  <2>1. CASE s \notin Written
    BY <1>2, <1>5, <2>1 DEF JobCommit
  <2>2. CASE s \in Written
    <3>1. job.plan[s].source = "INFERRED"
      BY <1>5, <2>2 DEF JobCommit, NewStatus
    <3>2. s \in job.raised \/ Cared(s, closing)
      BY <1>1, <1>5, <2>2, <3>1 DEF JobInv, JobCommit
    <3>3. alerts[s] \in [active : Nat, closed : Nat]
      BY <1>1 DEF TypeOK
    <3>4. CASE s \in job.raised
      BY <1>5, <3>3, <3>4 DEF JobCommit, Cared
    <3>5. CASE s \notin job.raised
      BY <1>5, <2>2, <3>2, <3>5 DEF JobCommit, Cared
    <3>. QED
      BY <3>4, <3>5
  <2>. QED
    BY <2>1, <2>2
<1>6. CASE CommitClose \/ CommitSave
  <2>1. req.s \in Stations /\ ManualClose.source = "MANUAL"
    BY <1>1, <1>6, RequestEffect DEF IInv
  <2>2. row'[s].source \in {"MANUAL", row[s].source}
    <3>1. row \in [Stations -> Rows] /\ row[req.s] \in Rows
      BY <1>1, <2>1 DEF TypeOK
    <3>2. CASE CommitClose
      BY <2>1, <3>1, <3>2 DEF CommitClose, Flushed, Rows
    <3>3. CASE CommitSave
      <4>1. PICK op, conn :
              row' = [row EXCEPT ![req.s] = [[row[req.s] EXCEPT !.op = op]
                                               EXCEPT !.conn = conn]]
        BY <2>1, <3>1, <3>3 DEF CommitSave
      <4>. QED
        BY <2>1, <3>1, <4>1 DEF Rows
    <3>. QED
      BY <1>6, <3>2, <3>3
  <2>. QED
    BY <1>2, <1>6, <2>2 DEF CommitClose, CommitSave
<1>7. ASSUME NEW r \in Stations, NEW p \in Pumps, CreatePump(r, p)
      PROVE  Cared(s, answered)'
  BY <1>2, <1>7 DEF CreatePump, histories
<1>8. ASSUME NEW r \in Stations, ResolveAlert(r)
      PROVE  Cared(s, answered)'
  BY <1>2, <1>8 DEF ResolveAlert, status
<1>. QED
  BY <1>3, <1>4, <1>5, <1>6, <1>7, <1>8, Writers

\* Only an operator who revives a closed alert adds an active one from outside.
LEMMA RevivalFacts ==
  ASSUME IInv, [Next]_vars
  PROVE  /\ revivals' \in Nat /\ revivals' >= revivals
         /\ \A s \in Stations : ReviveAlert(s) => revivals' > 0
<1>1. revivals \in Nat
  BY DEF IInv, TypeOK
<1>2. revivals' \in {revivals, revivals + 1}
  BY Frames DEF Next, OperatorNext, ReadClose, ReadSave, Request, CommitClose,
     CommitSave, CreatePump, ResolveAlert, ReviveAlert, counters, vars
<1>. QED
  BY <1>1, <1>2 DEF ReviveAlert

\* An alert that is active now was, or its station's own writer inserted it.
LEMMA AlertsAppear ==
  ASSUME IInv, [Next]_vars, NEW s \in Stations, alerts'[s].active > 0, revivals' = 0
  PROVE  \/ AlertFound(s)
         \/ CallbackInsert /\ cb.s = s
         \/ JobCommit /\ s \in job.raised
<1>1. alerts \in [Stations -> [active : Nat, closed : Nat]]
  BY DEF IInv, TypeOK
<1>2. CASE UNCHANGED alerts
  BY <1>2 DEF AlertFound
<1>3. CASE CallbackNext
  <2>1. CASE CallbackInsert /\ s # cb.s
    BY <1>1, <2>1 DEF CallbackInsert, AlertFound
  <2>. QED
    BY <1>2, <1>3, <2>1 DEF CallbackNext, Receive, CallbackUpdate, CallbackFails
<1>4. CASE JobNext
  <2>1. CASE JobCommit /\ s \notin job.raised
    BY <2>1 DEF JobCommit, AlertFound
  <2>. QED
    BY <1>2, <1>4, <2>1 DEF JobNext, JobStart, JobStation, JobSelect, JobInsert,
       JobFails
<1>5. CASE OperatorNext
  <2>1. ASSUME NEW r \in Stations, ResolveAlert(r)
        PROVE  AlertFound(s)
    BY <1>1, <2>1 DEF ResolveAlert, AlertFound
  <2>2. ASSUME NEW r \in Stations, ReviveAlert(r)
        PROVE  FALSE
    BY <2>2, RevivalFacts
  <2>. QED
    BY <1>2, <1>5, <2>1, <2>2 DEF OperatorNext, ReadClose, ReadSave, Request,
       CommitClose, CommitSave, CreatePump
<1>. QED
  BY <1>2, <1>3, <1>4, <1>5, Frames DEF Next, vars

\* The alert of a station with a pending INSERT appears only through a revival.
LEMMA ConflictStep ==
  ASSUME IInv, [Next]_vars
  PROVE  ConflictNeedsRevival'
<1>1. /\ TypeOK /\ CallbackInv /\ LockInv /\ JobInv /\ ConflictNeedsRevival
      /\ cb \in CallbackType /\ job \in JobType /\ revivals \in Nat
  BY DEF IInv, TypeOK
<1>2. revivals' = 0 => revivals = 0
  BY <1>1, RevivalFacts
<1>3. ASSUME cb'.pc = "insert", AlertFound(cb.s)', revivals' = 0
      PROVE  FALSE
  <2>1. CASE cb' = cb
    <3>1. cb.s \in Stations /\ CallbackLocks(cb.s) /\ ~JobLocks(cb.s)
      BY <1>1, <1>3, <2>1 DEF CallbackInv, LockInv, CallbackLocks
    <3>2. ~AlertFound(cb.s)
      BY <1>1, <1>2, <1>3, <2>1 DEF ConflictNeedsRevival
    <3>3. cb.s \notin job.raised
      BY <1>1, <3>1 DEF JobInv, Written
    <3>4. ~CallbackInsert
      BY <1>3, <2>1 DEF CallbackInsert, CallbackCommits, CbIdle
    <3>. QED
      BY <1>3, <2>1, <3>1, <3>2, <3>3, <3>4, AlertsAppear DEF AlertFound
  <2>2. CASE /\ CallbackUpdate /\ ~AlertFound(cb.s)
             /\ cb' = [cb EXCEPT !.pc = "insert", !.pumps = Existing(cb.s)]
    BY <1>1, <1>3, <2>2 DEF CallbackUpdate, AlertFound, CallbackType
  <2>3. CASE cb'.pc = "update" \/ cb' = CbIdle
    BY <1>3, <2>3 DEF CbIdle
  <2>. QED
    BY <2>1, <2>2, <2>3, Frames DEF Next, CallbackNext, Receive, CallbackUpdate,
       CallbackInsert, CallbackFails, CallbackCommits, vars
<1>4. ASSUME job'.pc = "insert", AlertFound(job.at)', revivals' = 0
      PROVE  FALSE
  <2>1. CASE job' = job
    <3>1. job.at \in Written /\ job.at \in Stations /\ JobLocks(job.at)
      BY <1>1, <1>4, <2>1 DEF JobInv, Written
    <3>2. ~AlertFound(job.at)
      BY <1>1, <1>2, <1>4, <2>1 DEF ConflictNeedsRevival
    <3>3. ~(CallbackInsert /\ cb.s = job.at)
      BY <1>1, <3>1 DEF CallbackInsert, LockInv, CallbackLocks
    <3>4. ~JobCommit
      BY <1>4, <2>1 DEF JobCommit
    <3>. QED
      BY <1>4, <2>1, <3>1, <3>2, <3>3, <3>4, AlertsAppear DEF AlertFound
  <2>2. CASE JobSelect \/ JobInsert
    <3>1. job.calls \in {1, 2}
      BY <1>1, <2>2 DEF JobInv, JobSelect, JobInsert
    <3>2. ASSUME NEW raised, job' = AlertCallDone(raised)
          PROVE  FALSE
      BY <1>1, <1>4, <3>1, <3>2 DEF AlertCallDone, JobType
    <3>3. CASE job' = [job EXCEPT !.pc = "insert"] /\ ~AlertFound(job.at) /\ JobSelect
      BY <1>1, <1>4, <3>3 DEF JobSelect, AlertFound, JobType
    <3>4. CASE job' = JobIdle
      BY <1>4, <3>4 DEF JobIdle
    <3>. QED
      BY <2>2, <3>2, <3>3, <3>4 DEF JobSelect, JobInsert
  <2>3. CASE JobStart \/ JobCommit \/ JobFails
    BY <1>1, <1>4, <2>3, StartEffect DEF JobCommit, JobFails, JobIdle
  <2>4. ASSUME NEW s \in Stations, JobStation(s)
        PROVE  FALSE
    <3>1. job'.pc \in {"scan", "alert"}
      BY <1>1, <2>4, StationEffect
    <3>. QED
      BY <1>4, <3>1
  <2>. QED
    BY <2>1, <2>2, <2>3, <2>4, Frames DEF Next, JobNext, vars
<1>. QED
  BY <1>1, <1>3, <1>4, RevivalFacts DEF ConflictNeedsRevival, AlertFound

-----------------------------------------------------------------------------
(***************************************************************************)
(* The theorems.                                                           *)
(***************************************************************************)

\* The invariant holds initially.
LEMMA InitInv == Init => IInv
<1>. SUFFICES ASSUME Init PROVE IInv
  OBVIOUS
<1>1. TypeOK
  BY InitType
<1>2. CallbackInv /\ ReqInv
  BY DEF Init, CbIdle, ReqIdle, CallbackInv, ReqInv
<1>3. LockInv /\ JobInv /\ ReachInv
  BY DEF Init, CbIdle, JobIdle, LockInv, CallbackLocks, JobInv, Written, JobLocks,
     ReachInv
<1>4. RecordsAgree
  BY DEF Init, NewRow, RecordsAgree, Differs, StatusOf
<1>5. OutageInv
  BY NoneAssumption DEF Init, NewRow, OutageInv, Sources
<1>6. ConflictNeedsRevival
  BY DEF Init, CbIdle, JobIdle, ConflictNeedsRevival
<1>. QED
  BY <1>1, <1>2, <1>3, <1>4, <1>5, <1>6 DEF IInv

\* Every step keeps it.
LEMMA NextInv == IInv /\ [Next]_vars => IInv'
<1>. SUFFICES ASSUME IInv, [Next]_vars PROVE IInv'
  OBVIOUS
<1>1. TypeOK'
  BY NextType DEF IInv
<1>. QED
  BY <1>1, SessionStep, LockStep, ReachStep, JobStep, RecordsStep, OutageStep,
     ConflictStep DEF IInv

\* The inductive invariant holds in every behaviour of the writers.
THEOREM Invariance == Spec => []IInv
BY InitInv, NextInv, PTL DEF Spec

\* Every variable keeps its type.
THEOREM TypeCorrect == Spec => []TypeOK
<1>1. IInv => TypeOK
  BY DEF IInv
<1>. QED
  BY <1>1, Invariance, PTL

\* The row, its pumps and the latest history row agree, except where the last write
\* was an unrecorded one: a save of the form, or one that rested on an outdated read.
THEOREM RecordsCorrect == Spec => []RecordsAgree
<1>1. IInv => RecordsAgree
  BY DEF IInv
<1>. QED
  BY <1>1, Invariance, PTL

\* An outage that a timeout marked in a station's hours has an active alert, or one
\* that an operator closed since the outage looked for it.
THEOREM OutageCorrect == Spec => []OutageHasAlert
<1>1. IInv => OutageHasAlert
  BY DEF IInv, OutageInv, OutageHasAlert, Cared
<1>. QED
  BY <1>1, Invariance, PTL

\* The two threads collide on the alert index only after an operator made a closed
\* alert active again.
THEOREM ConflictCorrect == Spec => []ConflictNeedsRevival
<1>1. IInv => ConflictNeedsRevival
  BY DEF IInv
<1>. QED
  BY <1>1, Invariance, PTL
=============================================================================
