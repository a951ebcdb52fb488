---------------------------- MODULE IngestProofs ----------------------------
(***************************************************************************)
(* Theorems about Ingest, for every set of messages and devices and every  *)
(* bound: the sales table implements TransactionLedger, the audit trail    *)
(* agrees with it, and an acknowledged message leaves a trace unless       *)
(* several database calls failed.                                          *)
(***************************************************************************)
EXTENDS Ingest, TLAPS

-----------------------------------------------------------------------------
(***************************************************************************)
(* The inductive invariant.  Each conjunct says what one step of the       *)
(* callback may rely on from the steps before it.                          *)
(***************************************************************************)

\* What the callback holds at each of its steps.
CallbackInv ==
  /\ pc = "idle" <=> msg = None
  /\ pc # "idle" => msg \in sent
  /\ pc \in {"insert", "touch"} => msg.valid
  /\ pc = "touch" => msg.dev \in Devices
  /\ pc \in {"insert", "reject"} => outcome \in {"error", "rejected"}
  /\ pc \in {"touch", "audit"} /\ outcome \in {"processed", "duplicate"} =>
       rows[msg.id] # None
  /\ pc \in {"touch", "audit"} /\ outcome = "processed" =>
       rows[msg.id] = msg /\ audits[msg]["processed"] = 0
  /\ pc = "touch" => outcome \in {"processed", "duplicate"}
  /\ outcome = "rejected" => pc \in {"reject", "audit"} /\ ~msg.valid
  /\ pc # "idle" /\ ~msg.valid => outcome = "rejected"

\* Only published messages are queued.
SessionInv == \A i \in 1 .. Len(session) : session[i] \in sent

\* The sales table holds valid published messages under their own id.
RowsInv ==
  \A i \in Ids : rows[i] # None =>
    rows[i].id = i /\ rows[i].valid /\ rows[i] \in sent

IInv ==
  /\ TypeOK
  /\ CallbackInv
  /\ SessionInv
  /\ RowsInv
  /\ AuditMatchesLedger

\* What is left of the trace while the callback still runs.
TraceInv ==
  /\ pc = "audit" /\ outcome = "error" => Kept(msg) \/ failures >= 2
  /\ pc = "audit" /\ outcome = "rejected" => Refused(msg) \/ failures >= 1
  /\ pc = "reject" /\ outcome = "error" => failures >= 1
  /\ HandledLeavesTrace

-----------------------------------------------------------------------------
(***************************************************************************)
(* Type correctness.                                                       *)
(***************************************************************************)

\* A message of the model is never the absence of one.
LEMMA MessageFacts ==
  /\ None \notin Messages
  /\ None \notin Ids
  /\ \A m \in Messages :
       /\ m.id \in Ids
       /\ m.dev \in Devices \cup {None}
       /\ m.valid \in BOOLEAN
BY MessagesAssumption, NoneAssumption DEF MessageType

\* The set Outcomes spelled out, for the provers.
LEMMA OutcomeFacts == {"processed", "duplicate", "rejected", "error"} = Outcomes
BY DEF Outcomes

\* Audit rows are counted in natural numbers.
LEMMA CountType ==
  ASSUME TypeOK, NEW m \in Messages, NEW o \in Outcomes
  PROVE  audits[m][o] \in Nat
BY DEF TypeOK

\* The initial state is well typed.
LEMMA InitType == Init => TypeOK
<1> SUFFICES ASSUME Init PROVE TypeOK
  OBVIOUS
<1>1. audits \in [Messages -> [Outcomes -> Nat]]
  BY DEF Init
<1>2. session \in Seq(Messages)
  BY DEF Init
<1>. QED
  BY <1>1, <1>2, OutcomeFacts DEF Init, TypeOK, Steps

\* Storing a sale keeps the table a function into messages.
LEMMA StoredType ==
  ASSUME TypeOK, NEW m \in Messages
  PROVE  Stored(m) \in [Ids -> Messages \cup {None}]
BY MessageFacts DEF Stored, TypeOK

\* What waits in the session are messages.
LEMMA QueuedType ==
  ASSUME TypeOK
  PROVE  Queued \subseteq Messages
BY DEF Queued, TypeOK

\* Every step, of the callback or around it, keeps the types.
LEMMA NextType == TypeOK /\ CallbackInv /\ [Next]_vars => TypeOK'
<1> SUFFICES ASSUME TypeOK, CallbackInv, [Next]_vars
             PROVE  TypeOK'
  OBVIOUS
<1> USE MessageFacts
<1>1. CASE Receive
  <2>1. Head(session) \in Messages /\ Tail(session) \in Seq(Messages)
    BY <1>1 DEF Receive, TypeOK
  <2>. QED
    BY <1>1, <2>1
    DEF Receive, TypeOK, Outcomes, Steps, tables, history
<1>12. CASE Skip
  <2>1. Head(session) \in Messages /\ Tail(session) \in Seq(Messages)
    BY <1>12 DEF Skip, TypeOK
  <2>. QED
    BY <1>12, <2>1 DEF Skip, TypeOK, tables, callback
<1>2. CASE Insert
  <2>1. msg \in Messages
    BY <1>2 DEF Insert, TypeOK, CallbackInv
  <2>. QED
    BY <1>2, <2>1, StoredType
    DEF Insert, InsertStatus, TypeOK, Outcomes, Steps, history
<1>3. CASE InsertRaises
  <2>1. msg \in Messages
    BY <1>3 DEF InsertRaises, TypeOK, CallbackInv
  <2>. QED
    BY <1>3, <2>1, StoredType
    DEF InsertRaises, CallRaises, TypeOK, Steps, history
<1>4. CASE TouchDevice
  <2>1. msg \in Messages /\ msg.dev \in Devices
    BY <1>4 DEF TouchDevice, TypeOK, CallbackInv
  <2>. QED
    BY <1>4, <2>1
    DEF TouchDevice, CallRaises, TypeOK, Steps, history
<1>5. CASE SaveRejected
  <2>1. msg \in Messages
    BY <1>5 DEF SaveRejected, TypeOK, CallbackInv
  <2>. QED
    BY <1>5, <2>1
    DEF SaveRejected, CallRaises, TypeOK, Steps, ErrorTypes, history
<1>6. CASE SaveAudit
  <2>1. msg \in Messages /\ outcome \in Outcomes
    BY <1>6 DEF SaveAudit, TypeOK, CallbackInv
  <2>2. audits' \in [Messages -> [Outcomes -> Nat]]
    <3>1. audits \in [Messages -> [Outcomes -> Nat]]
      BY DEF TypeOK
    <3>2. \/ audits' = audits
          \/ audits' = [audits EXCEPT ![msg][outcome] = @ + 1]
      BY <1>6 DEF SaveAudit
    <3>. QED
      BY <2>1, <3>1, <3>2
  <2>. QED
    BY <1>6, <2>1, <2>2, OutcomeFacts
    DEF SaveAudit, CallRaises, TypeOK, Steps
<1>7. ASSUME NEW m \in Messages, Publish(m)
      PROVE  TypeOK'
  <2>1. session' \in Seq(Messages) /\ dropped' \subseteq Messages
    <3>1. CASE connected
      <4>1. session' = Append(session, m) /\ dropped' = dropped
        BY <1>7, <3>1, Zenon DEF Publish
      <4>. QED
        BY <4>1 DEF TypeOK
    <3>2. CASE ~connected
      BY <1>7, <3>2 DEF Publish, TypeOK
    <3>. QED
      BY <3>1, <3>2
  <2>. QED
    BY <1>7, <2>1 DEF Publish, TypeOK, callback, tables
<1>8. CASE Disconnect
  <2>1. session' \in Seq(Messages) /\ dropped' \subseteq Messages
    BY <1>8, QueuedType DEF Disconnect, TypeOK
  <2>. QED
    BY <1>8, <2>1 DEF Disconnect, TypeOK, callback, tables
<1>9. CASE Reconnect
  BY <1>9 DEF Reconnect, TypeOK, callback, tables, history
<1>10. CASE Crash
  <2>1. session' \in Seq(Messages) /\ dropped' \subseteq Messages
    BY <1>10, QueuedType DEF Crash, TypeOK
  <2>. QED
    BY <1>10, <2>1 DEF Crash, TypeOK, tables, Steps, Outcomes
<1>11. CASE UNCHANGED vars
  BY <1>11 DEF vars, TypeOK, callback, tables, history
<1>. QED
  BY <1>1, <1>2, <1>3, <1>4, <1>5, <1>6, <1>7, <1>8, <1>9, <1>10, <1>11,
     <1>12
  DEF Next, Callback, Environment

-----------------------------------------------------------------------------
(***************************************************************************)
(* How a step may change the sales table.                                  *)
(***************************************************************************)

\* ON CONFLICT DO NOTHING, row by row.
LEMMA StoredFacts ==
  ASSUME TypeOK, NEW m \in Messages
  PROVE  /\ \A i \in Ids : rows[i] # None => Stored(m)[i] = rows[i]
         /\ \A i \in Ids : rows[i] = None =>
              Stored(m)[i] = IF i = m.id THEN m ELSE None
         /\ Stored(m)[m.id] # None
<1>1. m.id \in Ids /\ m # None
  BY MessageFacts
<1>. QED
  BY <1>1 DEF Stored, TypeOK

\* A stored sale stays what it is, whatever step is taken.
LEMMA RowsGrow ==
  ASSUME TypeOK, CallbackInv, [Next]_vars
  PROVE  \A i \in Ids : rows[i] # None => rows'[i] = rows[i]
<1>1. CASE Insert \/ InsertRaises
  <2>1. msg \in Messages
    BY <1>1 DEF Insert, InsertRaises, TypeOK, CallbackInv
  <2>2. rows' = rows \/ rows' = Stored(msg)
    BY <1>1 DEF Insert, InsertRaises
  <2>. QED
    BY <2>1, <2>2, StoredFacts
<1>2. CASE ~(Insert \/ InsertRaises)
  <2>1. rows' = rows
    BY <1>2 DEF Next, Callback, Environment, Receive, Skip, TouchDevice,
       SaveRejected, SaveAudit, Publish, Disconnect, Reconnect, Crash, vars,
       tables
  <2>. QED
    BY <2>1
<1>. QED
  BY <1>1, <1>2

\* What was published stays published.
LEMMA SentGrows ==
  ASSUME [Next]_vars
  PROVE  sent \subseteq sent'
BY DEF Next, Callback, Environment, Receive, Skip, Insert, InsertRaises, TouchDevice,
   SaveRejected, SaveAudit, Publish, Disconnect, Reconnect, Crash, vars, history

-----------------------------------------------------------------------------
(***************************************************************************)
(* The inductive invariant is preserved.                                   *)
(***************************************************************************)

\* The callback's local state stays coherent with the tables it wrote.
LEMMA NextCallback ==
  TypeOK /\ CallbackInv /\ SessionInv /\ AuditMatchesLedger /\ [Next]_vars
    => CallbackInv'
<1> SUFFICES ASSUME TypeOK, CallbackInv, SessionInv, AuditMatchesLedger,
                    [Next]_vars
             PROVE  CallbackInv'
  OBVIOUS
<1> USE MessageFacts
<1>1. CASE Receive
  <2>1. Head(session) = session[1] /\ Head(session) \in Messages
        /\ 1 \in 1 .. Len(session)
    BY <1>1 DEF Receive, TypeOK
  <2>2. Head(session) \in sent
    BY <2>1 DEF SessionInv
  <2>. QED
    BY <1>1, <2>1, <2>2 DEF Receive, CallbackInv, tables, history
<1>12. CASE Skip
  BY <1>12 DEF Skip, CallbackInv, tables, callback
<1>2. CASE Insert
  <2>1. msg \in Messages
    BY <1>2 DEF Insert, TypeOK, CallbackInv
  <2>2. rows'[msg.id] # None
    BY <1>2, <2>1, StoredFacts DEF Insert
  <2>3. rows[msg.id] = None => rows'[msg.id] = msg
    BY <1>2, <2>1, StoredFacts DEF Insert
  <2>4. rows[msg.id] = None => audits[msg]["processed"] = 0
    <3>1. audits[msg]["processed"] \in Nat
      BY <2>1, CountType, OutcomeFacts
    <3>2. audits[msg]["processed"] > 0 => rows[msg.id] = msg
      BY <2>1 DEF AuditMatchesLedger
    <3>. QED
      BY <2>1, <3>1, <3>2, MessageFacts
  <2>. QED
    BY <1>2, <2>1, <2>2, <2>3, <2>4
    DEF Insert, InsertStatus, CallbackInv, history
<1>3. CASE InsertRaises
  BY <1>3 DEF InsertRaises, CallbackInv, history
<1>4. CASE TouchDevice
  BY <1>4 DEF TouchDevice, CallbackInv, history
<1>5. CASE SaveRejected
  BY <1>5 DEF SaveRejected, CallbackInv, history
<1>6. CASE SaveAudit
  BY <1>6 DEF SaveAudit, CallbackInv
<1>7. ASSUME NEW m \in Messages, Publish(m)
      PROVE  CallbackInv'
  BY <1>7 DEF Publish, CallbackInv, callback, tables
<1>8. CASE Disconnect
  BY <1>8 DEF Disconnect, CallbackInv, callback, tables
<1>9. CASE Reconnect
  BY <1>9 DEF Reconnect, CallbackInv, callback, tables, history
<1>10. CASE Crash
  BY <1>10 DEF Crash, CallbackInv, tables
<1>11. CASE UNCHANGED vars
  BY <1>11 DEF vars, CallbackInv, callback, tables, history
<1>. QED
  BY <1>1, <1>2, <1>3, <1>4, <1>5, <1>6, <1>7, <1>8, <1>9, <1>10, <1>11,
     <1>12
  DEF Next, Callback, Environment

\* Whatever is queued was published.
LEMMA NextSession ==
  TypeOK /\ SessionInv /\ [Next]_vars => SessionInv'
<1> SUFFICES ASSUME TypeOK, SessionInv, [Next]_vars
             PROVE  SessionInv'
  OBVIOUS
<1>0. session \in Seq(Messages)
  BY DEF TypeOK
<1>1. CASE Receive \/ Skip
  <2>1. session' = Tail(session) /\ session # <<>> /\ sent' = sent
    BY <1>1 DEF Receive, Skip, history
  <2>2. \A i \in 1 .. Len(Tail(session)) :
          Tail(session)[i] = session[i + 1] /\ i + 1 \in 1 .. Len(session)
    BY <1>0, <2>1
  <2>. QED
    BY <2>1, <2>2 DEF SessionInv
<1>2. ASSUME NEW m \in Messages, Publish(m)
      PROVE  SessionInv'
  <2>1. sent' = sent \cup {m}
    BY <1>2 DEF Publish
  <2>2. session' = Append(session, m) \/ session' = session
    BY <1>2 DEF Publish
  <2>. QED
    BY <1>0, <2>1, <2>2 DEF SessionInv
<1>3. CASE session' = <<>>
  BY <1>3 DEF SessionInv
<1>4. CASE session' = session
  BY <1>4, SentGrows DEF SessionInv
<1>. QED
  BY <1>1, <1>2, <1>3, <1>4
  DEF Next, Callback, Environment, Insert, InsertRaises, TouchDevice,
      SaveRejected, SaveAudit, Disconnect, Reconnect, Crash, vars

\* Whatever is stored was published, is valid and is under its own id.
LEMMA NextRows ==
  TypeOK /\ CallbackInv /\ RowsInv /\ [Next]_vars => RowsInv'
<1> SUFFICES ASSUME TypeOK, CallbackInv, RowsInv, [Next]_vars
             PROVE  RowsInv'
  OBVIOUS
<1>1. CASE Insert \/ InsertRaises
  <2>1. msg \in Messages /\ msg.valid /\ msg \in sent
    BY <1>1 DEF Insert, InsertRaises, TypeOK, CallbackInv
  <2>2. rows' = rows \/ rows' = Stored(msg)
    BY <1>1 DEF Insert, InsertRaises
  <2>3. sent' = sent
    BY <1>1 DEF Insert, InsertRaises, history
  <2>. QED
    BY <2>1, <2>2, <2>3, StoredFacts DEF RowsInv
<1>2. CASE ~(Insert \/ InsertRaises)
  <2>1. rows' = rows
    BY <1>2 DEF Next, Callback, Environment, Receive, Skip, TouchDevice,
       SaveRejected, SaveAudit, Publish, Disconnect, Reconnect, Crash, vars,
       tables
  <2>. QED
    BY <2>1, SentGrows DEF RowsInv
<1>. QED
  BY <1>1, <1>2

\* What the audit step counts, and what every other step leaves alone.
LEMMA AuditStep ==
  ASSUME TypeOK, CallbackInv, [Next]_vars
  PROVE  \/ audits' = audits
         \/ /\ msg \in Messages /\ pc = "audit"
            /\ rows' = rows
            /\ \A m \in Messages : \A o \in Outcomes :
                 audits'[m][o] = IF m = msg /\ o = outcome
                                 THEN audits[m][o] + 1 ELSE audits[m][o]
<1>1. CASE SaveAudit
  <2>1. msg \in Messages /\ outcome \in Outcomes
    BY <1>1 DEF SaveAudit, TypeOK, CallbackInv
  <2>2. audits \in [Messages -> [Outcomes -> Nat]]
    BY DEF TypeOK
  <2>3. \/ audits' = audits
        \/ audits' = [audits EXCEPT ![msg][outcome] = @ + 1]
    BY <1>1 DEF SaveAudit
  <2>4. pc = "audit" /\ rows' = rows
    BY <1>1 DEF SaveAudit
  <2>. QED
    BY <2>1, <2>2, <2>3, <2>4
<1>2. CASE ~SaveAudit
  BY <1>2 DEF Next, Callback, Environment, Receive, Skip, Insert, InsertRaises,
     TouchDevice, SaveRejected, Publish, Disconnect, Reconnect, Crash, vars,
     tables
<1>. QED
  BY <1>1, <1>2

\* An audit row is written only when it is true, and it stays true.
LEMMA NextAudit ==
  TypeOK /\ CallbackInv /\ AuditMatchesLedger /\ [Next]_vars
    => AuditMatchesLedger'
<1> SUFFICES ASSUME TypeOK, CallbackInv, AuditMatchesLedger, [Next]_vars,
                    NEW m \in Messages
             PROVE  /\ audits'[m]["processed"] > 0 =>
                         rows'[m.id] = m /\ audits'[m]["processed"] = 1
                    /\ audits'[m]["duplicate"] > 0 => rows'[m.id] # None
  BY DEF AuditMatchesLedger
<1>1. /\ audits[m]["processed"] \in Nat
      /\ audits[m]["duplicate"] \in Nat
  BY CountType, OutcomeFacts
<1>2. /\ audits[m]["processed"] > 0 =>
           rows[m.id] = m /\ audits[m]["processed"] = 1
      /\ audits[m]["duplicate"] > 0 => rows[m.id] # None
  BY DEF AuditMatchesLedger
<1>3. m.id \in Ids /\ m # None
  BY MessageFacts
<1>4. rows[m.id] # None => rows'[m.id] = rows[m.id]
  BY <1>3, RowsGrow
<1>5. CASE audits' = audits
  BY <1>2, <1>3, <1>4, <1>5
<1>6. CASE /\ pc = "audit" /\ rows' = rows
           /\ audits'[m]["processed"] =
                IF m = msg /\ outcome = "processed"
                THEN audits[m]["processed"] + 1 ELSE audits[m]["processed"]
           /\ audits'[m]["duplicate"] =
                IF m = msg /\ outcome = "duplicate"
                THEN audits[m]["duplicate"] + 1 ELSE audits[m]["duplicate"]
  BY <1>1, <1>2, <1>6 DEF CallbackInv
<1>. QED
  BY <1>5, <1>6, AuditStep, OutcomeFacts

-----------------------------------------------------------------------------
(***************************************************************************)
(* The invariant, and what follows from it.                                *)
(***************************************************************************)

\* It holds initially.
LEMMA InitInv == Init => IInv
<1> SUFFICES ASSUME Init PROVE IInv
  OBVIOUS
<1>1. TypeOK
  BY InitType
<1>2. SessionInv /\ RowsInv /\ CallbackInv
  BY DEF Init, SessionInv, RowsInv, CallbackInv
<1>3. AuditMatchesLedger
  BY OutcomeFacts DEF Init, AuditMatchesLedger
<1>. QED
  BY <1>1, <1>2, <1>3 DEF IInv

\* Every step keeps it.
LEMMA NextInv == IInv /\ [Next]_vars => IInv'
BY NextType, NextCallback, NextSession, NextRows, NextAudit DEF IInv

\* It holds in every reachable state.
THEOREM Invariance == Spec => []IInv
BY InitInv, NextInv, PTL DEF Spec

\* The state stays typed: in particular the callback is only ever at one of its
\* five steps and every audit counter is a number.
THEOREM TypeCorrect == Spec => []TypeOK
<1>1. IInv => TypeOK
  BY DEF IInv
<1>. QED
  BY <1>1, Invariance, PTL

\* The audit table never contradicts the sales table: for every number of
\* publications, crashes and failing database calls.
THEOREM AuditCorrect == Spec => []AuditMatchesLedger
<1>1. IInv => AuditMatchesLedger
  BY DEF IInv
<1>. QED
  BY <1>1, Invariance, PTL

-----------------------------------------------------------------------------
(***************************************************************************)
(* Refinement: a committed INSERT of a new sale is the ledger's Record, a  *)
(* publication its Offer, and everything else is invisible to the ledger.  *)
(***************************************************************************)
LEMMA InitRefines == Init => Ledger!Init
BY DEF Init, Ledger!Init

\* Every step of the consumer is a step of the ledger or none.
LEMMA StepRefines == IInv /\ [Next]_vars => [Ledger!Next]_(Ledger!vars)
<1> SUFFICES ASSUME IInv, [Next]_vars
             PROVE  Ledger!Next \/ UNCHANGED Ledger!vars
  OBVIOUS
<1>1. TypeOK /\ CallbackInv
  BY DEF IInv
<1>2. CASE Insert \/ InsertRaises
  <2>1. msg \in Messages /\ msg.valid /\ msg \in sent
    BY <1>1, <1>2 DEF Insert, InsertRaises, TypeOK, CallbackInv
  <2>2. sent' = sent
    BY <1>2 DEF Insert, InsertRaises, history
  <2>3. rows' = rows \/ rows' = Stored(msg)
    BY <1>2 DEF Insert, InsertRaises
  <2>4. CASE rows' = rows
    BY <2>2, <2>4 DEF Ledger!vars
  <2>5. CASE rows' = Stored(msg) /\ rows' # rows
    <3>1. rows[msg.id] = None /\ rows' = [rows EXCEPT ![msg.id] = msg]
      BY <2>5 DEF Stored
    <3>2. Ledger!Record(msg)
      BY <2>1, <2>2, <3>1 DEF Ledger!Record
    <3>. QED
      BY <2>1, <3>2 DEF Ledger!Next
  <2>. QED
    BY <2>3, <2>4, <2>5
<1>3. ASSUME NEW m \in Messages, Publish(m)
      PROVE  Ledger!Next
  <2>1. Ledger!Offer(m)
    BY <1>3 DEF Publish, tables, Ledger!Offer
  <2>. QED
    BY <2>1 DEF Ledger!Next
<1>4. CASE sent' = sent /\ rows' = rows
  BY <1>4 DEF Ledger!vars
<1>. QED
  BY <1>2, <1>3, <1>4
  DEF Next, Callback, Environment, Receive, Skip, TouchDevice, SaveRejected,
      SaveAudit, Disconnect, Reconnect, Crash, vars, tables, history

\* Redelivery, lost commit replies, crashes and failing tables notwithstanding,
\* pump_transactions is the first valid message of each id, for good.
THEOREM Implements == Spec => ImplementsLedger
BY InitRefines, StepRefines, Invariance, PTL
DEF Spec, ImplementsLedger, Ledger!Spec

-----------------------------------------------------------------------------
(***************************************************************************)
(* Further invariants, each preserved in the presence of IInv.             *)
(***************************************************************************)

\* Failed calls are only ever added up.
LEMMA FailuresGrow ==
  ASSUME TypeOK, [Next]_vars
  PROVE  failures \in Nat /\ failures' \in {failures, failures + 1}
BY DEF TypeOK, Next, Callback, Environment, Receive, Skip, Insert, InsertRaises,
   TouchDevice, SaveRejected, SaveAudit, Publish, Disconnect, Reconnect, Crash,
   vars, CallRaises

\* A device is credited only after the sale's own transaction has committed.
LEMMA NextCredit ==
  IInv /\ DeviceCreditIsStored /\ [Next]_vars => DeviceCreditIsStored'
<1> SUFFICES ASSUME IInv, DeviceCreditIsStored, [Next]_vars,
                    NEW d \in Devices, seen'[d] # None
             PROVE  rows'[seen'[d]] # None
  BY DEF DeviceCreditIsStored
<1>1. TypeOK /\ CallbackInv
  BY DEF IInv
<1>2. \A i \in Ids : rows[i] # None => rows'[i] = rows[i]
  BY <1>1, RowsGrow
<1>3. CASE seen' = seen
  <2>1. seen[d] \in Ids
    BY <1>1, <1>3 DEF TypeOK
  <2>. QED
    BY <1>2, <1>3, <2>1 DEF DeviceCreditIsStored
<1>4. CASE TouchDevice /\ seen' # seen
  <2>1. msg \in Messages /\ rows[msg.id] # None
    BY <1>1, <1>4 DEF TouchDevice, TypeOK, CallbackInv
  <2>2. seen' = [seen EXCEPT ![msg.dev] = msg.id]
    BY <1>4 DEF TouchDevice
  <2>3. seen'[d] = msg.id \/ seen'[d] = seen[d]
    BY <1>1, <2>2 DEF TypeOK
  <2>4. seen[d] # None => seen[d] \in Ids
    BY <1>1 DEF TypeOK
  <2>. QED
    BY <1>2, <2>1, <2>3, <2>4, MessageFacts DEF DeviceCreditIsStored
<1>. QED
  BY <1>3, <1>4
  DEF Next, Callback, Environment, Receive, Skip, Insert, InsertRaises, SaveRejected,
      SaveAudit, Publish, Disconnect, Reconnect, Crash, vars, tables

\* The devices table never names a sale that is missing from the sales table.
THEOREM DeviceCreditCorrect == Spec => []DeviceCreditIsStored
<1>1. Init => DeviceCreditIsStored
  BY DEF Init, DeviceCreditIsStored
<1>. QED
  BY <1>1, NextCredit, Invariance, PTL DEF Spec

\* No step takes a trace away.
LEMMA TraceGrows ==
  ASSUME TypeOK, CallbackInv, [Next]_vars, NEW m \in Messages
  PROVE  /\ Kept(m) => Kept(m)'
         /\ Refused(m) => Refused(m)'
         /\ Audited(m) => Audited(m)'
<1>1. rejected \subseteq rejected'
  BY DEF Next, Callback, Environment, Receive, Skip, Insert, InsertRaises,
     TouchDevice, SaveRejected, SaveAudit, Publish, Disconnect, Reconnect,
     Crash, vars, tables
<1>2. rows[m.id] # None => rows'[m.id] = rows[m.id]
  BY RowsGrow, MessageFacts
<1>3. \A o \in Outcomes : audits[m][o] > 0 => audits'[m][o] > 0
  BY AuditStep, CountType
<1>. QED
  BY <1>1, <1>2, <1>3 DEF Kept, Refused, Audited

\* The trace of the message in hand and of the handled ones.
LEMMA NextTrace == IInv /\ TraceInv /\ [Next]_vars => TraceInv'
<1> SUFFICES ASSUME IInv, TraceInv, [Next]_vars
             PROVE  TraceInv'
  OBVIOUS
<1> DEFINE
  Traced(m) ==
    /\ m.valid  => Kept(m) \/ failures >= 2
    /\ ~m.valid => Refused(m) \/ failures >= 1
    /\ m.valid  => Kept(m) \/ Audited(m) \/ failures >= 3
    /\ ~m.valid => Refused(m) \/ Audited(m) \/ failures >= 2
  Pending ==
    /\ pc = "audit" /\ outcome = "error" => Kept(msg) \/ failures >= 2
    /\ pc = "audit" /\ outcome = "rejected" => Refused(msg) \/ failures >= 1
    /\ pc = "reject" /\ outcome = "error" => failures >= 1
<1>0. TypeOK /\ CallbackInv
  BY DEF IInv
<1>1. failures \in Nat /\ failures' \in {failures, failures + 1}
  BY <1>0, FailuresGrow
<1>2. \A m \in Messages : Traced(m) => Traced(m)'
  BY <1>0, <1>1, TraceGrows
<1>3. HandledLeavesTrace' /\ Pending'
  <2>1. CASE SaveAudit
    <3>0. PICK m \in Messages : m = msg
      BY <1>0, <2>1 DEF SaveAudit, CallbackInv, TypeOK
    <3>1. handled' = handled \cup {m} /\ pc' = "idle"
      BY <2>1, <3>0 DEF SaveAudit
    <3>2. outcome \in Outcomes /\ pc = "audit"
      BY <1>0, <2>1 DEF SaveAudit, TypeOK
    <3>3. Audited(m)' \/ failures' = failures + 1
      <4>1. CASE audits' = [audits EXCEPT ![m][outcome] = @ + 1]
        <5>1. audits'[m][outcome] > 0
          <6>1. audits \in [Messages -> [Outcomes -> Nat]]
            BY <1>0 DEF TypeOK
          <6>2. audits[m][outcome] \in Nat
            BY <3>2, <6>1
          <6>3. audits'[m][outcome] = audits[m][outcome] + 1
            BY <3>2, <4>1, <6>1
          <6>. QED
            BY <6>2, <6>3
        <5>. QED
          BY <3>2, <5>1 DEF Audited
      <4>. QED
        BY <2>1, <3>0, <4>1 DEF SaveAudit, CallRaises
    <3>4. m.valid => Kept(m) \/ failures >= 2
      BY <1>0, <3>0, <3>2 DEF TraceInv, CallbackInv, Kept, Outcomes
    <3>5. ~m.valid => Refused(m) \/ failures >= 1
      BY <1>0, <3>0, <3>2, MessageFacts DEF TraceInv, CallbackInv
    <3>6. Traced(m)'
      BY <1>0, <1>1, <3>3, <3>4, <3>5, TraceGrows
    <3>7. HandledLeavesTrace'
      <4>1. \A h \in handled : h \in Messages /\ (~h.skipped => Traced(h))
        BY <1>0 DEF TypeOK, TraceInv, HandledLeavesTrace
      <4>. QED
        BY <1>2, <3>1, <3>6, <4>1 DEF HandledLeavesTrace
    <3>. QED
      BY <3>1, <3>7
  <2>2. CASE ~SaveAudit
    <3>1. \A h \in handled' : ~h.skipped => h \in handled
      <4>1. CASE Skip
        BY <4>1 DEF Skip
      <4>2. CASE ~Skip
        <5>1. handled' = handled
          BY <2>2, <4>2 DEF Next, Callback, Environment, Receive, Insert,
             InsertRaises, TouchDevice, SaveRejected, Publish, Disconnect,
             Reconnect, Crash, vars, history
        <5>. QED
          BY <5>1
      <4>. QED
        BY <4>1, <4>2
    <3>2. HandledLeavesTrace'
      <4>1. \A h \in handled : h \in Messages /\ (~h.skipped => Traced(h))
        BY <1>0 DEF TypeOK, TraceInv, HandledLeavesTrace
      <4>. QED
        BY <1>2, <3>1, <4>1 DEF HandledLeavesTrace
    <3>3. Pending'
      <4>1. CASE SaveRejected
        <5>1. msg \in Messages /\ msg' = msg /\ outcome' = outcome
          BY <1>0, <4>1 DEF SaveRejected, CallbackInv, TypeOK
        <5>2. \/ failures' = failures + 1
              \/ msg.valid /\ Kept(msg)'
              \/ ~msg.valid /\ Refused(msg)'
          BY <4>1, <5>1 DEF SaveRejected, CallRaises, Kept, Refused
        <5>3. pc = "reject" /\ pc' = "audit"
          BY <4>1 DEF SaveRejected
        <5>4. outcome = "error" => msg.valid
          BY <1>0, <5>3 DEF CallbackInv
        <5>5. outcome = "rejected" => ~msg.valid
          BY <1>0 DEF CallbackInv
        <5>. QED
          BY <1>1, <5>1, <5>2, <5>3, <5>4, <5>5 DEF TraceInv
      <4>2. CASE InsertRaises
        BY <1>1, <4>2 DEF InsertRaises, CallRaises
      <4>3. CASE Receive \/ Insert \/ TouchDevice \/ Crash
        BY <1>0, <4>3, MessageFacts DEF Receive, Insert, InsertStatus,
           TouchDevice, Crash, CallbackInv, TypeOK
      <4>4. CASE UNCHANGED callback
        <5>1. pc' = pc /\ msg' = msg /\ outcome' = outcome
          BY <4>4 DEF callback
        <5>2. pc # "idle" => msg \in Messages
          BY <1>0 DEF CallbackInv, TypeOK
        <5>. QED
          BY <1>0, <1>1, <5>1, <5>2, TraceGrows DEF TraceInv
      <4>. QED
        BY <2>2, <4>1, <4>2, <4>3, <4>4 DEF Next, Callback, Environment,
           Skip, Publish, Disconnect, Reconnect, vars
    <3>. QED
      BY <3>2, <3>3
  <2>. QED
    BY <2>1, <2>2
<1>. QED
  BY <1>3 DEF TraceInv

\* An acknowledged message is in none of the tables only if as many database
\* calls failed as it takes, whatever the number of messages and failures.
THEOREM TraceCorrect == Spec => []HandledLeavesTrace
<1>1. Init => TraceInv
  BY DEF Init, TraceInv, HandledLeavesTrace
<1>2. TraceInv => HandledLeavesTrace
  BY DEF TraceInv
<1>. QED
  BY <1>1, <1>2, NextTrace, Invariance, PTL DEF Spec

\* Only a fault separates a stored sale from its audit row.
LEMMA NextGap == IInv /\ GapNeedsFault /\ [Next]_vars => GapNeedsFault'
<1> SUFFICES ASSUME IInv, GapNeedsFault, [Next]_vars,
                    NEW i \in Ids, rows'[i] # None
             PROVE  \/ audits'[rows'[i]]["processed"] = 1
                    \/ pc' \in {"touch", "audit"} /\ msg' = rows'[i]
                         /\ outcome' = "processed"
                    \/ failures' > 0
                    \/ crashed'
  BY DEF GapNeedsFault
<1>0. TypeOK /\ CallbackInv
  BY DEF IInv
<1>1. failures \in Nat /\ failures' \in {failures, failures + 1}
  BY <1>0, FailuresGrow
<1>2. CASE rows[i] = None
  <2>1. Insert \/ InsertRaises
    BY <1>2 DEF Next, Callback, Environment, Receive, Skip, TouchDevice,
       SaveRejected, SaveAudit, Publish, Disconnect, Reconnect, Crash, vars,
       tables
  <2>2. CASE InsertRaises
    BY <1>1, <2>2 DEF InsertRaises, CallRaises
  <2>3. CASE Insert
    <3>1. msg \in Messages /\ rows' = Stored(msg)
      BY <1>0, <2>3 DEF Insert, TypeOK, CallbackInv
    <3>2. i = msg.id /\ rows'[i] = msg
      BY <1>0, <1>2, <3>1, StoredFacts
    <3>. QED
      BY <1>2, <2>3, <3>2 DEF Insert, InsertStatus
  <2>. QED
    BY <2>1, <2>2, <2>3
<1>3. CASE rows[i] # None
  <2>1. rows'[i] = rows[i] /\ rows[i] \in Messages
    BY <1>0, <1>3, RowsGrow DEF TypeOK
  <2>2. \/ audits[rows[i]]["processed"] = 1
        \/ pc \in {"touch", "audit"} /\ msg = rows[i] /\ outcome = "processed"
        \/ failures > 0
        \/ crashed
    BY <1>3 DEF GapNeedsFault
  <2>3. CASE audits[rows[i]]["processed"] = 1
    <3>1. audits' = audits \/ audits'[rows[i]]["processed"] = 1
      BY <1>0, <2>1, <2>3, AuditStep, OutcomeFacts DEF CallbackInv
    <3>. QED
      BY <2>1, <2>3, <3>1
  <2>4. CASE /\ pc \in {"touch", "audit"} /\ msg = rows[i]
             /\ outcome = "processed"
    <3>1. CASE SaveAudit
      <4>1. audits[msg]["processed"] = 0
        BY <1>0, <2>4 DEF CallbackInv
      <4>2. CASE audits' = [audits EXCEPT ![msg][outcome] = @ + 1]
        <5>1. audits \in [Messages -> [Outcomes -> Nat]]
          BY <1>0 DEF TypeOK
        <5>. QED
          BY <2>1, <2>4, <4>1, <4>2, <5>1, OutcomeFacts
      <4>. QED
        BY <1>1, <3>1, <4>2 DEF SaveAudit, CallRaises
    <3>2. CASE ~SaveAudit
      BY <2>1, <2>4, <3>2 DEF Next, Callback, Environment, Receive, Skip, Insert,
         InsertRaises, TouchDevice, SaveRejected, Publish, Disconnect,
         Reconnect, Crash, vars, callback
    <3>. QED
      BY <3>1, <3>2
  <2>5. CASE failures > 0
    BY <1>1, <2>5
  <2>6. CASE crashed
    BY <2>6 DEF Next, Callback, Environment, Receive, Skip, Insert, InsertRaises,
       TouchDevice, SaveRejected, SaveAudit, Publish, Disconnect, Reconnect,
       Crash, vars, history
  <2>. QED
    BY <2>2, <2>3, <2>4, <2>5, <2>6
<1>. QED
  BY <1>2, <1>3

\* A gap between the sales table and the audit table needs a crash or a failed
\* call: no interleaving of deliveries alone can produce one.
THEOREM GapCorrect == Spec => []GapNeedsFault
<1>1. Init => GapNeedsFault
  BY DEF Init, GapNeedsFault
<1>. QED
  BY <1>1, NextGap, Invariance, PTL DEF Spec
=============================================================================
