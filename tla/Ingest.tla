------------------------------- MODULE Ingest -------------------------------
(***************************************************************************)
(* The transaction path of the Python consumer (consumer/app): the broker  *)
(* session, the MQTT callback that handles one message at a time, and the  *)
(* separate database transactions one message costs:                       *)
(*                                                                         *)
(*    insert the sale  ->  touch its device  ->  write the audit row       *)
(*         | (exception)                              ^                    *)
(*         +---> write a rejected_messages row -------+                    *)
(*                                                                         *)
(* Any database call may raise, before or after its commit took effect.    *)
(* The process may die between two calls.  The session is clean            *)
(* (clean_session=True), so whatever it holds is gone when the connection  *)
(* is: nothing is redelivered, and duplicates come from the publisher.     *)
(***************************************************************************)
EXTENDS Naturals, Sequences

CONSTANTS
  Ids,          \* transaction ids
  Devices,      \* device codes
  Bodies,       \* everything else a sale says
  Messages,     \* the messages that may be published
  None,         \* no row, no message, no device
  MaxPublishes, \* bound: publications in one behaviour
  MaxFailures   \* bound: database calls that raise in one behaviour

MessageType ==
  [id : Ids, dev : Devices \cup {None}, body : Bodies, valid : BOOLEAN,
   skipped : BOOLEAN]

ASSUME MessagesAssumption == Messages \subseteq MessageType
ASSUME NoneAssumption == None \notin Ids \cup Devices \cup MessageType
ASSUME BoundsAssumption == MaxPublishes \in Nat /\ MaxFailures \in Nat

VARIABLES
  connected,  \* the consumer holds a session at the broker
  session,    \* messages queued for that session, oldest first
  pc,         \* next step of the callback, "idle" between messages
  msg,        \* the message the callback is handling
  outcome,    \* processing_status the callback will audit
  rows,       \* pump_transactions: id -> message stored under it
  seen,       \* devices: code -> id of the sale it was last credited with
  rejected,   \* rejected_messages, as a set
  audits,     \* mqtt_messages: rows per message and processing_status
  publishes,  \* publications so far
  failures,   \* database calls that raised so far
  sent,       \* history: messages ever published
  handled,    \* history: messages whose callback ran to its end
  dropped,    \* history: messages lost with a session or a process
  crashed     \* history: the process died at least once

callback == <<pc, msg, outcome>>
tables   == <<rows, seen, rejected, audits>>
history  == <<sent, handled, dropped, crashed>>
vars == <<connected, session, callback, tables, publishes, failures, history>>

Outcomes   == {"processed", "duplicate", "rejected", "error"}
ErrorTypes == {"VALIDATION", "POSTGRES_ERROR"}
Steps      == {"idle", "insert", "touch", "reject", "audit"}

TypeOK ==
  /\ connected \in BOOLEAN
  /\ session \in Seq(Messages)
  /\ pc \in Steps
  /\ msg \in Messages \cup {None}
  /\ outcome \in Outcomes
  /\ rows \in [Ids -> Messages \cup {None}]
  /\ seen \in [Devices -> Ids \cup {None}]
  /\ rejected \subseteq [msg : Messages, type : ErrorTypes]
  /\ audits \in [Messages -> [Outcomes -> Nat]]
  /\ publishes \in Nat
  /\ failures \in Nat
  /\ sent \subseteq Messages
  /\ handled \subseteq Messages
  /\ dropped \subseteq Messages
  /\ crashed \in BOOLEAN

Init ==
  /\ connected = TRUE
  /\ session = <<>>
  /\ pc = "idle" /\ msg = None /\ outcome = "processed"
  /\ rows = [i \in Ids |-> None]
  /\ seen = [d \in Devices |-> None]
  /\ rejected = {}
  /\ audits = [m \in Messages |-> [o \in Outcomes |-> 0]]
  /\ publishes = 0
  /\ failures = 0
  /\ sent = {} /\ handled = {} /\ dropped = {} /\ crashed = FALSE

-----------------------------------------------------------------------------
(***************************************************************************)
(* The publisher and the broker (outside the repository).  The publisher   *)
(* may send the same sale again; the broker keeps a message only for a     *)
(* session that exists.                                                    *)
(***************************************************************************)
Queued == {session[i] : i \in 1 .. Len(session)}

Publish(m) ==
  /\ publishes < MaxPublishes
  /\ publishes' = publishes + 1
  /\ sent' = sent \cup {m}
  /\ \/ connected /\ session' = Append(session, m) /\ UNCHANGED dropped
     \/ ~connected /\ dropped' = dropped \cup {m} /\ UNCHANGED session
  /\ UNCHANGED <<connected, callback, tables, failures, handled, crashed>>

\* The connection breaks; a callback that is running goes on.
Disconnect ==
  /\ connected
  /\ connected' = FALSE
  /\ session' = <<>>
  /\ dropped' = dropped \cup Queued
  /\ UNCHANGED <<callback, tables, publishes, failures, sent, handled, crashed>>

\* paho reconnects from the thread that runs the callback, and subscribes.
Reconnect ==
  /\ ~connected
  /\ pc = "idle"
  /\ connected' = TRUE
  /\ UNCHANGED <<session, callback, tables, publishes, failures, history>>

\* The process dies: the callback and the session are gone.
Crash ==
  /\ connected' = FALSE
  /\ session' = <<>>
  /\ pc' = "idle" /\ msg' = None /\ outcome' = "processed"
  /\ dropped' = dropped \cup Queued \cup ({msg} \ {None})
  /\ crashed' = TRUE
  /\ UNCHANGED <<tables, publishes, failures, sent, handled>>

-----------------------------------------------------------------------------
(***************************************************************************)
(* The callback: ConsumerApp.handle_message for a topic that is neither a  *)
(* station nor an edge-device event, then TransactionService.              *)
(***************************************************************************)
CallRaises ==
  /\ failures < MaxFailures
  /\ failures' = failures + 1

\* Mutant: a message that does not validate is skipped without a trace.
ReceiveDroppingInvalid ==
  /\ pc = "idle" /\ connected /\ session # <<>>
  /\ ~Head(session).skipped
  /\ session' = Tail(session)
  /\ IF Head(session).valid
     THEN pc' = "insert" /\ msg' = Head(session) /\ outcome' = "error"
     ELSE UNCHANGED callback
  /\ UNCHANGED <<connected, tables, publishes, failures, history>>

\* normalize_transaction decides which way the message goes.
Receive ==
  /\ pc = "idle" /\ connected /\ session # <<>>
  /\ ~Head(session).skipped
  /\ session' = Tail(session)
  /\ msg' = Head(session)
  /\ pc' = IF Head(session).valid THEN "insert" ELSE "reject"
  /\ outcome' = IF Head(session).valid THEN "error" ELSE "rejected"
  /\ UNCHANGED <<connected, tables, publishes, failures, history>>

\* The callback ends at once and writes nothing: numbers on which
\* normalize_transaction raises (a NaN volume), or a message without an id that
\* looks like a station event and that process_event then ignores.
Skip ==
  /\ pc = "idle" /\ connected /\ session # <<>>
  /\ Head(session).skipped
  /\ session' = Tail(session)
  /\ handled' = handled \cup {Head(session)}
  /\ UNCHANGED <<connected, callback, tables, publishes, failures, sent,
                 dropped, crashed>>

\* Mutant: ON CONFLICT (id) DO UPDATE.
StoredOverwriting(m) == [rows EXCEPT ![m.id] = m]

\* INSERT ... ON CONFLICT (id) DO NOTHING.
Stored(m) ==
  IF rows[m.id] = None THEN [rows EXCEPT ![m.id] = m] ELSE rows

\* Mutant: the status does not depend on whether the INSERT returned a row.
InsertStatusBlind(m) == "processed"

\* RETURNING id yields a row only for a new sale.
InsertStatus(m) == IF rows[m.id] = None THEN "processed" ELSE "duplicate"

Insert ==
  /\ pc = "insert"
  /\ rows' = Stored(msg)
  /\ outcome' = InsertStatus(msg)
  /\ pc' = IF msg.dev = None THEN "audit" ELSE "touch"
  /\ UNCHANGED <<connected, session, msg, seen, rejected, audits, publishes,
                 failures, history>>

\* Mutant: the exception handler audits the error but keeps no copy.
InsertRaisesUnsaved ==
  /\ pc = "insert"
  /\ CallRaises
  /\ rows' \in {rows, Stored(msg)}
  /\ pc' = "audit"
  /\ UNCHANGED <<connected, session, msg, outcome, seen, rejected, audits,
                 publishes, history>>

\* Mutant: the exception handler logs and goes on to the device.
InsertRaisesContinuing ==
  /\ pc = "insert"
  /\ CallRaises
  /\ rows' \in {rows, Stored(msg)}
  /\ pc' = IF msg.dev = None THEN "audit" ELSE "touch"
  /\ UNCHANGED <<connected, session, msg, outcome, seen, rejected, audits,
                 publishes, history>>

\* The call raises; its commit may have taken effect all the same.
InsertRaises ==
  /\ pc = "insert"
  /\ CallRaises
  /\ rows' \in {rows, Stored(msg)}
  /\ pc' = "reject"
  /\ UNCHANGED <<connected, session, msg, outcome, seen, rejected, audits,
                 publishes, history>>

\* Mutant: the device is touched for every message that names one, and the
\* callback ends there.
TouchDeviceLast ==
  /\ pc = "touch"
  /\ seen' = [seen EXCEPT ![msg.dev] = msg.id]
  /\ pc' = "idle" /\ msg' = None /\ outcome' = "processed"
  /\ handled' = handled \cup {msg}
  /\ UNCHANGED <<connected, session, rows, rejected, audits, publishes,
                 failures, sent, dropped, crashed>>

\* _touch_device swallows its own exceptions.
TouchDevice ==
  /\ pc = "touch"
  /\ \/ seen' = [seen EXCEPT ![msg.dev] = msg.id] /\ UNCHANGED failures
     \/ CallRaises /\ UNCHANGED seen
  /\ pc' = "audit"
  /\ UNCHANGED <<connected, session, msg, outcome, rows, rejected, audits,
                 publishes, history>>

\* Mutant: error_type is filled from the processing status.
SaveRejectedUntyped ==
  /\ pc = "reject"
  /\ rejected' = rejected \cup {[msg |-> msg, type |-> outcome]}
  /\ pc' = "audit"
  /\ UNCHANGED <<connected, session, msg, outcome, rows, seen, audits,
                 publishes, failures, history>>

\* _save_rejected swallows its own exceptions.
SaveRejected ==
  /\ pc = "reject"
  /\ \/ /\ rejected' = rejected \cup
             {[msg |-> msg,
               type |-> IF msg.valid THEN "POSTGRES_ERROR" ELSE "VALIDATION"]}
        /\ UNCHANGED failures
     \/ CallRaises /\ UNCHANGED rejected
  /\ pc' = "audit"
  /\ UNCHANGED <<connected, session, msg, outcome, rows, seen, audits,
                 publishes, history>>

\* _save_mqtt_message swallows its own exceptions; then the callback returns
\* and the message is acknowledged.
SaveAudit ==
  /\ pc = "audit"
  /\ \/ /\ audits' = [audits EXCEPT ![msg][outcome] = @ + 1]
        /\ UNCHANGED failures
     \/ CallRaises /\ UNCHANGED audits
  /\ pc' = "idle" /\ msg' = None /\ outcome' = "processed"
  /\ handled' = handled \cup {msg}
  /\ UNCHANGED <<connected, session, rows, seen, rejected, publishes, sent,
                 dropped, crashed>>

-----------------------------------------------------------------------------
Callback ==
  \/ Receive \/ Skip \/ Insert \/ InsertRaises \/ TouchDevice
  \/ SaveRejected \/ SaveAudit

Environment ==
  \/ \E m \in Messages : Publish(m)
  \/ Disconnect \/ Reconnect \/ Crash

Next == Callback \/ Environment

Spec == Init /\ [][Next]_vars

\* loop_forever keeps calling back while the process lives; every step of the
\* callback ends, if only by raising.
Fairness == WF_vars(Callback)

FairSpec == Spec /\ Fairness
-----------------------------------------------------------------------------
(***************************************************************************)
(* Properties.                                                             *)
(***************************************************************************)

\* The refinement: published messages are the offers, pump_transactions is the
\* ledger.  Redelivery, a lost commit reply, a crash or a failing table never
\* makes the sales table differ from "first valid message of its id, for good".
Ledger == INSTANCE TransactionLedger WITH offered <- sent, ledger <- rows

ImplementsLedger == Ledger!Spec

\* The audit trail never contradicts the sales table although they are written
\* by different database transactions: a message audited "processed" is the one
\* stored and was audited so once, and "duplicate" is said only of a stored id.
AuditMatchesLedger ==
  \A m \in Messages :
    /\ audits[m]["processed"] > 0 =>
         rows[m.id] = m /\ audits[m]["processed"] = 1
    /\ audits[m]["duplicate"] > 0 => rows[m.id] # None

\* A sale that is stored without its "processed" audit row is evidence of a
\* fault: in a run without crashes and failed calls the audit is complete but
\* for the message being handled.
GapNeedsFault ==
  \A i \in Ids :
    rows[i] # None =>
      \/ audits[rows[i]]["processed"] = 1
      \/ pc \in {"touch", "audit"} /\ msg = rows[i] /\ outcome = "processed"
      \/ failures > 0
      \/ crashed

\* One failing database call never makes an acknowledged message vanish unless
\* the callback skips it outright: a valid one is stored or kept with
\* POSTGRES_ERROR, and a message is in none of the three tables only after two
\* calls failed (three for a valid one).
Kept(m) ==
  rows[m.id] # None \/ [msg |-> m, type |-> "POSTGRES_ERROR"] \in rejected
Refused(m) == [msg |-> m, type |-> "VALIDATION"] \in rejected
Audited(m) == \E o \in Outcomes : audits[m][o] > 0

HandledLeavesTrace ==
  \A m \in {h \in handled : ~h.skipped} :
    /\ m.valid  => Kept(m) \/ failures >= 2
    /\ ~m.valid => Refused(m) \/ failures >= 1
    /\ m.valid  => Kept(m) \/ Audited(m) \/ failures >= 3
    /\ ~m.valid => Refused(m) \/ Audited(m) \/ failures >= 2

\* A device is credited only with a sale that is in the table, although the
\* device is touched in a later transaction than the sale.
DeviceCreditIsStored ==
  \A d \in Devices : seen[d] # None => rows[seen[d]] # None

\* The callback neither wedges nor forgets: a published message is eventually
\* handled to the end, unless a lost session or process took it along.
EverySentSettles ==
  \A m \in Messages : (m \in sent) ~> (m \in handled \cup dropped)
=============================================================================
