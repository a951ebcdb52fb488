-------------------------- MODULE TransactionLedger --------------------------
(***************************************************************************)
(* What the ingestion path promises the rest of the platform: a table of   *)
(* fuel sales keyed by transaction id.  A sale enters it only if it was    *)
(* published, is well formed and is the first of its id to be recorded;    *)
(* it never changes or leaves afterwards, however often the message is     *)
(* delivered and whatever fails on the way.  Module Ingest implements this *)
(* with an MQTT callback and separate database transactions.               *)
(***************************************************************************)

CONSTANTS
  Ids,        \* transaction ids (primary key of pump_transactions)
  Messages,   \* the messages that may be published
  None        \* absence of a row

VARIABLES
  offered,    \* messages that were ever published
  ledger      \* ledger[i]: the message recorded under id i, or None

vars == <<offered, ledger>>

Init ==
  /\ offered = {}
  /\ ledger = [i \in Ids |-> None]

Offer(m) ==
  /\ offered' = offered \cup {m}
  /\ UNCHANGED ledger

Record(m) ==
  /\ m \in offered
  /\ m.valid
  /\ ledger[m.id] = None
  /\ ledger' = [ledger EXCEPT ![m.id] = m]
  /\ UNCHANGED offered

Next == \E m \in Messages : Offer(m) \/ Record(m)

Spec == Init /\ [][Next]_vars
=============================================================================
