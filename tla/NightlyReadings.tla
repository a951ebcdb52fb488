---------------------------- MODULE NightlyReadings ----------------------------
(***************************************************************************)
(* What the nightly readings promise those who use them: a book with one   *)
(* page per business date, holding the date's batch and one reading of     *)
(* every tank, on which a draft, a submission, a correction, a review and  *)
(* the deadline each act in one step, on what the page says at that        *)
(* moment.  Module TankReadings implements it with worker threads that     *)
(* load rows, check them and write them back at commit, for as long as no  *)
(* write on the date rests on an outdated read; then the page lapses.      *)
(***************************************************************************)
EXTENDS Naturals

CONSTANTS
  None,        \* no batch, or no reading
  Tanks,       \* the active tanks of the station
  Days,        \* business dates
  Items,       \* reading lists of a request
  Locked,      \* statuses in which a manager may not edit
  Reviews,     \* the verdicts of an administrator
  Unfinished,  \* statuses that the deadline overrules
  NewBatch,    \* a batch as it is created
  NewReading   \* a reading as it is created

VARIABLE book  \* the page of every date that has not lapsed

Blank == [batch |-> None, tank |-> [t \in Tanks |-> None]]

Init == book = [d \in Days |-> Blank]

Batch(d)   == IF book[d].batch = None THEN NewBatch ELSE book[d].batch
Reading(d, t) == IF book[d].tank[t] = None THEN NewReading ELSE book[d].tank[t]

Has(d, statuses) == book[d].batch # None /\ book[d].batch.status \in statuses

Write(d, batch, tank) == book' = [book EXCEPT ![d] = [batch |-> batch, tank |-> tank]]

Draft(d, items, admin) ==
  /\ ~admin => /\ ~Has(d, Locked)
               /\ \A t \in DOMAIN items : Reading(d, t).status \notin Locked
  /\ Write(d, [Batch(d) EXCEPT !.status = "DRAFT"],
       [t \in Tanks |->
          IF t \in DOMAIN items
          THEN [Reading(d, t) EXCEPT !.closing = items[t],
                                     !.status = IF @ \in Locked THEN @ ELSE "DRAFT"]
          ELSE book[d].tank[t]])

Submit(d) ==
  /\ ~Has(d, Locked)
  /\ \A t \in Tanks : Reading(d, t).closing # None
  /\ Write(d, [status |-> "SUBMITTED", version |-> Batch(d).version + 1, counted |-> TRUE],
       [t \in Tanks |-> [Reading(d, t) EXCEPT !.status = "SUBMITTED",
                                              !.measured = Reading(d, t).closing]])

Correct(d, items) ==
  /\ Has(d, Locked \cup {"REOPENED"})
  /\ \A t \in DOMAIN items : items[t] # None
  /\ Write(d, [Batch(d) EXCEPT !.status = "CORRECTED", !.version = @ + 1],
       [t \in Tanks |->
          IF t \in DOMAIN items
          THEN [status |-> "CORRECTED", closing |-> items[t], measured |-> items[t]]
          ELSE book[d].tank[t]])

Review(d, verdict) ==
  /\ book[d].batch # None
  /\ Write(d, [Batch(d) EXCEPT !.status = verdict],
       [t \in Tanks |-> IF book[d].tank[t] = None THEN None
                        ELSE [book[d].tank[t] EXCEPT !.status = verdict]])

\* The deadline passes without a submission.
Close(d) ==
  /\ Has(d, Unfinished)
  /\ Write(d, [Batch(d) EXCEPT !.status = IF Batch(d).counted THEN "PARTIAL"
                                          ELSE "NOT_STARTED"],
           book[d].tank)

\* A write on the date rested on an outdated read: nothing is promised any more.
Lapse(d) == book' = [e \in DOMAIN book \ {d} |-> book[e]]

Next ==
  \E d \in DOMAIN book :
    \/ \E items \in Items, admin \in BOOLEAN : Draft(d, items, admin)
    \/ Submit(d)
    \/ \E items \in Items : Correct(d, items)
    \/ \E verdict \in Reviews : Review(d, verdict)
    \/ Close(d)
    \/ Lapse(d)

Spec == Init /\ [][Next]_book
=============================================================================
