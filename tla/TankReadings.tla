----------------------------- MODULE TankReadings -----------------------------
(***************************************************************************)
(* The nightly tank readings of one station: drafts, submission, review    *)
(* and correction (backend/app/services/tank_readings.py), the deadline    *)
(* job (tank_deadline.py) and the stock reconciliation that follows a      *)
(* submission in a transaction of its own (stock_reconciliation.py).       *)
(* Every request runs on a worker thread with an ORM session: it loads the *)
(* batch, then the readings, checks what it loaded, and at commit writes   *)
(* the columns whose value differs from the one it loaded.  The runs and   *)
(* items that reconciliation.py creates and recalculates by hand on the    *)
(* same dates are here too.                                                *)
(***************************************************************************)
EXTENDS Naturals, FiniteSets

CONSTANTS
  None,         \* NULL, or no row
  Tanks,        \* the active tanks of the station
  Days,         \* business dates
  Volumes,      \* closing volumes that pass validation
  Items,        \* reading lists of a request: functions from some of the tanks
  Workers,      \* request threads
  MaxRequests,  \* bound: requests
  MaxFailures   \* bound: transactions that fail and roll back

ASSUME DataAssumption ==
  Days \subseteq Nat /\ Volumes \subseteq Nat /\ None \notin Volumes
ASSUME ItemsAssumption ==
  Items \subseteq UNION {[S -> Volumes \cup {None}] : S \in SUBSET Tanks}
ASSUME BoundsAssumption == MaxRequests \in Nat /\ MaxFailures \in Nat
ASSUME FiniteAssumption == IsFiniteSet(Tanks) /\ IsFiniteSet(Workers)

VARIABLES
  batch,      \* tank_reading_batches, by business date
  reading,    \* manual_tank_readings with their tank_measurements row
  expected,   \* tank_expected_state
  recon,      \* reconciliation_items of the daily runs
  byHand,     \* the daily runs a user created, by business date
  late,       \* open alerts of the deadline job
  req,        \* the request on each worker
  job,        \* the deadline job
  requests, failures,  \* counters for the bounds
  overlapped  \* history: dates written from an outdated read

tables == <<batch, reading, expected, recon, byHand, late>>
vars == <<tables, req, job, requests, failures, overlapped>>

Locked  == {"SUBMITTED", "ACCEPTED", "CORRECTED"}
Reviews == {"ACCEPTED", "REJECTED", "REOPENED"}
ReadingStatuses == Locked \cup Reviews \cup {"DRAFT"}
BatchStatuses   == ReadingStatuses \cup {"NOT_STARTED", "PARTIAL"}

\* A volume, or None for a missing one or one a submission would refuse.
Closings == Volumes \cup {None}

\* Only a request that saw no reading of a tank inserts one, so the worker that
\* inserted it tells the readings of a tank and date apart.
Slots == Tanks \X Workers

Batches  == [status : BatchStatuses, version : Nat, counted : BOOLEAN]
Readings == [status : ReadingStatuses, closing : Closings, measured : Closings]

\* The items one transaction wrote of a run: the stock items of a submission, or
\* the levels of a calculation by hand.
Groups == [run : Nat, by : Nat, kind : {"stock", "levels"},
           opening : [Tanks -> Closings], actual : [Tanks -> Closings]]

ASSUME NoneAssumption == None \notin Batches \cup Readings

NewBatch   == [status |-> "NOT_STARTED", version |-> 1, counted |-> FALSE]
NewReading == [status |-> "DRAFT", closing |-> None, measured |-> None]

Requests ==
  [pc : {"idle", "readings", "commit", "recon", "items"}, n : Nat,
   kind : {"draft", "submit", "correct", None} \cup Reviews, admin : BOOLEAN,
   day : Days \cup {None}, items : Items \cup {None}, version : Nat \cup {None},
   batch : Batches \cup {None},
   rows : [Slots -> Readings \cup {None}],
   expected : [Tanks -> Closings], before : SUBSET Groups,
   group : Groups \cup {None}]

Idle == [pc |-> "idle", n |-> 0, kind |-> None, admin |-> FALSE, day |-> None,
         items |-> None, version |-> None, batch |-> None, rows |-> [s \in Slots |-> None],
         expected |-> [t \in Tanks |-> None], before |-> {}, group |-> None]

JobIdle == [day |-> None, batch |-> None]

Init ==
  /\ batch = [d \in Days |-> None]
  /\ reading = [d \in Days |-> [s \in Slots |-> None]]
  /\ expected = [t \in Tanks |-> None]
  /\ recon = [d \in Days |-> {}]
  /\ byHand = [d \in Days |-> {}]
  /\ late = {}
  /\ req = [w \in Workers |-> Idle]
  /\ job = JobIdle
  /\ requests = 0 /\ failures = 0 /\ overlapped = {}

-----------------------------------------------------------------------------
(***************************************************************************)
(* Requests: the batch is loaded and checked.  A request that is refused   *)
(* rolls back and leaves nothing.                                          *)
(***************************************************************************)
Begin(w, kind, d, admin, items, version) ==
  /\ req[w].pc = "idle"
  /\ requests < MaxRequests
  /\ requests' = requests + 1
  /\ req' = [req EXCEPT ![w] =
       [pc |-> "readings", n |-> requests + 1, kind |-> kind, admin |-> admin,
        day |-> d, items |-> items, version |-> version, batch |-> batch[d],
        rows |-> Idle.rows, expected |-> Idle.expected, before |-> {}, group |-> None]]
  /\ UNCHANGED <<tables, job, failures, overlapped>>

Is(d, statuses) == batch[d] # None /\ batch[d].status \in statuses

SaveDraft(w, d, admin, items) ==
  /\ ~Is(d, Locked) \/ admin
  /\ Begin(w, "draft", d, admin, items, None)

\* Mutant: a batch may be submitted again.
SubmitBatchAgain(w, d) == Begin(w, "submit", d, FALSE, None, None)

SubmitBatch(w, d) ==
  /\ ~Is(d, Locked)
  /\ Begin(w, "submit", d, FALSE, None, None)

\* The version is the one the administrator's page showed; it must be current.
CorrectBatch(w, d, items, version) ==
  /\ Is(d, Locked \cup {"REOPENED"})
  /\ version \in {None, batch[d].version}
  /\ \A t \in DOMAIN items : items[t] # None
  /\ Begin(w, "correct", d, TRUE, items, version)

\* Accept, reject, reopen: whatever the batch's status is.
ReviewBatch(w, d, verdict) ==
  /\ batch[d] # None
  /\ Begin(w, verdict, d, TRUE, None, None)

-----------------------------------------------------------------------------
(***************************************************************************)
(* The readings are loaded and checked.                                    *)
(***************************************************************************)
Rows(d)      == {s \in Slots : reading[d][s] # None}
RowsOf(d, t) == {s \in Rows(d) : s[1] = t}

\* The tanks a request writes a reading of.
Named(r) == IF r.kind \in {"draft", "correct"} THEN DOMAIN r.items ELSE Tanks

\* Of several readings of a tank, the query returns an arbitrary one; a review
\* loads them all.
Loads(r) ==
  IF r.kind \in Reviews THEN {Rows(r.day)}
  ELSE {S \in SUBSET Rows(r.day) : \A t \in Tanks :
          Cardinality(S \cap RowsOf(r.day, t)) =
            IF t \in Named(r) /\ RowsOf(r.day, t) # {} THEN 1 ELSE 0}

\* Mutant: a reading without a closing volume is enough.
RefusedWithoutReading(r, S) ==
  LET now(s) == reading[r.day][s] IN
  \/ r.kind = "draft" /\ ~r.admin /\ \E s \in S : now(s).status \in Locked
  \/ r.kind = "submit" /\ \E t \in Tanks : ~\E s \in S : s[1] = t

Refused(r, S) ==
  LET now(s) == reading[r.day][s] IN
  \/ r.kind = "draft" /\ ~r.admin /\ \E s \in S : now(s).status \in Locked
  \/ r.kind = "submit"
       /\ \E t \in Tanks : ~\E s \in S : s[1] = t /\ now(s).closing # None

LoadReadings(w) ==
  LET r == req[w] IN
  /\ r.pc = "readings"
  /\ \E S \in Loads(r) :
       req' = [req EXCEPT ![w] =
         IF Refused(r, S) THEN Idle
         ELSE [r EXCEPT !.pc = "commit", !.expected = expected,
                 !.rows = [s \in Slots |->
                             IF s \in S THEN reading[r.day][s] ELSE None]]]
  /\ UNCHANGED <<tables, job, requests, failures, overlapped>>

-----------------------------------------------------------------------------
(***************************************************************************)
(* The commit.                                                             *)
(***************************************************************************)

\* The ORM writes a column if its value differs from the one it loaded.
Flushed(loaded, new, stored) == IF new = loaded THEN stored ELSE new

\* The readings a request has loaded, and those it inserts.
Selected(w) == {s \in Slots : req[w].rows[s] # None}
Inserted(w) ==
  {s \in Slots : /\ s[2] = w /\ req[w].kind \in {"draft", "correct"}
                 /\ s[1] \in Named(req[w])
                 /\ \A q \in Selected(w) : q[1] # s[1]}
Touched(w)   == Selected(w) \cup Inserted(w)
Loaded(w, s) == IF s \in Selected(w) THEN req[w].rows[s] ELSE NewReading

\* Mutant: the measurement keeps the value of the first submission.
ChangedMeasuringOnce(r, s, old) ==
  CASE r.kind = "draft" ->
         [old EXCEPT !.closing = r.items[s[1]],
                     !.status = IF @ \in Locked THEN @ ELSE "DRAFT"]
    [] r.kind = "submit" ->
         [old EXCEPT !.status = "SUBMITTED",
                     !.measured = IF @ = None THEN old.closing ELSE @]
    [] r.kind = "correct" ->
         [status |-> "CORRECTED", closing |-> r.items[s[1]],
          measured |-> IF old.measured = None THEN r.items[s[1]]
                       ELSE old.measured]
    [] OTHER -> [old EXCEPT !.status = r.kind]

\* What the request makes of a reading and, through
\* _upsert_normalized_measurement, of its measurement.
Changed(r, s, old) ==
  CASE r.kind = "draft" ->
         [old EXCEPT !.closing = r.items[s[1]],
                     !.status = IF @ \in Locked THEN @ ELSE "DRAFT"]
    [] r.kind = "submit" ->
         [old EXCEPT !.status = "SUBMITTED", !.measured = old.closing]
    [] r.kind = "correct" ->
         [status |-> "CORRECTED", closing |-> r.items[s[1]],
          measured |-> r.items[s[1]]]
    [] OTHER -> [old EXCEPT !.status = r.kind]

WrittenReadings(w) ==
  [s \in Slots |->
     LET old == Loaded(w, s)
         new == Changed(req[w], s, old)
         now == reading[req[w].day][s]
     IN  IF s \notin Touched(w) THEN now
         ELSE IF now = None THEN new
         ELSE [status   |-> Flushed(old.status, new.status, now.status),
               closing  |-> Flushed(old.closing, new.closing, now.closing),
               measured |-> Flushed(old.measured, new.measured, now.measured)]]

\* Mutant: a correction starts again from version 1.
ChangedBatchRestarting(r, old) ==
  CASE r.kind = "draft"   -> [old EXCEPT !.status = "DRAFT"]
    [] r.kind = "submit"  -> [status |-> "SUBMITTED", version |-> old.version + 1,
                              counted |-> TRUE]
    [] r.kind = "correct" -> [old EXCEPT !.status = "CORRECTED", !.version = 1]
    [] OTHER              -> [old EXCEPT !.status = r.kind]

ChangedBatch(r, old) ==
  CASE r.kind = "draft"   -> [old EXCEPT !.status = "DRAFT"]
    [] r.kind = "submit"  -> [status |-> "SUBMITTED", version |-> old.version + 1,
                              counted |-> TRUE]
    [] r.kind = "correct" -> [old EXCEPT !.status = "CORRECTED",
                                         !.version = @ + 1]
    [] OTHER              -> [old EXCEPT !.status = r.kind]

\* The columns of old that the request changes, over those stored now.
WrittenBatch(w) ==
  LET r   == req[w]
      now == batch[r.day]
      new == ChangedBatch(r, r.batch)
  IN  IF r.batch = None THEN ChangedBatch(r, NewBatch)
      ELSE [status  |-> Flushed(r.batch.status, new.status, now.status),
            version |-> Flushed(r.batch.version, new.version, now.version),
            counted |-> Flushed(r.batch.counted, new.counted, now.counted)]

\* Tank t's closing if it is not zero, else the value loaded ("or").
WrittenExpected(w) ==
  [t \in Tanks |->
     LET r   == req[w]
         own == {s \in Touched(w) : s[1] = t}
         vol == Changed(r, CHOOSE s \in own : TRUE,
                        Loaded(w, CHOOSE s \in own : TRUE)).closing
         was == IF r.expected[t] = None THEN 0 ELSE r.expected[t]
     IN  IF r.kind \notin {"submit", "correct"} \/ own = {} THEN expected[t]
         ELSE Flushed(r.expected[t], IF vol = 0 THEN was ELSE vol, expected[t])]

\* UNIQUE(station, date) of batches, the partial unique index of readings, and
\* tank_expected_state.tank_id.
Conflicts(w) ==
  LET after == WrittenReadings(w) IN
  \/ req[w].batch = None /\ batch[req[w].day] # None
  \/ \E s, q \in Slots : s # q /\ s[1] = q[1]
       /\ after[s] # None /\ after[q] # None
       /\ {after[s].status, after[q].status} \subseteq {"SUBMITTED", "ACCEPTED"}
  \/ req[w].kind \in {"submit", "correct"}
       /\ \E s \in Touched(w) :
            req[w].expected[s[1]] = None /\ expected[s[1]] # None

Outdated(w) ==
  LET r == req[w] IN
  \/ batch[r.day] # r.batch
  \/ \E s \in Selected(w) : reading[r.day][s] # r.rows[s]
  \/ \E s \in Inserted(w) : RowsOf(r.day, s[1]) # {}
  \/ r.kind \in Reviews /\ Rows(r.day) # Selected(w)

\* A submission or correction goes on to reconcile.
Commit(w) ==
  LET r == req[w] IN
  /\ r.pc = "commit"
  /\ ~Conflicts(w)
  /\ batch' = [batch EXCEPT ![r.day] = WrittenBatch(w)]
  /\ reading' = [reading EXCEPT ![r.day] = WrittenReadings(w)]
  /\ expected' = WrittenExpected(w)
  /\ overlapped' = IF Outdated(w) THEN overlapped \cup {r.day} ELSE overlapped
  /\ req' = [req EXCEPT ![w] =
       IF r.kind \in {"submit", "correct"}
       THEN [Idle EXCEPT !.pc = "recon", !.n = r.n, !.day = r.day] ELSE Idle]
  /\ UNCHANGED <<recon, byHand, late, job, requests, failures>>

\* The database refuses the commit.
CommitRefused(w) ==
  /\ req[w].pc = "commit"
  /\ Conflicts(w)
  /\ req' = [req EXCEPT ![w] = Idle]
  /\ UNCHANGED <<tables, job, requests, failures, overlapped>>

\* The request is lost before its next commit.
RequestFails(w) ==
  /\ req[w].pc # "idle"
  /\ failures < MaxFailures
  /\ failures' = failures + 1
  /\ req' = [req EXCEPT ![w] = Idle]
  /\ UNCHANGED <<tables, job, requests, overlapped>>

-----------------------------------------------------------------------------
(***************************************************************************)
(* calculate_from_tank_submission: its own transaction, after the commit.  *)
(* The items of the daily run are deleted and written anew.                *)
(***************************************************************************)
Measured(d, t) == {reading[d][s].measured : s \in RowsOf(d, t)} \ {None}

OrNone(S) == IF S = {} THEN {None} ELSE S

\* The latest measurement before the date, whatever became of its batch.
Openings(d, t) ==
  LET past == {e \in Days : e < d /\ Measured(e, t) # {}}
  IN  IF past = {} THEN {None}
      ELSE Measured(CHOOSE e \in past : \A f \in past : f =< e, t)

\* The daily runs of the date: no key keeps them to one.
Runs(d) == byHand[d] \cup {g.run : g \in recon[d]}

ReadMeasurements(w) ==
  LET r == req[w]
      d == r.day
  IN
  /\ r.pc = "recon"
  /\ \E run \in IF Runs(d) = {} THEN {r.n} ELSE Runs(d),
        opening, actual \in [Tanks -> Closings] :
       /\ \A t \in Tanks : opening[t] \in Openings(d, t)
       /\ \A t \in Tanks : actual[t] \in OrNone(Measured(d, t))
       /\ req' = [req EXCEPT ![w] =
            [r EXCEPT !.pc = "items", !.before = recon[d],
               !.group = [run |-> run, by |-> r.n, kind |-> "stock",
                          opening |-> opening, actual |-> actual]]]
  /\ UNCHANGED <<tables, job, requests, failures, overlapped>>

\* Mutant: the run's earlier items are not deleted.
WriteItemsAdding(w) ==
  LET r == req[w]
      d == r.day
  IN
  /\ r.pc = "items"
  /\ recon' = [recon EXCEPT ![d] = @ \cup {r.group}]
  /\ overlapped' =
       IF recon[d] # r.before
            \/ \E t \in Tanks : r.group.actual[t] \notin OrNone(Measured(d, t))
       THEN overlapped \cup {d} ELSE overlapped
  /\ req' = [req EXCEPT ![w] = Idle]
  /\ UNCHANGED <<batch, reading, expected, byHand, late, job, requests, failures>>

\* The deleted items are those committed when the DELETE ran.
WriteItems(w) ==
  LET r   == req[w]
      d   == r.day
      old == {g \in r.before : g.run = r.group.run}
  IN
  /\ r.pc = "items"
  /\ recon' = [recon EXCEPT ![d] = (@ \ old) \cup {r.group}]
  /\ overlapped' =
       IF recon[d] # r.before
            \/ \E t \in Tanks : r.group.actual[t] \notin OrNone(Measured(d, t))
       THEN overlapped \cup {d} ELSE overlapped
  /\ req' = [req EXCEPT ![w] = Idle]
  /\ UNCHANGED <<batch, reading, expected, byHand, late, job, requests, failures>>

-----------------------------------------------------------------------------
(***************************************************************************)
(* Runs by hand (reconciliation.py): any user may create another daily run *)
(* of a date, and calculate any run whatever its status.                   *)
(***************************************************************************)
CreateRun(d) ==
  /\ requests < MaxRequests
  /\ requests' = requests + 1
  /\ byHand' = [byHand EXCEPT ![d] = @ \cup {requests + 1}]
  /\ UNCHANGED <<batch, reading, expected, recon, late, req, job, failures, overlapped>>

\* A calculation takes its levels by the time of a measurement, not by its date:
\* they are left out.
Levels(run) ==
  [run |-> run, by |-> requests + 1, kind |-> "levels",
   opening |-> Idle.expected, actual |-> Idle.expected]

\* One step: the flushed status locks the run before its items are deleted, and a
\* submission that reconciles the same run updates its row at the commit.
CalculateRun(d, run) ==
  /\ requests < MaxRequests
  /\ requests' = requests + 1
  /\ recon' = [recon EXCEPT ![d] = {g \in @ : g.run # run} \cup {Levels(run)}]
  /\ UNCHANGED <<batch, reading, expected, byHand, late, req, job, failures, overlapped>>

-----------------------------------------------------------------------------
(***************************************************************************)
(* The deadline job: check_missing_submissions, after date d's deadline.   *)
(***************************************************************************)
JobLoad(d) ==
  /\ job = JobIdle
  /\ ~Is(d, {"SUBMITTED", "ACCEPTED"})
  /\ job' = [day |-> d, batch |-> batch[d]]
  /\ UNCHANGED <<tables, req, requests, failures, overlapped>>

Unfinished == {"DRAFT", "PARTIAL", "NOT_STARTED", "REOPENED"}

\* Mutant: the batch gets the alert's kind as its status.
JobCommitLate ==
  LET d == job.day IN
  /\ d # None
  /\ batch' = IF job.batch # None /\ job.batch.status \in Unfinished
              THEN [batch EXCEPT ![d].status = "LATE"] ELSE batch
  /\ late' = late \cup {<<d, IF job.batch = None THEN "MISSING" ELSE "LATE">>}
  /\ job' = JobIdle
  /\ UNCHANGED <<reading, expected, recon, byHand, req, requests, failures, overlapped>>

JobCommit ==
  LET d   == job.day
      old == job.batch
  IN
  /\ d # None
  /\ batch' = IF old # None /\ old.status \in Unfinished
              THEN [batch EXCEPT ![d].status = Flushed(old.status,
                      IF old.counted THEN "PARTIAL" ELSE "NOT_STARTED", @)]
              ELSE batch
  /\ overlapped' = IF old # None /\ old.status \in Unfinished /\ batch[d] # old
                   THEN overlapped \cup {d} ELSE overlapped
  /\ late' = late \cup {<<d, IF old = None THEN "MISSING" ELSE "LATE">>}
  /\ job' = JobIdle
  /\ UNCHANGED <<reading, expected, recon, byHand, req, requests, failures>>

JobFails ==
  /\ job # JobIdle
  /\ failures < MaxFailures
  /\ failures' = failures + 1
  /\ job' = JobIdle
  /\ UNCHANGED <<tables, req, requests, overlapped>>

-----------------------------------------------------------------------------
Manager(w) ==
  \E d \in Days :
    \/ \E items \in Items : SaveDraft(w, d, FALSE, items)
    \/ SubmitBatch(w, d)

Administrator(w) ==
  \E d \in Days :
    \/ \E items \in Items : SaveDraft(w, d, TRUE, items)
    \/ \E items \in Items, v \in 0 .. MaxRequests + 1 :
         CorrectBatch(w, d, items, IF v = 0 THEN None ELSE v)
    \/ \E verdict \in Reviews : ReviewBatch(w, d, verdict)

Finish(w) ==
  LoadReadings(w) \/ Commit(w) \/ CommitRefused(w) \/ ReadMeasurements(w)
  \/ WriteItems(w)

Next ==
  \/ \E w \in Workers :
       Manager(w) \/ Administrator(w) \/ Finish(w) \/ RequestFails(w)
  \/ \E d \in Days : CreateRun(d) \/ (\E run \in Runs(d) : CalculateRun(d, run))
  \/ (\E d \in Days : JobLoad(d)) \/ JobCommit \/ JobFails

Spec == Init /\ [][Next]_vars
-----------------------------------------------------------------------------
(***************************************************************************)
(* Properties.                                                             *)
(***************************************************************************)
TypeOK ==
  /\ batch \in [Days -> Batches \cup {None}]
  /\ reading \in [Days -> [Slots -> Readings \cup {None}]]
  /\ expected \in [Tanks -> Closings]
  /\ recon \in [Days -> SUBSET Groups]
  /\ byHand \in [Days -> SUBSET Nat]
  /\ late \subseteq Days \X {"MISSING", "LATE"}
  /\ req \in [Workers -> Requests]
  /\ job \in [day : Days \cup {None}, batch : Batches \cup {None}]
  /\ requests \in 0 .. MaxRequests /\ failures \in 0 .. MaxFailures
  /\ overlapped \subseteq Days

\* Whatever drafts, reviews, reopenings and deadline passes came before, a
\* submitted batch has exactly one reading of every tank, submitted and with a
\* closing volume, unless a write rested on an outdated read.
SubmittedIsComplete ==
  \A d \in Days \ overlapped : Is(d, {"SUBMITTED"}) =>
    \A t \in Tanks : \E s \in Slots :
      /\ RowsOf(d, t) = {s}
      /\ reading[d][s].status = "SUBMITTED" /\ reading[d][s].closing # None

\* In a submitted or corrected batch the measurement that the reconciliation
\* reads is the reading's closing volume, also after an administrator edited the
\* draft of a batch that had been submitted before.
MeasuredAsRead ==
  \A d \in Days \ overlapped : Is(d, {"SUBMITTED", "CORRECTED"}) =>
    \A s \in Rows(d) : reading[d][s].status \in {"SUBMITTED", "CORRECTED"} =>
      reading[d][s].measured = reading[d][s].closing

Reconciling(d) ==
  \E w \in Workers : req[w].day = d /\ req[w].pc \in {"recon", "items"}

\* A run never holds the items of two transactions, and only a user makes a second.
RunsApart(d) ==
  \A g, h \in recon[d] : g = h \/ (g.run # h.run /\ byHand[d] # {})

\* A submission's requests are done with the date, and none was lost.
Due(d) == Is(d, {"SUBMITTED", "CORRECTED"}) /\ ~Reconciling(d) /\ failures = 0

Reconciled(d) ==
  \E g \in recon[d] :
    \/ g.kind = "stock" /\ \A t \in Tanks : g.actual[t] \in OrNone(Measured(d, t))
    \/ g.kind = "levels" /\ \A h \in recon[d] : h.by =< g.by

\* A run never holds the items of two transactions, and only a user makes a second
\* run of a date, unless a write rested on an outdated read.  Once the requests have
\* reconciled, some run of a submitted or corrected batch has one item per tank with
\* the tank's current measurement, or a user has calculated a run by hand since.
ReconciledAsMeasured ==
  \A d \in Days \ overlapped : RunsApart(d) /\ (Due(d) => Reconciled(d))

\* The reading of tank t; a date no write of which rested on an outdated read has
\* at most one.
ReadingOf(d, t) ==
  IF RowsOf(d, t) = {} THEN None ELSE reading[d][CHOOSE s \in RowsOf(d, t) : TRUE]

\* The abstract book: the rows of every date free of outdated writes.
Page(d) == [batch |-> batch[d], tank |-> [t \in Tanks |-> ReadingOf(d, t)]]
Book    == [d \in Days \ overlapped |-> Page(d)]

Nightly == INSTANCE NightlyReadings WITH book <- Book

\* Worker threads that load, check, flush what differs and commit act on a date as
\* if every request and the deadline job were one step on the rows of that moment,
\* until a write rests on an outdated read.
ImplementsNightly == Nightly!Spec

\* The version of a batch never falls, unless a write rested on an outdated read.
VersionNeverFalls ==
  [][\A d \in Days : batch[d] # None =>
       batch'[d].version >= batch[d].version \/ d \in overlapped']_vars

-----------------------------------------------------------------------------
(***************************************************************************)
(* What the code says of itself and does not do.                           *)
(***************************************************************************)

\* "This entry was updated by another user.  Reload the latest version before
\* continuing.": a correction that names a version commits on that version.
CorrectionSeesLatest ==
  [][\A w \in Workers : req[w].kind = "correct" /\ req[w].version # None
       /\ Commit(w) => batch[req[w].day].version = req[w].version]_vars

\* "Update expected state opening for next day bookkeeping": a submission or a
\* correction leaves its closing volumes in the expected state.
ExpectedIsLastClosing ==
  [][\A w \in Workers : req[w].kind \in {"submit", "correct"} /\ Commit(w) =>
       \A s \in Touched(w) :
         expected'[s[1]] = reading'[req[w].day][s].closing]_vars

\* "Create/update daily recon using accepted/submitted manual closings": no
\* opening of a run comes from a batch that is rejected.
OpeningNotRejected ==
  [][\A w \in Workers : ReadMeasurements(w) =>
       \A t \in Tanks : req'[w].group.opening[t] # None =>
         \E e \in Days : e < req[w].day /\ ~Is(e, {"REJECTED"})
           /\ req'[w].group.opening[t] \in Measured(e, t)]_vars
=============================================================================
