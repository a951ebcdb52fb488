-------------------------- MODULE TankReadingsProofs --------------------------
(***************************************************************************)
(* Theorems about TankReadings, for every station, every set of dates,     *)
(* volumes and worker threads, and every bound: a date none of whose       *)
(* writes rested on an outdated read keeps one reading per tank, complete  *)
(* submissions, measurements as read, and runs that follow them.           *)
(***************************************************************************)
EXTENDS TankReadings, FiniteSetTheorems, TLAPS

-----------------------------------------------------------------------------
(***************************************************************************)
(* The inductive invariant.                                                *)
(***************************************************************************)
Kinds == {"draft", "submit", "correct"} \cup Reviews

\* What a request has checked and still holds: whose readings it loaded, that a
\* submission found every closing volume, that a correction found a batch it may
\* correct, and which run its items belong to.
RequestInv(r) ==
  /\ r.pc \in {"readings", "commit"} =>
       /\ r.kind \in Kinds /\ r.day \in Days
       /\ r.kind \in {"draft", "correct"} => r.items \in Items
       /\ r.batch # None => batch[r.day] # None
       /\ r.kind = "correct" =>
            r.batch # None /\ r.batch.status \in Locked \cup {"REOPENED"}
  /\ r.pc = "commit" =>
       /\ \A s \in Slots : r.rows[s] # None => s[1] \in Named(r)
       /\ r.kind = "submit" =>
            \A t \in Tanks : \E s \in Slots :
              s[1] = t /\ r.rows[s] # None /\ r.rows[s].closing # None
  /\ r.pc \in {"recon", "items"} => r.day \in Days
  /\ r.pc = "items" =>
       /\ r.group \in Groups /\ r.group.kind = "stock" /\ r.group.by = r.n
       /\ r.before # {} /\ byHand[r.day] = {} => \E g \in r.before : g.run = r.group.run

RequestsInv == \A w \in Workers : RequestInv(req[w])

\* The deadline job holds a batch of its date.
JobInv == job.batch # None => job.day \in Days /\ batch[job.day] # None

\* A date has at most one reading of a tank.
OneReading ==
  \A d \in Days \ overlapped, s, q \in Slots :
    reading[d][s] # None /\ reading[d][q] # None /\ s[1] = q[1] => s = q

\* A review has put its verdict on every reading.
ReviewedAlike ==
  \A d \in Days \ overlapped : Is(d, Reviews) =>
    \A s \in Rows(d) : reading[d][s].status = batch[d].status

\* Items are numbered by the request that wrote them.
Numbered ==
  /\ \A w \in Workers : req[w].n =< requests
  /\ \A d \in Days : \A g \in recon[d] : g.by =< requests

IInv ==
  /\ TypeOK
  /\ RequestsInv
  /\ JobInv
  /\ OneReading
  /\ ReviewedAlike
  /\ Numbered
  /\ SubmittedIsComplete
  /\ MeasuredAsRead
  /\ ReconciledAsMeasured

-----------------------------------------------------------------------------
(***************************************************************************)
(* The operators.                                                          *)
(***************************************************************************)

\* A column loaded with its stored value is written as the request has it.
LEMMA FlushedCurrent == ASSUME NEW old, NEW new PROVE Flushed(old, new, old) = new
BY DEF Flushed

\* Records and NULL differ; slots and statuses are what they look like.
LEMMA Facts ==
  /\ None \notin Batches /\ None \notin Readings
  /\ NewBatch \in Batches /\ NewReading \in Readings
  /\ \A items \in Items : DOMAIN items \subseteq Tanks /\ \A t \in DOMAIN items : items[t] \in Closings
  /\ \A s \in Slots : s[1] \in Tanks /\ s[2] \in Workers
  /\ Reviews \subseteq ReadingStatuses /\ ReadingStatuses \subseteq BatchStatuses
<1>1. \A items \in Items : DOMAIN items \subseteq Tanks /\ \A t \in DOMAIN items : items[t] \in Closings
  BY ItemsAssumption DEF Closings
<1>2. NewBatch \in Batches /\ NewReading \in Readings
  BY DEF NewBatch, Batches, NewReading, Readings, Closings, BatchStatuses, ReadingStatuses
<1>. QED
  BY <1>1, <1>2, NoneAssumption DEF Slots, ReadingStatuses, BatchStatuses

\* There are finitely many slots.
LEMMA SlotsFinite == IsFiniteSet(Slots)
BY FiniteAssumption, FS_Product DEF Slots

\* A request loads stored readings of the tanks it writes.
LEMMA LoadsNamed ==
  ASSUME NEW r, NEW S \in Loads(r), NEW s \in S
  PROVE  S \subseteq Rows(r.day) /\ s \in Slots /\ s[1] \in Named(r)
<1>1. S \subseteq Rows(r.day)
  BY DEF Loads
<1>2. s \in Slots /\ s[1] \in Tanks
  BY <1>1, Facts DEF Rows
<1>3. CASE r.kind \in Reviews
  BY <1>1, <1>2, <1>3 DEF Named, Reviews
<1>4. CASE r.kind \notin Reviews
  <2>1. Cardinality(S \cap RowsOf(r.day, s[1])) =
          IF s[1] \in Named(r) /\ RowsOf(r.day, s[1]) # {} THEN 1 ELSE 0
    BY <1>2, <1>4 DEF Loads
  <2>2. s \in S \cap RowsOf(r.day, s[1])
    BY <1>1 DEF RowsOf
  <2>3. IsFiniteSet(S \cap RowsOf(r.day, s[1]))
    BY <1>1, SlotsFinite, FS_Subset DEF Rows
  <2>. QED
    BY <1>1, <1>2, <2>1, <2>2, <2>3, FS_EmptySet
<1>. QED
  BY <1>3, <1>4

\* What a request makes of a batch is a batch.
LEMMA ChangedBatchType ==
  ASSUME NEW r, r.kind \in Kinds, NEW old \in Batches
  PROVE  ChangedBatch(r, old) \in Batches
<1>. USE DEF ChangedBatch, Batches, BatchStatuses, ReadingStatuses, Locked, Reviews
<1>1. CASE r.kind = "draft"
  BY <1>1
<1>2. CASE r.kind = "submit"
  BY <1>2
<1>3. CASE r.kind = "correct"
  <2>1. ChangedBatch(r, old) =
          [status |-> "CORRECTED", version |-> old.version + 1, counted |-> old.counted]
    BY <1>3
  <2>. QED
    BY <2>1
<1>4. CASE r.kind \in Reviews
  BY <1>4
<1>. QED
  BY <1>1, <1>2, <1>3, <1>4 DEF Kinds

\* What a request makes of a reading is a reading.
LEMMA ChangedType ==
  ASSUME NEW r, r.kind \in Kinds, NEW s, NEW old \in Readings,
         r.kind \in {"draft", "correct"} => r.items[s[1]] \in Closings
  PROVE  Changed(r, s, old) \in Readings
<1>. USE DEF Changed, Readings, ReadingStatuses, Locked, Reviews
<1>1. CASE r.kind = "draft"
  BY <1>1
<1>2. CASE r.kind = "submit"
  BY <1>2
<1>3. CASE r.kind = "correct"
  BY <1>3
<1>4. CASE r.kind \in Reviews
  BY <1>4
<1>. QED
  BY <1>1, <1>2, <1>3, <1>4 DEF Kinds

-----------------------------------------------------------------------------
(***************************************************************************)
(* Steps that change only a request.                                       *)
(***************************************************************************)

\* A date whose runs and measurements are left alone, and which is not newly due,
\* stays reconciled.
LEMMA ReconciledSame ==
  ASSUME IInv, NEW d \in Days \ overlapped, recon'[d] = recon[d], byHand'[d] = byHand[d],
         \A t \in Tanks : Measured(d, t)' = Measured(d, t), Due(d)' => Due(d)
  PROVE  RunsApart(d)' /\ (Due(d)' => Reconciled(d)')
<1>1. RunsApart(d) /\ (Due(d) => Reconciled(d))
  BY DEF IInv, ReconciledAsMeasured
<1>2. RunsApart(d)'
  BY <1>1 DEF RunsApart
<1>3. ASSUME Due(d)' PROVE Reconciled(d)'
  <2>1. PICK g \in recon[d] :
          \/ g.kind = "stock" /\ \A t \in Tanks : g.actual[t] \in OrNone(Measured(d, t))
          \/ g.kind = "levels" /\ \A h \in recon[d] : h.by =< g.by
    BY <1>1, <1>3 DEF Reconciled
  <2>2. \A t \in Tanks : OrNone(Measured(d, t))' = OrNone(Measured(d, t))
    BY DEF OrNone
  <2>. QED
    BY <2>1, <2>2 DEF Reconciled
<1>. QED
  BY <1>2, <1>3

\* Whatever happens to one request, with the tables left alone, the invariant
\* holds if that request keeps its own part, and goes on to reconcile if it was
\* about to, unless the request failed.
LEMMA RequestStep ==
  ASSUME IInv, NEW w \in Workers, NEW r \in Requests,
         req' = [req EXCEPT ![w] = r], RequestInv(r), r.n =< requests',
         UNCHANGED <<tables, job, overlapped>>,
         requests' \in 0 .. MaxRequests, requests =< requests',
         failures' \in 0 .. MaxFailures,
         failures' # failures => failures' # 0,
         failures' # 0 \/ (req[w].pc \in {"recon", "items"} =>
           r.pc \in {"recon", "items"} /\ r.day = req[w].day)
  PROVE  IInv'
<1>. USE DEF tables
<1>0. /\ \A v \in Workers : req[v].n \in Nat
      /\ \A d \in Days : \A g \in recon[d] : g.by \in Nat
      /\ requests \in Nat /\ requests' \in Nat
  BY BoundsAssumption DEF IInv, TypeOK, Requests, Groups
<1>1. req' \in [Workers -> Requests]
  BY DEF IInv, TypeOK
<1>2. TypeOK'
  BY <1>1 DEF IInv, TypeOK
<1>3. RequestsInv'
  <2>. SUFFICES ASSUME NEW v \in Workers PROVE RequestInv(req[v])'
    BY DEF RequestsInv
  <2>1. req'[v] = IF v = w THEN r ELSE req[v]
    BY DEF IInv, TypeOK
  <2>2. RequestInv(req[v])
    BY DEF IInv, RequestsInv
  <2>. QED
    BY <2>1, <2>2 DEF RequestInv, Named
<1>4. /\ JobInv' /\ OneReading' /\ ReviewedAlike' /\ SubmittedIsComplete' /\ MeasuredAsRead'
  BY DEF IInv, JobInv, OneReading, ReviewedAlike, SubmittedIsComplete,
         MeasuredAsRead, Is, Rows, RowsOf
<1>4a. Numbered'
  <2>1. \A v \in Workers : req'[v] = IF v = w THEN r ELSE req[v]
    BY DEF IInv, TypeOK
  <2>. QED
    BY <1>0, <2>1 DEF IInv, Numbered, Requests
<1>5. ReconciledAsMeasured'
  <2>. SUFFICES ASSUME NEW d \in Days \ overlapped'
                PROVE  RunsApart(d)' /\ (Due(d)' => Reconciled(d)')
    BY Zenon DEF ReconciledAsMeasured
  <2>1. ASSUME Due(d)' PROVE Due(d)
    <3>1. ~Reconciling(d)
      <4>. SUFFICES ASSUME NEW v \in Workers, req[v].day = d,
                           req[v].pc \in {"recon", "items"}
                    PROVE  FALSE
        BY DEF Reconciling
      <4>1. req'[v] = IF v = w THEN r ELSE req[v]
        BY DEF IInv, TypeOK
      <4>. QED
        BY <2>1, <4>1 DEF Due, Reconciling
    <3>. QED
      BY <2>1, <3>1 DEF Due, Is
  <2>2. \A t \in Tanks : Measured(d, t)' = Measured(d, t)
    BY DEF Measured, RowsOf, Rows
  <2>. QED
    BY <2>1, <2>2, ReconciledSame
<1>. QED
  BY <1>2, <1>3, <1>4, <1>4a, <1>5 DEF IInv

\* A record for a request that holds nothing.
LEMMA IdleType == Idle \in Requests /\ Idle.pc = "idle" /\ Idle.n = 0
BY DEF Idle, Requests, Closings

\* A request that ends without a commit, before it is about to reconcile.
LEMMA EndStep ==
  ASSUME IInv, NEW w \in Workers, req' = [req EXCEPT ![w] = Idle],
         UNCHANGED <<tables, job, overlapped, requests>>,
         failures' \in 0 .. MaxFailures,
         failures' = failures => req[w].pc \notin {"recon", "items"},
         failures' # failures => failures' # 0
  PROVE  IInv'
<1>1. RequestInv(Idle)
  BY IdleType DEF RequestInv
<1>2. /\ requests' \in 0 .. MaxRequests /\ requests =< requests'
      /\ Idle.n =< requests'
  BY IdleType DEF IInv, TypeOK
<1>. QED
  BY <1>1, <1>2, IdleType, RequestStep

\* A request that passed the checks on the batch keeps the invariant.
LEMMA BeginStep ==
  ASSUME IInv, NEW w \in Workers, NEW kind \in Kinds, NEW d \in Days,
         NEW admin \in BOOLEAN, NEW items \in Items \cup {None},
         NEW version \in Nat \cup {None}, Begin(w, kind, d, admin, items, version),
         kind \in {"draft", "correct"} => items \in Items,
         kind = "correct" => Is(d, Locked \cup {"REOPENED"})
  PROVE  IInv'
<1> DEFINE r == [pc |-> "readings", n |-> requests + 1, kind |-> kind, admin |-> admin,
                 day |-> d, items |-> items, version |-> version, batch |-> batch[d],
                 rows |-> Idle.rows, expected |-> Idle.expected, before |-> {},
                 group |-> None]
<1>1. Idle.rows \in [Slots -> Readings \cup {None}] /\ Idle.expected \in [Tanks -> Closings]
  BY DEF Idle, Closings
<1>2. requests \in Nat /\ requests + 1 \in 0 .. MaxRequests /\ requests' = requests + 1
  BY BoundsAssumption DEF IInv, TypeOK, Begin
<1>3. batch[d] \in Batches \cup {None}
  BY DEF IInv, TypeOK
<1>4. r \in Requests
  BY <1>1, <1>2, <1>3 DEF Requests, Kinds, Closings
<1>6. req' = [req EXCEPT ![w] = r] /\ UNCHANGED <<tables, job, overlapped>>
      /\ failures' = failures /\ req[w].pc = "idle"
  BY DEF Begin
<1>5. RequestInv(r) /\ r.n =< requests' /\ requests =< requests' /\ r.n = requests + 1
  BY <1>2 DEF RequestInv, Is
<1>7. failures' \in 0 .. MaxFailures
  BY <1>6 DEF IInv, TypeOK
<1>. HIDE DEF r
<1>. QED
  BY <1>2, <1>4, <1>5, <1>6, <1>7, RequestStep

\* A manager's or an administrator's request keeps the invariant.
LEMMA UserStep ==
  ASSUME IInv, NEW w \in Workers, Manager(w) \/ Administrator(w)
  PROVE  IInv'
<1>1. ASSUME NEW d \in Days, NEW items \in Items, NEW admin \in BOOLEAN,
             SaveDraft(w, d, admin, items)
      PROVE  IInv'
  BY <1>1, BeginStep DEF SaveDraft, Kinds
<1>2. ASSUME NEW d \in Days, SubmitBatch(w, d)
      PROVE  IInv'
  BY <1>2, BeginStep DEF SubmitBatch, Kinds
<1>3. ASSUME NEW d \in Days, NEW items \in Items, NEW v \in 0 .. MaxRequests + 1,
             CorrectBatch(w, d, items, IF v = 0 THEN None ELSE v)
      PROVE  IInv'
  <2>1. (IF v = 0 THEN None ELSE v) \in Nat \cup {None}
    BY BoundsAssumption
  <2>. QED
    BY <1>3, <2>1, BeginStep DEF CorrectBatch, Kinds
<1>4. ASSUME NEW d \in Days, NEW verdict \in Reviews, ReviewBatch(w, d, verdict)
      PROVE  IInv'
  BY <1>4, BeginStep DEF ReviewBatch, Kinds, Reviews
<1>. QED
  BY <1>1, <1>2, <1>3, <1>4 DEF Manager, Administrator

\* Loading the readings keeps the invariant: a submission goes on only with a
\* closing volume of every tank.
LEMMA LoadStep ==
  ASSUME IInv, NEW w \in Workers, LoadReadings(w)
  PROVE  IInv'
<1>1. req[w].pc = "readings" /\ req[w] \in Requests /\ RequestInv(req[w])
  BY DEF LoadReadings, IInv, TypeOK, RequestsInv
<1>2. PICK S \in Loads(req[w]) :
        req' = [req EXCEPT ![w] =
          IF Refused(req[w], S) THEN Idle
          ELSE [req[w] EXCEPT !.pc = "commit", !.expected = expected,
                  !.rows = [s \in Slots |->
                    IF s \in S THEN reading[req[w].day][s] ELSE None]]]
  BY DEF LoadReadings
<1>3. UNCHANGED <<tables, job, requests, failures, overlapped>>
  BY DEF LoadReadings
<1>4. /\ requests' \in 0 .. MaxRequests /\ requests =< requests'
      /\ failures' \in 0 .. MaxFailures
  BY <1>3 DEF IInv, TypeOK
<1>5. CASE Refused(req[w], S)
  BY <1>1, <1>2, <1>3, <1>4, <1>5, EndStep
<1>6. CASE ~Refused(req[w], S)
  <2> DEFINE rows == [s \in Slots |-> IF s \in S THEN reading[req[w].day][s] ELSE None]
             r == [req[w] EXCEPT !.pc = "commit", !.expected = expected, !.rows = rows]
  <2>1. req[w].day \in Days /\ expected \in [Tanks -> Closings]
        /\ rows \in [Slots -> Readings \cup {None}]
    BY <1>1 DEF IInv, TypeOK, RequestInv
  <2>2. /\ r \in Requests /\ r.pc = "commit" /\ r.rows = rows /\ r.kind = req[w].kind
        /\ r.day = req[w].day /\ r.items = req[w].items /\ r.batch = req[w].batch
        /\ r.n = req[w].n
    <3> DEFINE r1 == [req[w] EXCEPT !.pc = "commit"]
               r2 == [r1 EXCEPT !.expected = expected]
               r3 == [r2 EXCEPT !.rows = rows]
    <3>. HIDE DEF rows
    <3>1. r1 \in Requests
      BY <1>1 DEF Requests
    <3>2. r2 \in Requests
      <4>. HIDE DEF r1
      <4>. QED  BY <2>1, <3>1 DEF Requests
    <3>3. r3 \in Requests
      <4>. HIDE DEF r2
      <4>. QED  BY <2>1, <3>2 DEF Requests
    <3>4. r = r3
      OBVIOUS
    <3>. QED
      BY <1>1, <3>3, <3>4 DEF Requests
  <2>4. \A s \in Slots : r.rows[s] # None => s[1] \in Named(r)
    <3>1. \A s \in Slots : rows[s] # None => s \in S
      OBVIOUS
    <3>2. Named(r) = Named(req[w])
      BY <2>2 DEF Named
    <3>. QED
      BY <1>2, <2>2, <3>1, <3>2, LoadsNamed
  <2>5. ASSUME r.kind = "submit", NEW t \in Tanks
        PROVE  \E s \in Slots : s[1] = t /\ r.rows[s] # None /\ r.rows[s].closing # None
    <3>1. PICK s \in S : s[1] = t /\ reading[req[w].day][s].closing # None
      BY <1>6, <2>2, <2>5 DEF Refused
    <3>2. s \in Slots /\ reading[req[w].day][s] # None
      BY <1>2, LoadsNamed DEF Rows
    <3>. QED
      BY <2>2, <3>1, <3>2
  <2>6. RequestInv(r)
    <3>. HIDE DEF r
    <3>. QED
      BY <1>1, <2>2, <2>4, <2>5 DEF RequestInv
  <2>7. req' = [req EXCEPT ![w] = r] /\ r.n =< requests'
    BY <1>2, <1>3, <1>6, <2>2 DEF IInv, Numbered
  <2>. HIDE DEF r
  <2>. QED
    BY <1>1, <1>3, <1>4, <2>2, <2>6, <2>7, RequestStep
<1>. QED
  BY <1>5, <1>6

\* A commit the database refuses, and a request that is lost, leave the tables.
LEMMA RefusedStep ==
  ASSUME IInv, NEW w \in Workers, CommitRefused(w) \/ RequestFails(w)
  PROVE  IInv'
<1>1. CASE CommitRefused(w)
  BY <1>1, EndStep DEF CommitRefused, IInv, TypeOK
<1>2. CASE RequestFails(w)
  <2>1. failures' \in 0 .. MaxFailures /\ failures' # 0 /\ failures' # failures
    BY <1>2, BoundsAssumption DEF RequestFails, IInv, TypeOK
  <2>. QED
    BY <1>2, <2>1, EndStep DEF RequestFails
<1>. QED
  BY <1>1, <1>2

\* Reading the measurements keeps the invariant: the items go to the run that the
\* date has.
LEMMA MeasureStep ==
  ASSUME IInv, NEW w \in Workers, ReadMeasurements(w)
  PROVE  IInv'
<1> DEFINE d == req[w].day
<1>1. /\ req[w] \in Requests /\ req[w].pc = "recon" /\ d \in Days
      /\ RequestInv(req[w])
  BY DEF ReadMeasurements, IInv, TypeOK, RequestsInv, RequestInv
<1>2. recon[d] \subseteq Groups /\ byHand[d] \subseteq Nat
  BY <1>1 DEF IInv, TypeOK
<1>3. PICK run \in IF Runs(d) = {} THEN {req[w].n} ELSE Runs(d),
           opening \in [Tanks -> Closings], actual \in [Tanks -> Closings] :
        req' = [req EXCEPT ![w] =
          [req[w] EXCEPT !.pc = "items", !.before = recon[d],
             !.group = [run |-> run, by |-> req[w].n, kind |-> "stock",
                        opening |-> opening, actual |-> actual]]]
  BY DEF ReadMeasurements
<1> DEFINE g == [run |-> run, by |-> req[w].n, kind |-> "stock",
                 opening |-> opening, actual |-> actual]
           r1 == [req[w] EXCEPT !.pc = "items"]
           r2 == [r1 EXCEPT !.before = recon[d]]
           r3 == [r2 EXCEPT !.group = g]
           r == [req[w] EXCEPT !.pc = "items", !.before = recon[d], !.group = g]
<1>4. g \in Groups
  <2>1. run \in Nat
    <3>1. \A h \in recon[d] : h.run \in Nat
      BY <1>2 DEF Groups
    <3>2. Runs(d) \subseteq Nat
      BY <1>2, <3>1 DEF Runs
    <3>3. req[w].n \in Nat
      BY <1>1 DEF Requests
    <3>. QED
      BY <3>2, <3>3
  <2>. QED
    BY <1>1, <2>1 DEF Groups, Requests
<1>5. /\ r \in Requests /\ r.pc = "items" /\ r.before = recon[d] /\ r.group = g
      /\ r.day = d /\ r.n = req[w].n
  <2>. HIDE DEF g, d
  <2>1. r1 \in Requests
    BY <1>1 DEF Requests
  <2>2. r2 \in Requests
    <3>. HIDE DEF r1
    <3>. QED  BY <1>2, <2>1 DEF Requests
  <2>3. r3 \in Requests
    <3>. HIDE DEF r2
    <3>. QED  BY <1>4, <2>2 DEF Requests
  <2>4. r = r3
    OBVIOUS
  <2>. QED
    BY <1>1, <2>3, <2>4 DEF Requests, d
<1>6. /\ recon[d] # {} /\ byHand[d] = {} => \E h \in recon[d] : h.run = g.run
      /\ g.by = req[w].n /\ g.kind = "stock"
  <2>1. recon[d] # {} /\ byHand[d] = {} => run \in {h.run : h \in recon[d]}
    BY DEF Runs
  <2>. QED
    BY <2>1
<1>7. RequestInv(r) /\ r.n =< requests'
  <2>1. req[w].n =< requests /\ requests' = requests
    BY DEF IInv, Numbered, ReadMeasurements
  <2>. HIDE DEF r, g, d
  <2>. QED  BY <1>1, <1>4, <1>5, <1>6, <2>1 DEF RequestInv
<1>8. req' = [req EXCEPT ![w] = r]
  BY <1>3
<1>9. /\ UNCHANGED <<tables, job, overlapped, requests, failures>>
      /\ requests' \in 0 .. MaxRequests /\ requests =< requests'
      /\ failures' \in 0 .. MaxFailures
  BY DEF ReadMeasurements, IInv, TypeOK
<1>. HIDE DEF r, g
<1>. QED
  BY <1>1, <1>5, <1>7, <1>8, <1>9, RequestStep

\* Writing the items keeps the invariant: on a date whose run nobody else has
\* rewritten since it was read, the new items are the only ones.
LEMMA ItemsStep ==
  ASSUME IInv, NEW w \in Workers, WriteItems(w)
  PROVE  IInv'
<1>0. PICK d, grp, before : d = req[w].day /\ grp = req[w].group /\ before = req[w].before
  OBVIOUS
<1> DEFINE old == {g \in before : g.run = grp.run}
<1>1. /\ req[w] \in Requests /\ req[w].pc = "items" /\ d \in Days /\ grp \in Groups
      /\ grp.kind = "stock" /\ grp.by =< requests
      /\ before # {} /\ byHand[d] = {} => \E g \in before : g.run = grp.run
  BY <1>0 DEF WriteItems, IInv, TypeOK, RequestsInv, RequestInv, Numbered
<1>2. /\ recon' = [recon EXCEPT ![d] = (recon[d] \ old) \cup {grp}]
      /\ req' = [req EXCEPT ![w] = Idle]
      /\ UNCHANGED <<batch, reading, expected, byHand, late, job, requests, failures>>
      /\ overlapped' = overlapped \/ overlapped' = overlapped \cup {d}
  BY <1>0 DEF WriteItems
<1>3. d \notin overlapped' =>
        recon[d] = before /\ \A t \in Tanks : grp.actual[t] \in OrNone(Measured(d, t))
  BY <1>0 DEF WriteItems
<1>4. recon'[d] = (recon[d] \ old) \cup {grp} /\ \A e \in Days \ {d} : recon'[e] = recon[e]
  BY <1>1, <1>2 DEF IInv, TypeOK
<1>5. d \notin overlapped' => RunsApart(d)'
  <2>. SUFFICES ASSUME d \notin overlapped' PROVE RunsApart(d)'
    OBVIOUS
  <2>1. RunsApart(d) /\ recon[d] = before
    BY <1>1, <1>2, <1>3 DEF IInv, ReconciledAsMeasured
  <2>2. \A g \in recon[d] \ old : g.run # grp.run
    BY <2>1
  <2>3. ASSUME NEW g \in recon[d] \ old, byHand[d] = {} PROVE FALSE
    <3>1. PICK h \in recon[d] : h.run = grp.run
      BY <1>1, <2>1, <2>3
    <3>. QED
      BY <2>1, <2>2, <2>3, <3>1 DEF RunsApart
  <2>. HIDE DEF old
  <2>4. \A g \in recon'[d] : g \in recon[d] \ old \/ g = grp
    BY <1>4
  <2>. QED
    BY <1>2, <2>1, <2>2, <2>3, <2>4 DEF RunsApart
<1>. HIDE DEF old
<1>6. TypeOK'
  <2>1. recon' \in [Days -> SUBSET Groups]
    BY <1>1, <1>2 DEF IInv, TypeOK
  <2>2. req' \in [Workers -> Requests] /\ overlapped' \subseteq Days
    BY <1>1, <1>2, IdleType DEF IInv, TypeOK
  <2>. QED
    BY <1>2, <2>1, <2>2 DEF IInv, TypeOK
<1>7. RequestsInv'
  <2>. SUFFICES ASSUME NEW v \in Workers PROVE RequestInv(req[v])'
    BY DEF RequestsInv
  <2>1. req'[v] = IF v = w THEN Idle ELSE req[v]
    BY <1>2 DEF IInv, TypeOK
  <2>2. RequestInv(req[v]) /\ RequestInv(Idle)
    BY IdleType DEF IInv, TypeOK, RequestsInv, RequestInv
  <2>. QED
    BY <1>2, <2>1, <2>2 DEF RequestInv, Named
<1>8. /\ JobInv' /\ OneReading' /\ ReviewedAlike' /\ SubmittedIsComplete' /\ MeasuredAsRead'
  BY <1>2 DEF IInv, JobInv, OneReading, ReviewedAlike, SubmittedIsComplete,
              MeasuredAsRead, Is, Rows, RowsOf
<1>9. Numbered'
  <2>1. \A v \in Workers : req'[v].n =< requests
    BY <1>2, IdleType DEF IInv, TypeOK, Numbered
  <2>2. \A e \in Days : \A g \in recon'[e] : g.by =< requests
    BY <1>1, <1>4 DEF IInv, Numbered
  <2>. QED
    BY <1>2, <2>1, <2>2 DEF Numbered
<1>10. ReconciledAsMeasured'
  <2>. SUFFICES ASSUME NEW e \in Days \ overlapped'
                PROVE  RunsApart(e)' /\ (Due(e)' => Reconciled(e)')
    BY Zenon DEF ReconciledAsMeasured
  <2>1. \A t \in Tanks : Measured(e, t)' = Measured(e, t)
    BY <1>2 DEF Measured, RowsOf, Rows
  <2>2. CASE e = d
    <3>1. \A t \in Tanks : OrNone(Measured(d, t))' = OrNone(Measured(d, t))
      BY <2>1, <2>2 DEF OrNone
    <3>2. Reconciled(d)'
      BY <1>1, <1>3, <1>4, <2>2, <3>1 DEF Reconciled
    <3>. QED
      BY <1>5, <2>2, <3>2
  <2>3. CASE e # d
    <3>1. ASSUME Due(e)' PROVE Due(e)
      <4>1. \A v \in Workers : req'[v] = IF v = w THEN Idle ELSE req[v]
        BY <1>2 DEF IInv, TypeOK
      <4>. QED
        BY <1>0, <1>2, <2>3, <3>1, <4>1 DEF Due, Reconciling, Is
    <3>. QED
      BY <1>2, <1>4, <2>1, <2>3, <3>1, ReconciledSame
  <2>. QED
    BY <2>2, <2>3
<1>. QED
  BY <1>6, <1>7, <1>8, <1>9, <1>10 DEF IInv

-----------------------------------------------------------------------------
(***************************************************************************)
(* Runs by hand.                                                           *)
(***************************************************************************)

\* Creating a run, and calculating one by hand, keep the invariant: a calculation
\* replaces the items of its run by the newest items of the date.
LEMMA HandStep ==
  ASSUME IInv, NEW d \in Days,
         CreateRun(d) \/ \E run \in Runs(d) : CalculateRun(d, run)
  PROVE  IInv'
<1>1. /\ UNCHANGED <<batch, reading, expected, late, req, job, failures, overlapped>>
      /\ requests' = requests + 1 /\ requests < MaxRequests
  BY DEF CreateRun, CalculateRun
<1>2. /\ requests \in Nat /\ requests' \in 0 .. MaxRequests
      /\ \A e \in Days : recon[e] \subseteq Groups /\ byHand[e] \subseteq Nat
      /\ \A e \in Days : \A g \in recon[e] : g.by \in Nat
  BY <1>1, BoundsAssumption DEF IInv, TypeOK, Groups
<1>3. \/ /\ CreateRun(d) /\ recon' = recon
         /\ byHand' = [byHand EXCEPT ![d] = byHand[d] \cup {requests + 1}]
      \/ /\ byHand' = byHand
         /\ \E run \in Runs(d) :
              recon' = [recon EXCEPT ![d] = {g \in recon[d] : g.run # run} \cup {Levels(run)}]
  BY DEF CreateRun, CalculateRun
<1>4. \A run \in Runs(d) :
        /\ Levels(run) \in Groups /\ Levels(run).run = run
        /\ Levels(run).by = requests + 1 /\ Levels(run).kind = "levels"
  <2>1. \A g \in recon[d] : g.run \in Nat
    BY <1>2 DEF Groups
  <2>2. Runs(d) \subseteq Nat
    BY <1>2, <2>1 DEF Runs
  <2>. QED
    BY <1>2, <2>2 DEF Levels, Groups, Idle, Closings
<1>5. recon' \in [Days -> SUBSET Groups] /\ byHand' \in [Days -> SUBSET Nat]
  BY <1>2, <1>3, <1>4 DEF IInv, TypeOK
<1>6. TypeOK'
  BY <1>1, <1>2, <1>5 DEF IInv, TypeOK
<1>7. \A e \in Days : byHand[e] \subseteq byHand'[e]
  BY <1>3 DEF IInv, TypeOK
<1>8. RequestsInv' /\ JobInv'
  <2>2. RequestsInv'
    <3>. SUFFICES ASSUME NEW v \in Workers PROVE RequestInv(req[v])'
      BY DEF RequestsInv
    <3>1. RequestInv(req[v]) /\ req'[v] = req[v]
      BY <1>1 DEF IInv, RequestsInv
    <3>. QED
      BY <1>1, <1>7, <3>1 DEF RequestInv, Named
  <2>. QED
    BY <1>1, <2>2 DEF IInv, JobInv
<1>9. /\ OneReading' /\ ReviewedAlike' /\ SubmittedIsComplete' /\ MeasuredAsRead'
  BY <1>1 DEF IInv, OneReading, ReviewedAlike, SubmittedIsComplete, MeasuredAsRead,
              Is, Rows, RowsOf
<1>10. Numbered'
  <2>2. \A v \in Workers : req'[v].n =< requests'
    <3>1. \A v \in Workers : req[v].n \in Nat
      BY DEF IInv, TypeOK, Requests
    <3>. QED
      BY <1>1, <1>2, <3>1 DEF IInv, Numbered
  <2>. SUFFICES ASSUME NEW e \in Days, NEW g \in recon'[e] PROVE g.by =< requests'
    BY <2>2 DEF Numbered
  <2>1. g \in recon[e] \/ g.by = requests + 1
    BY <1>3, <1>4 DEF IInv, TypeOK
  <2>. QED
    BY <1>1, <1>2, <2>1 DEF IInv, Numbered
<1>11. ReconciledAsMeasured'
  <2>. SUFFICES ASSUME NEW e \in Days \ overlapped'
                PROVE  RunsApart(e)' /\ (Due(e)' => Reconciled(e)')
    BY Zenon DEF ReconciledAsMeasured
  <2>1. \A t \in Tanks : Measured(e, t)' = Measured(e, t)
    BY <1>1 DEF Measured, RowsOf, Rows
  <2>2. Due(e)' => Due(e)
    BY <1>1 DEF Due, Is, Reconciling
  <2>3. RunsApart(e) /\ (Due(e) => Reconciled(e))
    BY <1>1 DEF IInv, ReconciledAsMeasured
  <2>4. CASE recon'[e] = recon[e]
    <3>1. RunsApart(e)'
      BY <1>7, <2>3, <2>4 DEF RunsApart
    <3>2. ASSUME Due(e)' PROVE Reconciled(e)'
      <4>1. \A t \in Tanks : OrNone(Measured(e, t))' = OrNone(Measured(e, t))
        BY <2>1 DEF OrNone
      <4>. QED
        BY <2>2, <2>3, <2>4, <3>2, <4>1 DEF Reconciled
    <3>. QED
      BY <3>1, <3>2
  <2>5. ASSUME NEW run \in Runs(e), e = d, byHand' = byHand,
               recon'[e] = {g \in recon[e] : g.run # run} \cup {Levels(run)}
        PROVE  RunsApart(e)' /\ Reconciled(e)'
    <3>1. Levels(run).run = run /\ Levels(run).by = requests + 1
          /\ Levels(run).kind = "levels"
      BY <1>4, <2>5
    <3>2. RunsApart(e)'
      <4>1. ASSUME NEW g \in recon[e], g.run # run PROVE byHand[e] # {}
        BY <2>3, <2>5, <4>1 DEF RunsApart, Runs
      <4>. QED
        BY <2>3, <2>5, <3>1, <4>1 DEF RunsApart
    <3>3. \A h \in recon'[e] : h.by =< Levels(run).by
      BY <1>2, <2>5, <3>1 DEF IInv, Numbered
    <3>. QED
      BY <2>5, <3>1, <3>2, <3>3 DEF Reconciled
  <2>6. \/ recon'[e] = recon[e]
        \/ /\ e = d /\ byHand' = byHand
           /\ \E run \in Runs(e) :
                recon'[e] = {g \in recon[e] : g.run # run} \cup {Levels(run)}
    BY <1>3 DEF IInv, TypeOK
  <2>. QED
    BY <2>4, <2>5, <2>6
<1>. QED
  BY <1>6, <1>8, <1>9, <1>10, <1>11 DEF IInv

-----------------------------------------------------------------------------
(***************************************************************************)
(* The deadline job.                                                       *)
(***************************************************************************)

\* What the job holds does not touch the tables.
LEMMA JobOnly ==
  ASSUME IInv, UNCHANGED <<tables, req, requests, overlapped>>,
         job' \in [day : Days \cup {None}, batch : Batches \cup {None}],
         job'.batch # None => job'.day \in Days /\ batch[job'.day] # None,
         failures' \in 0 .. MaxFailures, failures' = failures \/ failures' # 0
  PROVE  IInv'
<1>. USE DEF tables
<1>1. TypeOK'
  BY DEF IInv, TypeOK
<1>2. RequestsInv'
  BY DEF IInv, RequestsInv, RequestInv, Named
<1>3. JobInv'
  BY DEF JobInv
<1>4. /\ OneReading' /\ ReviewedAlike' /\ Numbered' /\ SubmittedIsComplete' /\ MeasuredAsRead'
  BY DEF IInv, OneReading, ReviewedAlike, Numbered, SubmittedIsComplete,
         MeasuredAsRead, Is, Rows, RowsOf
<1>5. ReconciledAsMeasured'
  <2>. SUFFICES ASSUME NEW d \in Days \ overlapped'
                PROVE  RunsApart(d)' /\ (Due(d)' => Reconciled(d)')
    BY Zenon DEF ReconciledAsMeasured
  <2>1. \A t \in Tanks : Measured(d, t)' = Measured(d, t)
    BY DEF Measured, RowsOf, Rows
  <2>2. Due(d)' => Due(d)
    BY DEF Due, Is, Reconciling
  <2>. QED
    BY <2>1, <2>2, ReconciledSame
<1>. QED
  BY <1>1, <1>2, <1>3, <1>4, <1>5 DEF IInv

\* The job loads a date and its batch, or gives up.
LEMMA JobLoadStep ==
  ASSUME IInv, (\E d \in Days : JobLoad(d)) \/ JobFails
  PROVE  IInv'
<1>1. ASSUME NEW d \in Days, JobLoad(d) PROVE IInv'
  BY <1>1, JobOnly DEF JobLoad, IInv, TypeOK
<1>2. CASE JobFails
  <2>1. failures' \in 0 .. MaxFailures /\ failures' # 0
    BY <1>2, BoundsAssumption DEF JobFails, IInv, TypeOK
  <2>2. job' = JobIdle /\ UNCHANGED <<tables, req, requests, overlapped>>
    BY <1>2 DEF JobFails
  <2>. QED
    BY <2>1, <2>2, JobOnly DEF JobIdle
<1>. QED
  BY <1>1, <1>2

\* The job's commit changes a date's status and nothing else of its batch; on a
\* date whose batch has not changed since, it leaves an unfinished one unfinished.
LEMMA JobCommitStep ==
  ASSUME IInv, JobCommit
  PROVE  IInv'
<1> DEFINE d == job.day
           old == job.batch
           wrote == old # None /\ old.status \in Unfinished
           status == Flushed(old.status, IF old.counted THEN "PARTIAL" ELSE "NOT_STARTED",
                             batch[d].status)
<1>1. /\ d \in Days /\ old \in Batches \cup {None}
      /\ old # None => batch[d] # None
      /\ batch \in [Days -> Batches \cup {None}]
  BY DEF JobCommit, IInv, TypeOK, JobInv
<1>2. /\ batch' = IF wrote THEN [batch EXCEPT ![d].status = status] ELSE batch
      /\ overlapped' = IF wrote /\ batch[d] # old THEN overlapped \cup {d} ELSE overlapped
      /\ late' = late \cup {<<d, IF old = None THEN "MISSING" ELSE "LATE">>}
      /\ job' = JobIdle
      /\ UNCHANGED <<reading, expected, recon, byHand, req, requests, failures>>
  BY DEF JobCommit
<1>3. wrote => /\ batch'[d] = [batch[d] EXCEPT !.status = status]
               /\ batch'[d] \in Batches
               /\ batch'[d].version = batch[d].version
  <2>. SUFFICES ASSUME wrote PROVE /\ batch'[d] = [batch[d] EXCEPT !.status = status]
                                   /\ batch'[d] \in Batches
                                   /\ batch'[d].version = batch[d].version
    OBVIOUS
  <2>1. batch[d] \in Batches
    BY <1>1
  <2>2. status \in BatchStatuses
    BY <2>1 DEF Batches, Flushed, BatchStatuses
  <2>3. batch'[d] = [batch[d] EXCEPT !.status = status]
    BY <1>1, <1>2
  <2>. HIDE DEF status
  <2>. QED
    BY <2>1, <2>2, <2>3 DEF Batches
<1>3a. wrote => batch[d] # None
  BY <1>1
<1>4. batch' \in [Days -> Batches \cup {None}] /\ \A e \in Days \ {d} : batch'[e] = batch[e]
  <2>. HIDE DEF status
  <2>. QED  BY <1>1, <1>2, <1>3
<1>5. wrote /\ d \notin overlapped' => batch'[d].status \in {"PARTIAL", "NOT_STARTED"}
  <2>. SUFFICES ASSUME wrote, d \notin overlapped'
                PROVE  batch'[d].status \in {"PARTIAL", "NOT_STARTED"}
    OBVIOUS
  <2>1. batch[d] = old /\ batch[d] \in Batches
    BY <1>1, <1>2
  <2>2. status \in {"PARTIAL", "NOT_STARTED"}
    BY <2>1 DEF Flushed
  <2>. HIDE DEF status
  <2>. QED
    BY <1>3, <2>1, <2>2 DEF Batches
<1>6. ~wrote => batch'[d] = batch[d]
  BY <1>2
<1>7. overlapped \subseteq overlapped' /\ overlapped' \subseteq overlapped \cup {d}
  BY <1>2
<1>. HIDE DEF wrote, status
<1>8. \A e \in Days : (batch'[e] = None <=> batch[e] = None)
  BY <1>1, <1>3, <1>4, <1>3a, <1>6, Facts
<1>9. \A e \in Days \ overlapped' :
         batch'[e] = batch[e] \/ batch'[e].status \in {"PARTIAL", "NOT_STARTED"}
  BY <1>4, <1>5, <1>6
<1>10. TypeOK'
  BY <1>1, <1>2, <1>4, <1>7 DEF IInv, TypeOK, JobIdle
<1>11. RequestsInv' /\ JobInv'
  BY <1>2, <1>8 DEF IInv, RequestsInv, RequestInv, Named, JobInv, JobIdle
<1>12. OneReading' /\ Numbered'
  BY <1>2, <1>7 DEF IInv, OneReading, Numbered
<1>13. ReviewedAlike' /\ SubmittedIsComplete' /\ MeasuredAsRead'
  <2>1. \A e, t : Rows(e)' = Rows(e) /\ RowsOf(e, t)' = RowsOf(e, t)
    BY <1>2 DEF Rows, RowsOf
  <2>2. ReviewedAlike'
    <3>. SUFFICES ASSUME NEW e \in Days \ overlapped', Is(e, Reviews)'
                  PROVE  \A s \in Rows(e) : reading[e][s].status = batch'[e].status
      BY <1>2, <2>1 DEF ReviewedAlike
    <3>1. batch'[e] = batch[e] /\ Is(e, Reviews)
      BY <1>9 DEF Is, Reviews
    <3>. QED
      BY <1>7, <3>1 DEF IInv, ReviewedAlike
  <2>3. SubmittedIsComplete'
    <3>. SUFFICES ASSUME NEW e \in Days \ overlapped', Is(e, {"SUBMITTED"})', NEW t \in Tanks
                  PROVE  \E s \in Slots :
                           /\ RowsOf(e, t) = {s}
                           /\ reading[e][s].status = "SUBMITTED" /\ reading[e][s].closing # None
      BY <1>2, <2>1 DEF SubmittedIsComplete
    <3>1. Is(e, {"SUBMITTED"})
      BY <1>9 DEF Is
    <3>. QED
      BY <1>7, <3>1 DEF IInv, SubmittedIsComplete
  <2>4. MeasuredAsRead'
    <3>. SUFFICES ASSUME NEW e \in Days \ overlapped', Is(e, {"SUBMITTED", "CORRECTED"})'
                  PROVE  \A s \in Rows(e) :
                           reading[e][s].status \in {"SUBMITTED", "CORRECTED"} =>
                             reading[e][s].measured = reading[e][s].closing
      BY <1>2, <2>1 DEF MeasuredAsRead
    <3>1. Is(e, {"SUBMITTED", "CORRECTED"})
      BY <1>9 DEF Is
    <3>. QED
      BY <1>7, <3>1 DEF IInv, MeasuredAsRead
  <2>. QED
    BY <2>2, <2>3, <2>4
<1>14. ReconciledAsMeasured'
  <2>. SUFFICES ASSUME NEW e \in Days \ overlapped'
                PROVE  RunsApart(e)' /\ (Due(e)' => Reconciled(e)')
    BY Zenon DEF ReconciledAsMeasured
  <2>1. \A t \in Tanks : Measured(e, t)' = Measured(e, t)
    BY <1>2 DEF Measured, RowsOf, Rows
  <2>2. Due(e)' => Due(e)
    BY <1>2, <1>9 DEF Due, Is, Reconciling
  <2>. QED
    BY <1>2, <1>7, <2>1, <2>2, ReconciledSame
<1>. QED
  BY <1>10, <1>11, <1>12, <1>13, <1>14 DEF IInv

-----------------------------------------------------------------------------
(***************************************************************************)
(* The commit: what is written, and what it is if the read was current.    *)
(***************************************************************************)

\* A request at its commit holds what it has checked.
LEMMA CommitFacts ==
  ASSUME IInv, NEW w \in Workers, req[w].pc = "commit"
  PROVE  /\ req[w] \in Requests /\ req[w].kind \in Kinds /\ req[w].day \in Days
         /\ RequestInv(req[w])
         /\ reading[req[w].day] \in [Slots -> Readings \cup {None}]
         /\ batch[req[w].day] \in Batches \cup {None}
BY DEF IInv, TypeOK, RequestsInv, RequestInv

\* The readings a request writes are readings of the tanks it names.
LEMMA TouchedFacts ==
  ASSUME IInv, NEW w \in Workers, req[w].pc = "commit", NEW s \in Touched(w)
  PROVE  /\ s \in Slots /\ s[1] \in Named(req[w])
         /\ Loaded(w, s) \in Readings
         /\ req[w].kind \in {"draft", "correct"} => req[w].items[s[1]] \in Closings
         /\ Changed(req[w], s, Loaded(w, s)) \in Readings
<1>1. s \in Slots /\ s[1] \in Named(req[w])
  BY CommitFacts DEF Touched, Selected, Inserted, RequestInv
<1>2. Loaded(w, s) \in Readings
  BY <1>1, CommitFacts, Facts DEF Loaded, Selected, Requests
<1>3. req[w].kind \in {"draft", "correct"} => req[w].items[s[1]] \in Closings
  BY <1>1, CommitFacts, Facts DEF Named, RequestInv
<1>. QED
  BY <1>1, <1>2, <1>3, CommitFacts, ChangedType

\* A commit writes readings, and leaves those it does not touch.
LEMMA WrittenReadingsType ==
  ASSUME IInv, NEW w \in Workers, req[w].pc = "commit"
  PROVE  /\ WrittenReadings(w) \in [Slots -> Readings \cup {None}]
         /\ \A s \in Slots : IF s \in Touched(w) THEN WrittenReadings(w)[s] # None
                             ELSE WrittenReadings(w)[s] = reading[req[w].day][s]
<1>1. ASSUME NEW s \in Slots, s \notin Touched(w)
      PROVE  WrittenReadings(w)[s] = reading[req[w].day][s]
  BY <1>1 DEF WrittenReadings
<1>2. ASSUME NEW s \in Slots, s \in Touched(w)
      PROVE  WrittenReadings(w)[s] \in Readings
  <2> DEFINE old == Loaded(w, s)
             new == Changed(req[w], s, old)
             now == reading[req[w].day][s]
  <2>1. old \in Readings /\ new \in Readings /\ now \in Readings \cup {None}
    BY <1>2, TouchedFacts, CommitFacts
  <2>2. WrittenReadings(w)[s] =
          IF now = None THEN new
          ELSE [status   |-> Flushed(old.status, new.status, now.status),
                closing  |-> Flushed(old.closing, new.closing, now.closing),
                measured |-> Flushed(old.measured, new.measured, now.measured)]
    BY <1>2 DEF WrittenReadings
  <2>. HIDE DEF old, new, now
  <2>3. CASE now = None
    BY <2>1, <2>2, <2>3
  <2>4. CASE now # None
    BY <2>1, <2>2, <2>4 DEF Readings, Flushed
  <2>. QED
    BY <2>3, <2>4
<1>3. \A s \in Slots : WrittenReadings(w)[s] \in Readings \cup {None}
  BY <1>1, <1>2, CommitFacts
<1>4. WrittenReadings(w) \in [Slots -> Readings \cup {None}]
  <2>1. WrittenReadings(w) = [s \in Slots |-> WrittenReadings(w)[s]]
    BY DEF WrittenReadings
  <2>. QED
    BY <1>3, <2>1
<1>. QED
  BY <1>1, <1>2, <1>4, Facts

\* A commit writes a batch.
LEMMA WrittenBatchType ==
  ASSUME IInv, NEW w \in Workers, req[w].pc = "commit"
  PROVE  WrittenBatch(w) \in Batches
<1> DEFINE old == req[w].batch
           new == ChangedBatch(req[w], old)
           now == batch[req[w].day]
<1>1. CASE old = None
  BY <1>1, CommitFacts, Facts, ChangedBatchType DEF WrittenBatch
<1>2. CASE old # None
  <2>1. old \in Batches /\ now \in Batches
    BY <1>2, CommitFacts DEF Requests, RequestInv
  <2>2. new \in Batches
    BY <2>1, CommitFacts, ChangedBatchType
  <2>3. WrittenBatch(w) = [status  |-> Flushed(old.status, new.status, now.status),
                           version |-> Flushed(old.version, new.version, now.version),
                           counted |-> Flushed(old.counted, new.counted, now.counted)]
    BY <1>2 DEF WrittenBatch
  <2>. HIDE DEF old, new, now
  <2>. QED
    BY <2>1, <2>2, <2>3 DEF Batches, Flushed
<1>. QED
  BY <1>1, <1>2

\* A commit leaves the expected state of a tank one.
LEMMA WrittenExpectedType ==
  ASSUME IInv, NEW w \in Workers, req[w].pc = "commit"
  PROVE  WrittenExpected(w) \in [Tanks -> Closings]
<1>1. \A t \in Tanks : expected[t] \in Closings /\ req[w].expected[t] \in Closings
  BY CommitFacts DEF IInv, TypeOK, Requests
<1>2. ASSUME NEW t \in Tanks
      PROVE  WrittenExpected(w)[t] \in Closings
  <2> DEFINE own == {s \in Touched(w) : s[1] = t}
             s0  == CHOOSE s \in own : TRUE
             vol == Changed(req[w], s0, Loaded(w, s0)).closing
             was == IF req[w].expected[t] = None THEN 0 ELSE req[w].expected[t]
  <2>1. WrittenExpected(w)[t] =
          IF req[w].kind \notin {"submit", "correct"} \/ own = {} THEN expected[t]
          ELSE Flushed(req[w].expected[t], IF vol = 0 THEN was ELSE vol, expected[t])
    BY DEF WrittenExpected
  <2>2. CASE own = {}
    BY <1>1, <2>1, <2>2
  <2>3. CASE own # {}
    <3>1. s0 \in Touched(w)
      BY <2>3
    <3>. HIDE DEF s0
    <3>2. vol \in Closings
      BY <3>1, TouchedFacts DEF Readings
    <3>3. (IF vol = 0 THEN was ELSE vol) \in Closings
      BY <1>1, <3>2
    <3>. HIDE DEF vol, was
    <3>. QED
      BY <1>1, <2>1, <3>3 DEF Flushed
  <2>. QED
    BY <2>2, <2>3
<1>3. WrittenExpected(w) = [t \in Tanks |-> WrittenExpected(w)[t]]
  BY DEF WrittenExpected
<1>. QED
  BY <1>2, <1>3

\* On a date that has not changed since it was read, the commit writes exactly
\* what the request makes of the stored batch and readings.
LEMMA CurrentWrite ==
  ASSUME IInv, NEW w \in Workers, req[w].pc = "commit", ~Outdated(w)
  PROVE  /\ req[w].batch = batch[req[w].day]
         /\ WrittenBatch(w) = ChangedBatch(req[w], IF batch[req[w].day] = None THEN NewBatch
                                                   ELSE batch[req[w].day])
         /\ \A s \in Touched(w) :
              WrittenReadings(w)[s] = Changed(req[w], s, Loaded(w, s))
         /\ \A s \in Selected(w) :
              reading[req[w].day][s] # None /\ Loaded(w, s) = reading[req[w].day][s]
         /\ \A s \in Inserted(w) : RowsOf(req[w].day, s[1]) = {}
<1> DEFINE d == req[w].day
<1>1. req[w].batch = batch[d]
  BY DEF Outdated
<1>2. WrittenBatch(w) = ChangedBatch(req[w], IF batch[d] = None THEN NewBatch ELSE batch[d])
  <2>1. CASE batch[d] = None
    BY <1>1, <2>1 DEF WrittenBatch
  <2>2. CASE batch[d] # None
    <3> DEFINE new == ChangedBatch(req[w], batch[d])
    <3>1. batch[d] \in Batches /\ new \in Batches
      BY <2>2, CommitFacts, ChangedBatchType
    <3>2. WrittenBatch(w) =
            [status  |-> Flushed(batch[d].status, new.status, batch[d].status),
             version |-> Flushed(batch[d].version, new.version, batch[d].version),
             counted |-> Flushed(batch[d].counted, new.counted, batch[d].counted)]
      BY <1>1, <2>2 DEF WrittenBatch
    <3>. HIDE DEF new
    <3>3. WrittenBatch(w) = [status |-> new.status, version |-> new.version,
                             counted |-> new.counted]
      BY <3>2, FlushedCurrent
    <3>4. WrittenBatch(w) = new
      BY <3>1, <3>3 DEF Batches
    <3>. QED
      BY <2>2, <3>4 DEF new
  <2>. QED
    BY <2>1, <2>2
<1>3. \A s \in Selected(w) : reading[d][s] # None /\ Loaded(w, s) = reading[d][s]
  BY DEF Outdated, Selected, Loaded
<1>4. \A s \in Inserted(w) : RowsOf(d, s[1]) = {}
  BY DEF Outdated
<1>5. ASSUME NEW s \in Touched(w)
      PROVE  WrittenReadings(w)[s] = Changed(req[w], s, Loaded(w, s))
  <2> DEFINE old == Loaded(w, s)
             new == Changed(req[w], s, old)
             now == reading[d][s]
  <2>1. old \in Readings /\ new \in Readings /\ s \in Slots
    BY TouchedFacts
  <2>2. WrittenReadings(w)[s] =
          IF now = None THEN new
          ELSE [status   |-> Flushed(old.status, new.status, now.status),
                closing  |-> Flushed(old.closing, new.closing, now.closing),
                measured |-> Flushed(old.measured, new.measured, now.measured)]
    BY <2>1 DEF WrittenReadings
  <2>3. now = None \/ now = old
    <3>1. CASE s \in Selected(w)
      BY <1>3, <3>1
    <3>2. CASE s \in Inserted(w)
      BY <1>4, <2>1, <3>2 DEF RowsOf, Rows
    <3>. QED
      BY <3>1, <3>2 DEF Touched
  <2>. HIDE DEF old, new, now
  <2>4. CASE now # None
    <3>1. WrittenReadings(w)[s] = [status |-> new.status, closing |-> new.closing,
                                   measured |-> new.measured]
      BY <2>2, <2>3, <2>4, FlushedCurrent
    <3>. QED
      BY <2>1, <3>1 DEF Readings, new, old
  <2>5. CASE now = None
    BY <2>2, <2>5 DEF new, old
  <2>. QED
    BY <2>4, <2>5
<1>. QED
  BY <1>1, <1>2, <1>3, <1>4, <1>5

\* The status a request gives a batch tells its kind.
LEMMA ChangedStatus ==
  ASSUME NEW r, r.kind \in Kinds, NEW old \in Batches
  PROVE  /\ r.kind = "submit" <=> ChangedBatch(r, old).status = "SUBMITTED"
         /\ r.kind = "correct" <=> ChangedBatch(r, old).status = "CORRECTED"
         /\ r.kind \in Reviews <=> ChangedBatch(r, old).status \in Reviews
         /\ r.kind \in Reviews => ChangedBatch(r, old).status = r.kind
<1>. USE DEF ChangedBatch, Batches, Reviews
<1>1. CASE r.kind = "draft"
  BY <1>1
<1>2. CASE r.kind = "submit"
  BY <1>2
<1>3. CASE r.kind = "correct"
  BY <1>3
<1>4. CASE r.kind \in Reviews
  BY <1>4
<1>. QED
  BY <1>1, <1>2, <1>3, <1>4 DEF Kinds

\* What a commit changes; a date that stays free of outdated writes was not
\* outdated.
LEMMA CommitChanges ==
  ASSUME IInv, NEW w \in Workers, Commit(w), NEW d, d = req[w].day
  PROVE  /\ req[w].pc = "commit" /\ d \in Days
         /\ batch'[d] = WrittenBatch(w) /\ reading'[d] = WrittenReadings(w)
         /\ \A e \in Days \ {d} : batch'[e] = batch[e] /\ reading'[e] = reading[e]
         /\ overlapped \subseteq overlapped'
         /\ d \notin overlapped' => ~Outdated(w)
         /\ UNCHANGED <<recon, late, job, requests, failures>>
         /\ \A v \in Workers \ {w} : req'[v] = req[v]
         /\ req'[w].pc = IF req[w].kind \in {"submit", "correct"} THEN "recon" ELSE "idle"
         /\ req'[w].day = IF req[w].kind \in {"submit", "correct"} THEN d ELSE None
<1>1. req[w].pc = "commit" /\ d \in Days
  BY CommitFacts DEF Commit
<1>2. /\ batch' = [batch EXCEPT ![d] = WrittenBatch(w)]
      /\ reading' = [reading EXCEPT ![d] = WrittenReadings(w)]
      /\ overlapped' = IF Outdated(w) THEN overlapped \cup {d} ELSE overlapped
      /\ req' = [req EXCEPT ![w] =
           IF req[w].kind \in {"submit", "correct"}
           THEN [Idle EXCEPT !.pc = "recon", !.n = req[w].n, !.day = req[w].day] ELSE Idle]
      /\ UNCHANGED <<recon, late, job, requests, failures>>
  BY DEF Commit
<1>3. batch \in [Days -> Batches \cup {None}] /\ DOMAIN reading = Days /\ DOMAIN req = Workers
  BY DEF IInv, TypeOK
<1>4. req'[w] = IF req[w].kind \in {"submit", "correct"}
                THEN [Idle EXCEPT !.pc = "recon", !.n = req[w].n, !.day = req[w].day]
                ELSE Idle
  BY <1>2, <1>3
<1>. QED
  BY <1>1, <1>2, <1>3, <1>4 DEF Idle

\* A commit is well typed, and what is left of the request reconciles its date.
LEMMA CommitType ==
  ASSUME IInv, NEW w \in Workers, Commit(w)
  PROVE  TypeOK' /\ RequestsInv' /\ JobInv'
<1> DEFINE d == req[w].day
           r == [Idle EXCEPT !.pc = "recon", !.n = req[w].n, !.day = req[w].day]
           r1 == [Idle EXCEPT !.pc = "recon"]
           r2 == [r1 EXCEPT !.n = req[w].n]
           r3 == [r2 EXCEPT !.day = req[w].day]
<1>1. /\ batch' = [batch EXCEPT ![d] = WrittenBatch(w)]
      /\ reading' = [reading EXCEPT ![d] = WrittenReadings(w)]
      /\ expected' = WrittenExpected(w)
      /\ overlapped' = IF Outdated(w) THEN overlapped \cup {d} ELSE overlapped
      /\ req' = [req EXCEPT ![w] = IF req[w].kind \in {"submit", "correct"} THEN r ELSE Idle]
      /\ UNCHANGED <<recon, byHand, late, job, requests, failures>>
      /\ req[w].pc = "commit"
  BY DEF Commit
<1>2. d \in Days /\ req[w] \in Requests
  BY <1>1, CommitFacts
<1>3. r \in Requests /\ r.pc = "recon" /\ r.day = d /\ r.n = req[w].n
  <2>1. r1 \in Requests
    BY IdleType DEF Requests
  <2>2. r2 \in Requests
    <3>. HIDE DEF r1
    <3>. QED  BY <1>2, <2>1 DEF Requests
  <2>3. r3 \in Requests
    <3>. HIDE DEF r2
    <3>. QED  BY <1>2, <2>2 DEF Requests
  <2>4. r = r3
    OBVIOUS
  <2>. QED
    BY <2>3, <2>4, IdleType DEF Requests
<1>. HIDE DEF r
<1>4. WrittenBatch(w) \in Batches /\ WrittenBatch(w) # None
  BY <1>1, WrittenBatchType, Facts
<1>5. TypeOK'
  <2>1. batch' \in [Days -> Batches \cup {None}]
    BY <1>1, <1>4 DEF IInv, TypeOK
  <2>2. reading' \in [Days -> [Slots -> Readings \cup {None}]]
    BY <1>1, WrittenReadingsType DEF IInv, TypeOK
  <2>3. expected' \in [Tanks -> Closings]
    BY <1>1, WrittenExpectedType
  <2>4. req' \in [Workers -> Requests]
    BY <1>1, <1>3, IdleType DEF IInv, TypeOK
  <2>. QED
    BY <1>1, <1>2, <2>1, <2>2, <2>3, <2>4 DEF IInv, TypeOK
<1>6. \A e \in Days : batch[e] # None => batch'[e] # None
  BY <1>1, <1>4 DEF IInv, TypeOK
<1>7. RequestsInv'
  <2>. SUFFICES ASSUME NEW v \in Workers PROVE RequestInv(req[v])'
    BY DEF RequestsInv
  <2>1. CASE v = w
    <3>1. req'[v] = r \/ req'[v] = Idle
      BY <1>1, <2>1 DEF IInv, TypeOK
    <3>. QED
      BY <1>2, <1>3, <3>1, IdleType DEF RequestInv
  <2>2. CASE v # w
    <3>1. req'[v] = req[v] /\ RequestInv(req[v])
      BY <1>1, <2>2 DEF IInv, TypeOK, RequestsInv
    <3>. QED
      BY <1>1, <1>6, <3>1 DEF RequestInv, Named
  <2>. QED
    BY <2>1, <2>2
<1>8. JobInv'
  BY <1>1, <1>6 DEF IInv, JobInv
<1>. QED
  BY <1>5, <1>7, <1>8

\* A commit on a date that stays free of outdated writes keeps one reading a tank.
LEMMA CommitOneReading ==
  ASSUME IInv, NEW w \in Workers, Commit(w), NEW d, d = req[w].day, d \notin overlapped',
         NEW s \in Slots, NEW q \in Slots,
         reading'[d][s] # None, reading'[d][q] # None, s[1] = q[1]
  PROVE  s = q
<1>1. /\ req[w].pc = "commit" /\ d \in Days /\ reading'[d] = WrittenReadings(w)
      /\ ~Outdated(w) /\ d \notin overlapped
  BY CommitChanges
<1>2. \A x \in Slots : reading'[d][x] # None => x \in Rows(d) \/ x \in Inserted(w)
  BY <1>1, WrittenReadingsType, CurrentWrite DEF Rows, Touched
<1>3. \A x \in Inserted(w), y \in Rows(d) : x[1] # y[1]
  BY <1>1, CurrentWrite DEF RowsOf
<1>4. CASE s \in Rows(d) /\ q \in Rows(d)
  BY <1>1, <1>4 DEF Rows, IInv, OneReading
<1>5. CASE s \in Inserted(w) /\ q \in Inserted(w)
  BY <1>5 DEF Inserted, Slots
<1>. QED
  BY <1>2, <1>3, <1>4, <1>5

\* On such a date a submission has written the one reading of every tank.
LEMMA SubmissionWrites ==
  ASSUME IInv, NEW w \in Workers, Commit(w), NEW d, d = req[w].day, d \notin overlapped',
         req[w].kind = "submit", NEW t \in Tanks
  PROVE  \E s \in Slots :
           /\ s[1] = t /\ reading'[d][s] # None
           /\ reading'[d][s].status = "SUBMITTED" /\ reading'[d][s].closing # None
           /\ reading'[d][s].measured = reading'[d][s].closing
<1>1. /\ req[w].pc = "commit" /\ d \in Days /\ reading'[d] = WrittenReadings(w)
      /\ ~Outdated(w)
  BY CommitChanges
<1>2. PICK s \in Slots : s[1] = t /\ req[w].rows[s] # None /\ req[w].rows[s].closing # None
  BY <1>1, CommitFacts DEF RequestInv
<1>3. s \in Selected(w) /\ s \in Touched(w) /\ Loaded(w, s) = req[w].rows[s]
  BY <1>2 DEF Selected, Touched, Loaded
<1>4. Loaded(w, s) \in Readings
  BY <1>1, <1>3, TouchedFacts
<1>5. reading'[d][s] = Changed(req[w], s, Loaded(w, s))
  BY <1>1, <1>3, CurrentWrite
<1>6. Changed(req[w], s, Loaded(w, s)) =
        [Loaded(w, s) EXCEPT !.status = "SUBMITTED", !.measured = Loaded(w, s).closing]
  BY DEF Changed
<1>7. reading'[d][s] # None
  BY <1>1, <1>3, WrittenReadingsType
<1>. QED
  BY <1>2, <1>3, <1>4, <1>5, <1>6, <1>7 DEF Readings

\* What a commit may do to a date that stays free of outdated writes.
LEMMA CommitDate ==
  ASSUME IInv, NEW w \in Workers, Commit(w), NEW d, d = req[w].day, d \notin overlapped'
  PROVE  /\ Is(d, {"SUBMITTED"})' => req[w].kind = "submit"
         /\ Is(d, {"SUBMITTED", "CORRECTED"})' => req[w].kind \in {"submit", "correct"}
         /\ Is(d, Reviews)' => req[w].kind \in Reviews /\ batch'[d].status = req[w].kind
<1>1. /\ req[w].pc = "commit" /\ d \in Days /\ batch'[d] = WrittenBatch(w) /\ ~Outdated(w)
  BY CommitChanges
<1> DEFINE old == IF batch[d] = None THEN NewBatch ELSE batch[d]
<1>2. old \in Batches /\ req[w].kind \in Kinds
  BY <1>1, CommitFacts, Facts
<1>3. batch'[d] = ChangedBatch(req[w], old)
  BY <1>1, CurrentWrite
<1>. HIDE DEF old
<1>. QED
  BY <1>2, <1>3, ChangedStatus DEF Is

\* A review that is not outdated puts its verdict on every reading of its date.
LEMMA CommitReviewed ==
  ASSUME IInv, NEW w \in Workers, Commit(w), NEW d, d = req[w].day, d \notin overlapped',
         req[w].kind \in Reviews, NEW s \in Slots, reading'[d][s] # None
  PROVE  reading'[d][s].status = req[w].kind
<1>1. /\ req[w].pc = "commit" /\ d \in Days /\ reading'[d] = WrittenReadings(w)
      /\ ~Outdated(w)
  BY CommitChanges
<1>2. s \in Selected(w)
  <2>1. Rows(d) = Selected(w) /\ Inserted(w) = {}
    BY <1>1 DEF Outdated, Inserted, Reviews
  <2>. QED
    BY <1>1, <2>1, WrittenReadingsType DEF Touched, Rows
<1>3. s \in Touched(w) /\ Loaded(w, s) \in Readings
  BY <1>1, <1>2, TouchedFacts DEF Touched
<1>4. reading'[d][s] = [Loaded(w, s) EXCEPT !.status = req[w].kind]
  <2>1. reading'[d][s] = Changed(req[w], s, Loaded(w, s))
    BY <1>1, <1>3, CurrentWrite
  <2>. QED
    BY <2>1 DEF Changed, Reviews
<1>. QED
  BY <1>3, <1>4 DEF Readings

\* After a submission or correction that is not outdated, the measurement of every
\* submitted or corrected reading is its closing volume.
LEMMA CommitMeasured ==
  ASSUME IInv, NEW w \in Workers, Commit(w), NEW d, d = req[w].day, d \notin overlapped',
         req[w].kind \in {"submit", "correct"}, NEW s \in Slots, reading'[d][s] # None,
         reading'[d][s].status \in {"SUBMITTED", "CORRECTED"}
  PROVE  reading'[d][s].measured = reading'[d][s].closing
<1>1. /\ req[w].pc = "commit" /\ d \in Days /\ reading'[d] = WrittenReadings(w)
      /\ ~Outdated(w) /\ d \notin overlapped
  BY CommitChanges
<1>2. CASE req[w].kind = "submit"
  <2>1. s[1] \in Tanks
    BY Facts
  <2>2. PICK q \in Slots : /\ q[1] = s[1] /\ reading'[d][q] # None
                           /\ reading'[d][q].measured = reading'[d][q].closing
    BY <1>2, <2>1, SubmissionWrites
  <2>3. s = q
    BY <2>2, CommitOneReading
  <2>. QED
    BY <2>2, <2>3
<1>3. CASE req[w].kind = "correct"
  <2>1. CASE s \in Touched(w)
    <3>1. reading'[d][s] = Changed(req[w], s, Loaded(w, s))
      BY <1>1, <2>1, CurrentWrite
    <3>. QED
      BY <1>3, <3>1 DEF Changed
  <2>2. CASE s \notin Touched(w)
    <3>1. reading'[d][s] = reading[d][s] /\ s \in Rows(d)
      BY <1>1, <2>2, WrittenReadingsType DEF Rows
    <3>2. batch[d] # None /\ batch[d].status \in Locked \cup {"REOPENED"}
      BY <1>1, <1>3, CommitFacts, CurrentWrite DEF RequestInv
    <3>3. CASE batch[d].status \in {"SUBMITTED", "CORRECTED"}
      BY <1>1, <3>1, <3>2, <3>3 DEF IInv, MeasuredAsRead, Is
    <3>4. CASE batch[d].status \in Reviews
      BY <1>1, <3>1, <3>2, <3>4 DEF IInv, ReviewedAlike, Is, Reviews
    <3>. QED
      BY <3>2, <3>3, <3>4 DEF Locked, Reviews
  <2>. QED
    BY <2>1, <2>2
<1>. QED
  BY <1>2, <1>3

\* A commit keeps the invariant.
LEMMA CommitStep ==
  ASSUME IInv, NEW w \in Workers, Commit(w)
  PROVE  IInv'
<1>1. PICK d : d = req[w].day
  OBVIOUS
<1>2. /\ req[w].pc = "commit" /\ d \in Days
      /\ \A e \in Days \ {d} : batch'[e] = batch[e] /\ reading'[e] = reading[e]
      /\ overlapped \subseteq overlapped'
      /\ recon' = recon /\ failures' = failures
      /\ \A v \in Workers \ {w} : req'[v] = req[v]
      /\ req'[w].pc = IF req[w].kind \in {"submit", "correct"} THEN "recon" ELSE "idle"
      /\ req'[w].day = IF req[w].kind \in {"submit", "correct"} THEN d ELSE None
  BY <1>1, CommitChanges
<1>3. TypeOK' /\ RequestsInv' /\ JobInv'
  BY CommitType
<1>4. OneReading'
  <2>. SUFFICES ASSUME NEW e \in Days \ overlapped', NEW s \in Slots, NEW q \in Slots,
                       reading'[e][s] # None, reading'[e][q] # None, s[1] = q[1]
                PROVE  s = q
    BY DEF OneReading
  <2>1. CASE e = d
    BY <1>1, <2>1, CommitOneReading
  <2>2. CASE e # d
    BY <1>2, <2>2 DEF IInv, OneReading
  <2>. QED
    BY <2>1, <2>2
<1>5. Numbered'
  <2>1. \A v \in Workers : req'[v].n =< req[v].n
    <3>1. /\ req' = [req EXCEPT ![w] =
               IF req[w].kind \in {"submit", "correct"}
               THEN [Idle EXCEPT !.pc = "recon", !.n = req[w].n, !.day = req[w].day] ELSE Idle]
          /\ \A v \in Workers : req[v].n \in Nat
          /\ DOMAIN req = Workers /\ Idle \in Requests
      BY IdleType DEF Commit, IInv, TypeOK, Requests
    <3>. QED
      BY <3>1, IdleType DEF Requests
  <2>2. requests' = requests /\ \A v \in Workers : req[v].n \in Nat /\ req'[v].n \in Nat
    BY <1>3 DEF Commit, IInv, TypeOK, Requests
  <2>. QED
    BY <1>2, <2>1, <2>2 DEF IInv, TypeOK, Numbered
<1>6. \A e \in Days \ {d} : /\ Rows(e)' = Rows(e) /\ \A t : RowsOf(e, t)' = RowsOf(e, t)
                            /\ \A t : Measured(e, t)' = Measured(e, t)
  BY <1>2 DEF Rows, RowsOf, Measured
<1>7. ReviewedAlike'
  <2>. SUFFICES ASSUME NEW e \in Days \ overlapped', Is(e, Reviews)', NEW s \in Rows(e)'
                PROVE  reading'[e][s].status = batch'[e].status
    BY DEF ReviewedAlike
  <2>1. CASE e = d
    BY <1>1, <2>1, CommitDate, CommitReviewed DEF Rows
  <2>2. CASE e # d
    BY <1>2, <1>6, <2>2 DEF IInv, ReviewedAlike, Is
  <2>. QED
    BY <2>1, <2>2
<1>8. SubmittedIsComplete'
  <2>. SUFFICES ASSUME NEW e \in Days \ overlapped', Is(e, {"SUBMITTED"})', NEW t \in Tanks
                PROVE  \E s \in Slots :
                         /\ RowsOf(e, t)' = {s}
                         /\ reading'[e][s].status = "SUBMITTED"
                         /\ reading'[e][s].closing # None
    BY DEF SubmittedIsComplete
  <2>1. CASE e = d
    <3>1. PICK s \in Slots :
            /\ s[1] = t /\ reading'[d][s] # None
            /\ reading'[d][s].status = "SUBMITTED" /\ reading'[d][s].closing # None
      BY <1>1, <2>1, CommitDate, SubmissionWrites
    <3>2. \A q \in Slots : reading'[d][q] # None /\ q[1] = t => q = s
      BY <1>1, <2>1, <3>1, CommitOneReading
    <3>3. RowsOf(d, t)' = {s}
      BY <3>1, <3>2 DEF RowsOf, Rows
    <3>. QED
      BY <2>1, <3>1, <3>3
  <2>2. CASE e # d
    BY <1>2, <1>6, <2>2 DEF IInv, SubmittedIsComplete, Is
  <2>. QED
    BY <2>1, <2>2
<1>9. MeasuredAsRead'
  <2>. SUFFICES ASSUME NEW e \in Days \ overlapped', Is(e, {"SUBMITTED", "CORRECTED"})',
                       NEW s \in Rows(e)', reading'[e][s].status \in {"SUBMITTED", "CORRECTED"}
                PROVE  reading'[e][s].measured = reading'[e][s].closing
    BY DEF MeasuredAsRead
  <2>1. CASE e = d
    BY <1>1, <2>1, CommitDate, CommitMeasured DEF Rows
  <2>2. CASE e # d
    BY <1>2, <1>6, <2>2 DEF IInv, MeasuredAsRead, Is
  <2>. QED
    BY <2>1, <2>2
<1>10. ReconciledAsMeasured'
  <2>. SUFFICES ASSUME NEW e \in Days \ overlapped'
                PROVE  RunsApart(e)' /\ (Due(e)' => Reconciled(e)')
    BY Zenon DEF ReconciledAsMeasured
  <2>1. byHand' = byHand
    BY DEF Commit
  <2>2. CASE e = d
    <3>1. ~Due(d)'
      <4>. SUFFICES ASSUME Is(d, {"SUBMITTED", "CORRECTED"})', ~Reconciling(d)' PROVE FALSE
        BY DEF Due
      <4>. QED
        BY <1>1, <1>2, <2>2, CommitDate DEF Reconciling
    <3>. QED
      BY <1>2, <2>1, <2>2, <3>1 DEF IInv, ReconciledAsMeasured, RunsApart
  <2>3. CASE e # d
    <3>1. Due(e)' => Due(e)
      BY <1>2, <2>3 DEF Due, Reconciling, Is
    <3>. QED
      BY <1>2, <1>6, <2>1, <2>3, <3>1, ReconciledSame
  <2>. QED
    BY <2>2, <2>3
<1>. QED
  BY <1>3, <1>4, <1>5, <1>7, <1>8, <1>9, <1>10 DEF IInv

-----------------------------------------------------------------------------
(***************************************************************************)
(* The theorems.                                                           *)
(***************************************************************************)

\* The initial state satisfies the invariant.
LEMMA InitIInv == Init => IInv
<1>. SUFFICES ASSUME Init PROVE IInv
  OBVIOUS
<1>1. TypeOK
  <2>1. req \in [Workers -> Requests] /\ expected \in [Tanks -> Closings]
    BY IdleType DEF Init, Closings
  <2>. QED
    BY <2>1, BoundsAssumption DEF Init, TypeOK, JobIdle
<1>2. RequestsInv /\ JobInv
  BY IdleType DEF Init, RequestsInv, RequestInv, JobInv, JobIdle
<1>3. OneReading /\ ReviewedAlike /\ Numbered
  BY IdleType DEF Init, OneReading, ReviewedAlike, Numbered, Is
<1>4. SubmittedIsComplete /\ MeasuredAsRead /\ ReconciledAsMeasured
  BY DEF Init, SubmittedIsComplete, MeasuredAsRead, ReconciledAsMeasured, RunsApart, Due, Is
<1>. QED
  BY <1>1, <1>2, <1>3, <1>4 DEF IInv

\* Every step keeps it.
LEMMA NextIInv == IInv /\ [Next]_vars => IInv'
<1>. SUFFICES ASSUME IInv, [Next]_vars PROVE IInv'
  OBVIOUS
<1>1. ASSUME NEW w \in Workers, Manager(w) \/ Administrator(w) PROVE IInv'
  BY <1>1, UserStep
<1>2. ASSUME NEW w \in Workers, Finish(w) PROVE IInv'
  BY <1>2, LoadStep, CommitStep, RefusedStep, MeasureStep, ItemsStep DEF Finish
<1>3. ASSUME NEW w \in Workers, RequestFails(w) PROVE IInv'
  BY <1>3, RefusedStep
<1>3a. ASSUME NEW d \in Days, CreateRun(d) \/ \E run \in Runs(d) : CalculateRun(d, run)
       PROVE  IInv'
  BY <1>3a, HandStep
<1>4. CASE (\E d \in Days : JobLoad(d)) \/ JobFails
  BY <1>4, JobLoadStep
<1>5. CASE JobCommit
  BY <1>5, JobCommitStep
<1>6. CASE UNCHANGED vars
  <2>1. UNCHANGED <<tables, req, job, requests, failures, overlapped>>
    BY <1>6 DEF vars
  <2>. QED
    BY <2>1, JobOnly DEF IInv, TypeOK, JobInv
<1>. QED
  BY <1>1, <1>2, <1>3, <1>3a, <1>4, <1>5, <1>6 DEF Next

\* The invariant holds in every state that the requests and the job can reach.
THEOREM Invariance == Spec => []IInv
BY InitIInv, NextIInv, PTL DEF Spec

\* What the database and the requests hold has its type (models.py).
THEOREM TypeCorrect == Spec => []TypeOK
<1>1. IInv => TypeOK
  BY DEF IInv
<1>. QED
  BY <1>1, Invariance, PTL

\* A submitted batch has one submitted reading with a closing volume of every tank
\* (submit_batch, tank_readings.py), unless a write rested on an outdated read.
THEOREM SubmissionsAreComplete == Spec => []SubmittedIsComplete
<1>1. IInv => SubmittedIsComplete
  BY DEF IInv
<1>. QED
  BY <1>1, Invariance, PTL

\* The measurement of a submitted or corrected batch is the reading's closing volume
\* (_upsert_normalized_measurement), unless a write rested on an outdated read.
THEOREM MeasurementsFollowReadings == Spec => []MeasuredAsRead
<1>1. IInv => MeasuredAsRead
  BY DEF IInv
<1>. QED
  BY <1>1, Invariance, PTL

\* A run has the items of one transaction and only a user makes a second run of a date;
\* when the requests are done, some run has each tank's current measurement
\* (calculate_from_tank_submission) or was calculated by hand since (calculate_run),
\* unless a request failed or a write rested on an outdated read.
THEOREM RunsFollowMeasurements == Spec => []ReconciledAsMeasured
<1>1. IInv => ReconciledAsMeasured
  BY DEF IInv
<1>. QED
  BY <1>1, Invariance, PTL

\* Only a commit, of a request or of the job, writes a batch.
LEMMA BatchWriters ==
  ASSUME [Next]_vars
  PROVE  batch' = batch \/ (\E w \in Workers : Commit(w)) \/ JobCommit
<1>. USE DEF tables
<1>1. ASSUME NEW w \in Workers, Manager(w) \/ Administrator(w) PROVE batch' = batch
  BY <1>1 DEF Manager, Administrator, SaveDraft, SubmitBatch, CorrectBatch, ReviewBatch, Begin
<1>2. ASSUME NEW w \in Workers, Finish(w) PROVE batch' = batch \/ Commit(w)
  BY <1>2 DEF Finish, LoadReadings, CommitRefused, ReadMeasurements, WriteItems
<1>3. ASSUME NEW w \in Workers, RequestFails(w) PROVE batch' = batch
  BY <1>3 DEF RequestFails
<1>4. ASSUME (\E d \in Days : JobLoad(d)) \/ JobFails PROVE batch' = batch
  BY <1>4 DEF JobLoad, JobFails
<1>4a. ASSUME NEW d \in Days, CreateRun(d) \/ \E run \in Runs(d) : CalculateRun(d, run)
       PROVE  batch' = batch
  BY <1>4a DEF CreateRun, CalculateRun
<1>5. CASE UNCHANGED vars
  BY <1>5 DEF vars
<1>. QED
  BY <1>1, <1>2, <1>3, <1>4, <1>4a, <1>5 DEF Next

\* No step lowers the version of a batch (submit_batch, correct_batch), unless it
\* rested on an outdated read.
LEMMA VersionStep ==
  ASSUME IInv, [Next]_vars, NEW d \in Days, batch[d] # None
  PROVE  batch'[d].version >= batch[d].version \/ d \in overlapped'
<1>1. batch[d] \in Batches /\ batch[d].version \in Nat
  BY DEF IInv, TypeOK, Batches
<1>2. CASE batch' = batch
  BY <1>1, <1>2
<1>3. ASSUME NEW w \in Workers, Commit(w)
      PROVE  batch'[d].version >= batch[d].version \/ d \in overlapped'
  <2>1. CASE d = req[w].day /\ d \notin overlapped'
    <3>1. /\ req[w].pc = "commit" /\ batch'[d] = WrittenBatch(w) /\ ~Outdated(w)
      BY <1>3, <2>1, CommitChanges
    <3>2. batch'[d] = ChangedBatch(req[w], batch[d]) /\ req[w].kind \in Kinds
      BY <2>1, <3>1, CurrentWrite, CommitFacts
    <3>3. \/ ChangedBatch(req[w], batch[d]).version = batch[d].version
          \/ ChangedBatch(req[w], batch[d]).version = batch[d].version + 1
      <4>. USE <1>1 DEF ChangedBatch, Batches, Reviews
      <4>1. CASE req[w].kind = "draft"
        BY <4>1
      <4>2. CASE req[w].kind = "submit"
        BY <4>2
      <4>3. CASE req[w].kind = "correct"
        BY <4>3
      <4>4. CASE req[w].kind \in Reviews
        BY <4>4
      <4>. QED
        BY <3>2, <4>1, <4>2, <4>3, <4>4 DEF Kinds
    <3>. QED
      BY <1>1, <3>2, <3>3
  <2>2. CASE d # req[w].day
    BY <1>1, <1>3, <2>2, CommitChanges
  <2>. QED
    BY <2>1, <2>2
<1>4. CASE JobCommit
  <2> DEFINE status == Flushed(job.batch.status,
                         IF job.batch.counted THEN "PARTIAL" ELSE "NOT_STARTED",
                         batch[d].status)
  <2>1. batch'[d] = batch[d] \/ batch'[d] = [batch[d] EXCEPT !.status = status]
    BY <1>4 DEF JobCommit, IInv, TypeOK
  <2>. HIDE DEF status
  <2>. QED
    BY <1>1, <2>1 DEF Batches
<1>. QED
  BY <1>2, <1>3, <1>4, BatchWriters

\* The version of a batch never falls, unless a write rested on an outdated read.
THEOREM VersionsNeverFall == Spec => VersionNeverFalls
<1>1. IInv /\ [Next]_vars =>
        [\A d \in Days : batch[d] # None =>
           batch'[d].version >= batch[d].version \/ d \in overlapped']_vars
  BY VersionStep
<1>. QED
  BY <1>1, Invariance, PTL DEF Spec, VersionNeverFalls

-----------------------------------------------------------------------------
(***************************************************************************)
(* Refinement of NightlyReadings.  A request's commit, if it rests on      *)
(* current reads, is its one step on the page of its date; the job's       *)
(* commit is the deadline's; an outdated commit makes the page lapse; and  *)
(* no other step changes the book.                                         *)
(***************************************************************************)

\* What a request has checked on the rows it loaded, beyond RequestInv: that they
\* were not locked, that a correction has every volume, that a reviewed batch exists.
CheckedInv(r) ==
  /\ r.pc \in {"readings", "commit"} =>
       /\ r.kind = "submit" \/ (r.kind = "draft" /\ ~r.admin) =>
            r.batch = None \/ r.batch.status \notin Locked
       /\ r.kind = "correct" => \A t \in DOMAIN r.items : r.items[t] # None
       /\ r.kind \in Reviews => r.batch # None
  /\ r.pc = "commit" /\ r.kind = "draft" /\ ~r.admin =>
       \A s \in Slots : r.rows[s] # None => r.rows[s].status \notin Locked

RequestsChecked == \A w \in Workers : CheckedInv(req[w])

\* A request is checked when it begins.
LEMMA BeginChecked ==
  ASSUME IInv, NEW w \in Workers, Manager(w) \/ Administrator(w)
  PROVE  CheckedInv(req'[w])
<1>1. DOMAIN req = Workers
  BY DEF IInv, TypeOK
<1>2. ASSUME NEW kind, NEW d, NEW admin, NEW items, NEW version,
             Begin(w, kind, d, admin, items, version)
      PROVE  /\ req'[w].pc = "readings" /\ req'[w].kind = kind /\ req'[w].admin = admin
             /\ req'[w].items = items /\ req'[w].batch = batch[d]
  BY <1>1, <1>2 DEF Begin
<1>. USE DEF CheckedInv, Is
<1>3. ASSUME NEW d \in Days, NEW items \in Items, NEW admin \in BOOLEAN,
             SaveDraft(w, d, admin, items)
      PROVE  CheckedInv(req'[w])
  BY <1>2, <1>3 DEF SaveDraft, Reviews
<1>4. ASSUME NEW d \in Days, SubmitBatch(w, d)
      PROVE  CheckedInv(req'[w])
  BY <1>2, <1>4 DEF SubmitBatch, Reviews
<1>5. ASSUME NEW d \in Days, NEW items \in Items, NEW version,
             CorrectBatch(w, d, items, version)
      PROVE  CheckedInv(req'[w])
  <2>1. /\ Begin(w, "correct", d, TRUE, items, version)
        /\ \A t \in DOMAIN items : items[t] # None
    BY <1>5 DEF CorrectBatch
  <2>2. /\ req'[w].pc = "readings" /\ req'[w].kind = "correct"
        /\ req'[w].items = items
    BY <1>2, <2>1
  <2>. QED
    BY <2>1, <2>2 DEF Reviews
<1>6. ASSUME NEW d \in Days, NEW verdict \in Reviews, ReviewBatch(w, d, verdict)
      PROVE  CheckedInv(req'[w])
  BY <1>2, <1>6 DEF ReviewBatch, Reviews
<1>. QED
  BY <1>3, <1>4, <1>5, <1>6 DEF Manager, Administrator

\* And when it goes on with the readings it loaded.
LEMMA LoadChecked ==
  ASSUME IInv, RequestsChecked, NEW w \in Workers, LoadReadings(w)
  PROVE  CheckedInv(req'[w])
<1>1. req[w] \in Requests /\ CheckedInv(req[w]) /\ DOMAIN req = Workers
      /\ req[w].pc = "readings"
  BY DEF IInv, TypeOK, RequestsChecked, LoadReadings
<1>2. PICK S \in Loads(req[w]) :
        req' = [req EXCEPT ![w] =
          IF Refused(req[w], S) THEN Idle
          ELSE [req[w] EXCEPT !.pc = "commit", !.expected = expected,
                  !.rows = [s \in Slots |->
                    IF s \in S THEN reading[req[w].day][s] ELSE None]]]
  BY DEF LoadReadings
<1>3. CASE Refused(req[w], S)
  BY <1>1, <1>2, <1>3 DEF CheckedInv, Idle, Reviews
<1>4. CASE ~Refused(req[w], S)
  <2> DEFINE rows == [s \in Slots |-> IF s \in S THEN reading[req[w].day][s] ELSE None]
  <2>1. /\ req'[w].kind = req[w].kind /\ req'[w].admin = req[w].admin
        /\ req'[w].items = req[w].items /\ req'[w].batch = req[w].batch
        /\ req'[w].rows = rows
    BY <1>1, <1>2, <1>4 DEF Requests
  <2>2. ASSUME req[w].kind = "draft", ~req[w].admin, NEW s \in Slots, rows[s] # None
        PROVE  rows[s].status \notin Locked
    BY <1>4, <2>2 DEF Refused
  <2>. HIDE DEF rows
  <2>. QED
    BY <1>1, <2>1, <2>2 DEF CheckedInv
<1>. QED
  BY <1>3, <1>4

\* After the measurements come the items.
LEMMA MeasureEnds ==
  ASSUME IInv, NEW w \in Workers, ReadMeasurements(w)
  PROVE  req'[w].pc = "items"
<1> DEFINE d == req[w].day
<1>1. req[w] \in Requests /\ DOMAIN req = Workers
  BY DEF IInv, TypeOK
<1>2. PICK run \in IF Runs(d) = {} THEN {req[w].n} ELSE Runs(d),
           opening \in [Tanks -> Closings], actual \in [Tanks -> Closings] :
        req' = [req EXCEPT ![w] =
          [req[w] EXCEPT !.pc = "items", !.before = recon[d],
             !.group = [run |-> run, by |-> req[w].n, kind |-> "stock",
                        opening |-> opening, actual |-> actual]]]
  BY DEF ReadMeasurements
<1> DEFINE g == [run |-> run, by |-> req[w].n, kind |-> "stock",
                 opening |-> opening, actual |-> actual]
<1>3. req' = [req EXCEPT ![w] = [req[w] EXCEPT !.pc = "items", !.before = recon[d],
                                               !.group = g]]
  BY <1>2
<1>. HIDE DEF g, d
<1>. QED
  BY <1>1, <1>3 DEF Requests

\* Every step leaves the requests checked.
LEMMA NextChecked == IInv /\ RequestsChecked /\ [Next]_vars => RequestsChecked'
<1> SUFFICES ASSUME IInv, RequestsChecked, [Next]_vars, NEW v \in Workers
             PROVE  CheckedInv(req'[v])
  BY DEF RequestsChecked
<1>1. CheckedInv(req[v]) /\ DOMAIN req = Workers
  BY DEF RequestsChecked, IInv, TypeOK
<1>2. ASSUME NEW w \in Workers, Manager(w) \/ Administrator(w) PROVE CheckedInv(req'[v])
  <2>1. v # w => req'[v] = req[v]
    BY <1>1, <1>2 DEF Manager, Administrator, SaveDraft, SubmitBatch, CorrectBatch,
                      ReviewBatch, Begin
  <2>. QED
    BY <1>1, <1>2, <2>1, BeginChecked
<1>3. ASSUME NEW w \in Workers, LoadReadings(w) PROVE CheckedInv(req'[v])
  <2>1. v # w => req'[v] = req[v]
    BY <1>1, <1>3 DEF LoadReadings
  <2>. QED
    BY <1>1, <1>3, <2>1, LoadChecked
<1>4. ASSUME NEW w \in Workers,
             Commit(w) \/ CommitRefused(w) \/ ReadMeasurements(w) \/ WriteItems(w)
             \/ RequestFails(w)
      PROVE  CheckedInv(req'[v])
  <2>1. v # w => req'[v] = req[v]
    <3>1. CASE Commit(w)
      BY <1>1, <3>1 DEF Commit
    <3>2. CASE ReadMeasurements(w)
      BY <1>1, <3>2 DEF ReadMeasurements
    <3>3. CASE CommitRefused(w) \/ WriteItems(w) \/ RequestFails(w)
      BY <1>1, <3>3 DEF CommitRefused, WriteItems, RequestFails
    <3>. QED
      BY <1>4, <3>1, <3>2, <3>3
  <2>2. req'[w].pc \notin {"readings", "commit"}
    <3>1. CASE Commit(w)
      BY <3>1, CommitChanges
    <3>2. CASE ReadMeasurements(w)
      BY <3>2, MeasureEnds
    <3>3. CASE CommitRefused(w) \/ WriteItems(w) \/ RequestFails(w)
      <4>1. req' = [req EXCEPT ![w] = Idle]
        BY <3>3 DEF CommitRefused, WriteItems, RequestFails
      <4>. QED
        BY <1>1, <4>1, IdleType
    <3>. QED
      BY <1>4, <3>1, <3>2, <3>3
  <2>. QED
    BY <1>1, <2>1, <2>2 DEF CheckedInv
<1>5. CASE req' = req
  BY <1>1, <1>5
<1>. QED
  BY <1>2, <1>3, <1>4, <1>5
  DEF Next, Finish, CreateRun, CalculateRun, JobLoad, JobCommit, JobFails, vars


\* The book is the pages of the dates free of outdated writes.
LEMMA BookFacts ==
  /\ DOMAIN Book = Days \ overlapped
  /\ \A d \in Days \ overlapped :
       /\ Book[d].batch = batch[d]
       /\ \A t \in Tanks : Book[d].tank[t] = ReadingOf(d, t)
BY DEF Book, Page

\* A reading that the date has is its tank's.
LEMMA ReadingOfRow ==
  ASSUME OneReading, NEW d \in Days \ overlapped, NEW s \in Slots, reading[d][s] # None
  PROVE  ReadingOf(d, s[1]) = reading[d][s]
<1> DEFINE q == CHOOSE q \in RowsOf(d, s[1]) : TRUE
<1>1. s \in RowsOf(d, s[1])
  BY DEF RowsOf, Rows
<1>2. q \in RowsOf(d, s[1])
  BY <1>1
<1>3. q = s
  <2>. HIDE DEF q
  <2>. QED
    BY <1>2 DEF RowsOf, Rows, OneReading
<1>. QED
  BY <1>1, <1>3 DEF ReadingOf

\* Also after a step.
LEMMA ReadingOfRowNext ==
  ASSUME OneReading', NEW d \in Days \ overlapped', NEW s \in Slots, reading'[d][s] # None
  PROVE  ReadingOf(d, s[1])' = reading'[d][s]
<1> DEFINE own == {x \in {x \in Slots : reading'[d][x] # None} : x[1] = s[1]}
           q   == CHOOSE q \in own : TRUE
<1>1. s \in own
  OBVIOUS
<1>2. q \in own
  BY <1>1
<1>3. q = s
  <2>. HIDE DEF q
  <2>. QED
    BY <1>2 DEF OneReading
<1>4. ReadingOf(d, s[1])' = IF own = {} THEN None ELSE reading'[d][q]
  BY DEF ReadingOf, RowsOf, Rows
<1>. QED
  BY <1>1, <1>3, <1>4

\* A tank whose rows stay as they are keeps its reading.
LEMMA ReadingOfSame ==
  ASSUME NEW d, NEW t, \A s \in Slots : s[1] = t => reading'[d][s] = reading[d][s]
  PROVE  ReadingOf(d, t)' = ReadingOf(d, t)
<1> DEFINE q == CHOOSE q \in RowsOf(d, t) : TRUE
<1>1. RowsOf(d, t)' = RowsOf(d, t)
  BY DEF RowsOf, Rows
<1>2. ReadingOf(d, t)' = IF RowsOf(d, t) = {} THEN None ELSE reading'[d][q]
  BY <1>1 DEF ReadingOf
<1>3. RowsOf(d, t) # {} => q \in Slots /\ q[1] = t
  <2>1. RowsOf(d, t) # {} => q \in RowsOf(d, t)
    OBVIOUS
  <2>. QED
    BY <2>1 DEF RowsOf, Rows
<1>4. RowsOf(d, t) # {} => reading'[d][q] = reading[d][q]
  BY <1>3
<1>. QED
  BY <1>2, <1>4 DEF ReadingOf

\* A step that writes one date writes its page, or makes it lapse.
LEMMA BookStep ==
  ASSUME NEW d \in Days,
         \A e \in Days \ {d} : batch'[e] = batch[e] /\ reading'[e] = reading[e],
         overlapped' \in {overlapped, overlapped \cup {d}}
  PROVE  /\ d \notin overlapped' =>
              /\ d \notin overlapped
              /\ Book' = [Book EXCEPT ![d] =
                    [batch |-> batch'[d], tank |-> [t \in Tanks |-> ReadingOf(d, t)']]]
         /\ d \in overlapped' =>
              Book' = Book \/ (d \in DOMAIN Book /\ Nightly!Lapse(d))
<1>1. \A e \in Days \ {d} : Page(e)' = Page(e)
  BY ReadingOfSame DEF Page
<1>2. Book' = [e \in Days \ overlapped' |-> Page(e)']
  BY DEF Book
<1>3. Book = [e \in Days \ overlapped |-> Page(e)]
  BY DEF Book
<1>4. ASSUME d \notin overlapped'
      PROVE  Book' = [Book EXCEPT ![d] = Page(d)']
  <2>1. overlapped' = overlapped
    BY <1>4
  <2>. QED
    BY <1>1, <1>2, <1>3, <2>1
<1>5. ASSUME d \in overlapped, d \in overlapped'
      PROVE  Book' = Book
  BY <1>1, <1>2, <1>3, <1>5
<1>6. ASSUME d \notin overlapped, d \in overlapped'
      PROVE  d \in DOMAIN Book /\ Book' = [e \in DOMAIN Book \ {d} |-> Book[e]]
  BY <1>1, <1>2, <1>3, <1>6
<1>7. Page(d)' = [batch |-> batch'[d], tank |-> [t \in Tanks |-> ReadingOf(d, t)']]
  BY DEF Page
<1>. QED
  BY <1>4, <1>5, <1>6, <1>7 DEF Nightly!Lapse


\* On a date that stays free of outdated writes, a commit makes of the reading of
\* every tank it touches what the request makes of it.
LEMMA CommitTouched ==
  ASSUME IInv, IInv', NEW w \in Workers, Commit(w), NEW d, d = req[w].day,
         d \notin overlapped', NEW s \in Touched(w)
  PROVE  /\ Loaded(w, s) = Nightly!Reading(d, s[1])
         /\ ReadingOf(d, s[1])' = Changed(req[w], s, Loaded(w, s))
         /\ s \in Selected(w) => /\ ReadingOf(d, s[1]) = req[w].rows[s]
                                 /\ ReadingOf(d, s[1]) # None
<1>1. /\ req[w].pc = "commit" /\ d \in Days \ overlapped /\ d \in Days \ overlapped'
      /\ reading'[d] = WrittenReadings(w) /\ ~Outdated(w)
  BY CommitChanges
<1>2. s \in Slots /\ s[1] \in Tanks
  BY <1>1, TouchedFacts, Facts
<1>3. ReadingOf(d, s[1])' = Changed(req[w], s, Loaded(w, s))
  <2>1. reading'[d][s] = Changed(req[w], s, Loaded(w, s)) /\ reading'[d][s] # None
    BY <1>1, <1>2, CurrentWrite, WrittenReadingsType
  <2>2. OneReading'
    BY DEF IInv
  <2>. QED
    BY <1>1, <1>2, <2>1, <2>2, ReadingOfRowNext
<1>4. Nightly!Reading(d, s[1]) = IF ReadingOf(d, s[1]) = None THEN NewReading
                                 ELSE ReadingOf(d, s[1])
  BY <1>1, <1>2, BookFacts DEF Nightly!Reading
<1>5. CASE s \in Selected(w)
  <2>1. Loaded(w, s) = reading[d][s] /\ reading[d][s] # None /\ Loaded(w, s) = req[w].rows[s]
    BY <1>1, <1>5, CurrentWrite DEF Loaded
  <2>2. ReadingOf(d, s[1]) = reading[d][s]
    BY <1>1, <1>2, <2>1, ReadingOfRow DEF IInv
  <2>. QED
    BY <1>3, <1>4, <2>1, <2>2
<1>6. CASE s \in Inserted(w)
  <2>1. RowsOf(d, s[1]) = {} /\ s \notin Selected(w)
    BY <1>1, <1>6, CurrentWrite DEF Inserted
  <2>2. ReadingOf(d, s[1]) = None /\ Loaded(w, s) = NewReading
    BY <2>1 DEF ReadingOf, Loaded
  <2>. QED
    BY <1>3, <1>4, <2>1, <2>2
<1>. QED
  BY <1>5, <1>6 DEF Touched

\* And leaves the reading of every other tank.
LEMMA CommitUntouched ==
  ASSUME IInv, NEW w \in Workers, Commit(w), NEW d, d = req[w].day,
         d \notin overlapped', NEW t \in Tanks, \A s \in Touched(w) : s[1] # t
  PROVE  ReadingOf(d, t)' = ReadingOf(d, t)
<1>1. /\ req[w].pc = "commit" /\ reading'[d] = WrittenReadings(w)
  BY CommitChanges
<1>2. \A s \in Slots : s[1] = t => reading'[d][s] = reading[d][s]
  BY <1>1, WrittenReadingsType
<1>. QED
  BY <1>2, ReadingOfSame

\* A draft or a correction touches the tanks of its list; a review, on current
\* reads, those with a reading; a submission all, each with a closing volume.
LEMMA TouchedTanks ==
  ASSUME IInv, NEW w \in Workers, Commit(w), NEW d, d = req[w].day, d \notin overlapped',
         NEW t \in Tanks
  PROVE  /\ req[w].kind \in {"draft", "correct"} =>
              (t \in DOMAIN req[w].items <=> \E s \in Touched(w) : s[1] = t)
         /\ req[w].kind \in Reviews =>
              (RowsOf(d, t) # {} <=> \E s \in Touched(w) : s[1] = t)
         /\ req[w].kind = "submit" =>
              \E s \in Selected(w) : s[1] = t /\ req[w].rows[s].closing # None
<1>1. /\ req[w].pc = "commit" /\ d \in Days /\ ~Outdated(w) /\ RequestInv(req[w])
  BY CommitChanges, CommitFacts
<1>2. ASSUME req[w].kind \in {"draft", "correct"}, t \in DOMAIN req[w].items
      PROVE  \E s \in Touched(w) : s[1] = t
  <2>1. <<t, w>> \in Slots /\ <<t, w>>[1] = t /\ <<t, w>>[2] = w
    BY DEF Slots
  <2>2. CASE \E q \in Selected(w) : q[1] = t
    BY <2>2 DEF Touched
  <2>3. CASE \A q \in Selected(w) : q[1] # t
    <3>1. <<t, w>> \in Inserted(w)
      BY <1>2, <2>1, <2>3 DEF Inserted, Named
    <3>. QED
      BY <2>1, <3>1 DEF Touched
  <2>. QED
    BY <2>2, <2>3
<1>3. ASSUME req[w].kind \in {"draft", "correct"}, NEW s \in Touched(w)
      PROVE  s[1] \in DOMAIN req[w].items
  BY <1>1, <1>3, TouchedFacts DEF Named
<1>4. ASSUME req[w].kind \in Reviews
      PROVE  RowsOf(d, t) # {} <=> \E s \in Touched(w) : s[1] = t
  <2>1. Rows(d) = Selected(w)
    BY <1>1, <1>4 DEF Outdated
  <2>2. Inserted(w) = {}
    BY <1>4 DEF Inserted, Reviews
  <2>. QED
    BY <2>1, <2>2 DEF RowsOf, Touched
<1>5. ASSUME req[w].kind = "submit"
      PROVE  \E s \in Selected(w) : s[1] = t /\ req[w].rows[s].closing # None
  BY <1>1, <1>5 DEF RequestInv, Selected
<1>. QED
  BY <1>2, <1>3, <1>4, <1>5


\* A commit on current reads is the request's one step on the page of its date.
LEMMA CommitRefines ==
  ASSUME IInv, IInv', RequestsChecked, NEW w \in Workers, Commit(w), NEW d, d = req[w].day,
         d \notin overlapped'
  PROVE  d \in DOMAIN Book /\ Nightly!Next
<1>1. /\ req[w].pc = "commit" /\ d \in Days /\ batch'[d] = WrittenBatch(w)
      /\ \A e \in Days \ {d} : batch'[e] = batch[e] /\ reading'[e] = reading[e]
      /\ ~Outdated(w)
  BY CommitChanges
<1>2. /\ req[w].kind \in Kinds /\ RequestInv(req[w]) /\ CheckedInv(req[w])
      /\ req[w].admin \in BOOLEAN
  BY <1>1, CommitFacts DEF RequestsChecked, Requests
<1>3. overlapped' \in {overlapped, overlapped \cup {d}}
  BY DEF Commit
<1>4. /\ d \notin overlapped
      /\ Book' = [Book EXCEPT ![d] =
            [batch |-> batch'[d], tank |-> [t \in Tanks |-> ReadingOf(d, t)']]]
  BY <1>1, <1>3, BookStep
<1>5. /\ d \in DOMAIN Book /\ Book[d].batch = batch[d]
      /\ \A t \in Tanks : Book[d].tank[t] = ReadingOf(d, t)
  BY <1>1, <1>4, BookFacts
<1>6. req[w].batch = batch[d] /\ batch'[d] = ChangedBatch(req[w], Nightly!Batch(d))
  BY <1>1, <1>5, CurrentWrite DEF Nightly!Batch
<1>7. ASSUME NEW b, NEW tank, batch'[d] = b, tank = [t \in Tanks |-> ReadingOf(d, t)']
      PROVE  Nightly!Write(d, b, tank)
  BY <1>4, <1>7 DEF Nightly!Write
<1>8. CASE req[w].kind = "draft"
  <2> DEFINE items == req[w].items
             tank == [t \in Tanks |->
                        IF t \in DOMAIN items
                        THEN [Nightly!Reading(d, t) EXCEPT
                                !.closing = items[t],
                                !.status = IF @ \in Locked THEN @ ELSE "DRAFT"]
                        ELSE Book[d].tank[t]]
  <2>1. items \in Items /\ DOMAIN items \subseteq Tanks
    BY <1>1, <1>2, <1>8, Facts DEF RequestInv
  <2>2. batch'[d] = [Nightly!Batch(d) EXCEPT !.status = "DRAFT"]
    BY <1>6, <1>8 DEF ChangedBatch
  <2>3. ASSUME NEW t \in Tanks PROVE tank[t] = ReadingOf(d, t)'
    <3>1. CASE t \in DOMAIN items
      <4>1. PICK s \in Touched(w) : s[1] = t
        BY <1>8, <3>1, TouchedTanks
      <4>2. /\ Loaded(w, s) = Nightly!Reading(d, t)
            /\ ReadingOf(d, t)' = Changed(req[w], s, Loaded(w, s))
        BY <4>1, CommitTouched
      <4>. QED
        BY <1>8, <3>1, <4>1, <4>2 DEF Changed
    <3>2. CASE t \notin DOMAIN items
      <4>1. \A s \in Touched(w) : s[1] # t
        BY <1>8, <3>2, TouchedTanks
      <4>. QED
        BY <1>5, <3>2, <4>1, CommitUntouched
    <3>. QED
      BY <3>1, <3>2
  <2>4. Nightly!Write(d, [Nightly!Batch(d) EXCEPT !.status = "DRAFT"], tank)
    <3>1. tank = [t \in Tanks |-> ReadingOf(d, t)']
      BY <2>3
    <3>. HIDE DEF tank
    <3>. QED
      BY <1>7, <2>2, <3>1
  <2>5. ASSUME ~req[w].admin PROVE ~Nightly!Has(d, Locked)
    BY <1>1, <1>2, <1>5, <1>6, <1>8, <2>5 DEF CheckedInv, Nightly!Has
  <2>6. ASSUME ~req[w].admin, NEW t \in DOMAIN items
        PROVE  Nightly!Reading(d, t).status \notin Locked
    <3>1. PICK s \in Touched(w) : s[1] = t
      BY <1>8, <2>1, TouchedTanks
    <3>2. /\ Loaded(w, s) = Nightly!Reading(d, t)
          /\ s \in Slots
      BY <1>1, <3>1, CommitTouched, TouchedFacts
    <3>3. CASE s \in Selected(w)
      BY <1>1, <1>2, <1>8, <2>6, <3>2, <3>3 DEF Selected, Loaded, CheckedInv
    <3>4. CASE s \notin Selected(w)
      BY <3>2, <3>4 DEF Loaded, NewReading, Locked
    <3>. QED
      BY <3>3, <3>4
  <2>7. Nightly!Draft(d, items, req[w].admin)
    <3>. HIDE DEF tank, items
    <3>. QED
      BY <2>4, <2>5, <2>6 DEF Nightly!Draft, tank
  <2>. HIDE DEF items
  <2>. QED
    BY <1>2, <1>5, <2>1, <2>7 DEF Nightly!Next
<1>9. CASE req[w].kind = "submit"
  <2> DEFINE tank == [t \in Tanks |-> [Nightly!Reading(d, t) EXCEPT
                                         !.status = "SUBMITTED",
                                         !.measured = Nightly!Reading(d, t).closing]]
             b == [status |-> "SUBMITTED", version |-> Nightly!Batch(d).version + 1,
                   counted |-> TRUE]
  <2>1. batch'[d] = b
    BY <1>6, <1>9 DEF ChangedBatch
  <2>2. ASSUME NEW t \in Tanks
        PROVE  tank[t] = ReadingOf(d, t)' /\ Nightly!Reading(d, t).closing # None
    <3>1. PICK s \in Selected(w) : s[1] = t /\ req[w].rows[s].closing # None
      BY <1>9, TouchedTanks
    <3>2. s \in Touched(w)
      BY <3>1 DEF Touched
    <3>3. /\ Loaded(w, s) = Nightly!Reading(d, t)
          /\ ReadingOf(d, t)' = Changed(req[w], s, Loaded(w, s))
          /\ Loaded(w, s) = req[w].rows[s]
      BY <3>1, <3>2, CommitTouched DEF Loaded
    <3>. QED
      BY <1>9, <3>1, <3>3 DEF Changed
  <2>3. Nightly!Write(d, b, tank)
    <3>1. tank = [t \in Tanks |-> ReadingOf(d, t)']
      BY <2>2
    <3>. HIDE DEF tank, b
    <3>. QED
      BY <1>7, <2>1, <3>1
  <2>4. ~Nightly!Has(d, Locked)
    BY <1>1, <1>2, <1>5, <1>6, <1>9 DEF CheckedInv, Nightly!Has
  <2>5. Nightly!Submit(d)
    BY <2>2, <2>3, <2>4 DEF Nightly!Submit
  <2>. QED
    BY <1>5, <2>5 DEF Nightly!Next
<1>10. CASE req[w].kind = "correct"
  <2> DEFINE items == req[w].items
             tank == [t \in Tanks |->
                        IF t \in DOMAIN items
                        THEN [status |-> "CORRECTED", closing |-> items[t],
                              measured |-> items[t]]
                        ELSE Book[d].tank[t]]
             b == [Nightly!Batch(d) EXCEPT !.status = "CORRECTED", !.version = @ + 1]
  <2>1. items \in Items
    BY <1>1, <1>2, <1>10 DEF RequestInv
  <2>2. batch'[d] = b
    BY <1>6, <1>10 DEF ChangedBatch
  <2>3. ASSUME NEW t \in Tanks PROVE tank[t] = ReadingOf(d, t)'
    <3>1. CASE t \in DOMAIN items
      <4>1. PICK s \in Touched(w) : s[1] = t
        BY <1>10, <3>1, TouchedTanks
      <4>2. ReadingOf(d, t)' = Changed(req[w], s, Loaded(w, s))
        BY <4>1, CommitTouched
      <4>. QED
        BY <1>10, <3>1, <4>1, <4>2 DEF Changed
    <3>2. CASE t \notin DOMAIN items
      <4>1. \A s \in Touched(w) : s[1] # t
        BY <1>10, <3>2, TouchedTanks
      <4>. QED
        BY <1>5, <3>2, <4>1, CommitUntouched
    <3>. QED
      BY <3>1, <3>2
  <2>4. Nightly!Write(d, b, tank)
    <3>1. tank = [t \in Tanks |-> ReadingOf(d, t)']
      BY <2>3
    <3>. HIDE DEF tank, b
    <3>. QED
      BY <1>7, <2>2, <3>1
  <2>5. Nightly!Has(d, Locked \cup {"REOPENED"})
    BY <1>1, <1>2, <1>5, <1>6, <1>10 DEF RequestInv, Nightly!Has
  <2>6. \A t \in DOMAIN items : items[t] # None
    BY <1>1, <1>2, <1>10 DEF CheckedInv
  <2>7. Nightly!Correct(d, items)
    <3>. HIDE DEF items
    <3>. QED
      BY <2>4, <2>5, <2>6 DEF Nightly!Correct
  <2>. HIDE DEF items
  <2>. QED
    BY <1>5, <2>1, <2>7 DEF Nightly!Next
<1>11. CASE req[w].kind \in Reviews
  <2> DEFINE verdict == req[w].kind
             tank == [t \in Tanks |-> IF Book[d].tank[t] = None THEN None
                                      ELSE [Book[d].tank[t] EXCEPT !.status = verdict]]
             b == [Nightly!Batch(d) EXCEPT !.status = verdict]
  <2>1. batch'[d] = b
    BY <1>6, <1>11 DEF ChangedBatch, Reviews
  <2>2. ASSUME NEW t \in Tanks PROVE tank[t] = ReadingOf(d, t)'
    <3>1. CASE RowsOf(d, t) # {}
      <4>1. PICK s \in Touched(w) : s[1] = t
        BY <1>11, <3>1, TouchedTanks
      <4>2. s \in Selected(w)
        BY <1>11 DEF Touched, Inserted, Reviews
      <4>3. /\ Loaded(w, s) = ReadingOf(d, t) /\ ReadingOf(d, t) # None
            /\ ReadingOf(d, t)' = Changed(req[w], s, Loaded(w, s))
        BY <4>1, <4>2, CommitTouched DEF Loaded
      <4>4. Changed(req[w], s, Loaded(w, s)) = [Loaded(w, s) EXCEPT !.status = verdict]
        BY <1>11 DEF Changed, Reviews
      <4>. QED
        BY <1>5, <4>3, <4>4
    <3>2. CASE RowsOf(d, t) = {}
      <4>1. \A s \in Touched(w) : s[1] # t
        BY <1>11, <3>2, TouchedTanks
      <4>2. ReadingOf(d, t) = None
        BY <3>2 DEF ReadingOf
      <4>. QED
        BY <1>5, <4>1, <4>2, CommitUntouched
    <3>. QED
      BY <3>1, <3>2
  <2>3. Nightly!Write(d, b, tank)
    <3>1. tank = [t \in Tanks |-> ReadingOf(d, t)']
      BY <2>2
    <3>. HIDE DEF tank, b
    <3>. QED
      BY <1>7, <2>1, <3>1
  <2>4. Book[d].batch # None
    BY <1>1, <1>2, <1>5, <1>6, <1>11 DEF CheckedInv
  <2>5. Nightly!Review(d, verdict)
    BY <2>3, <2>4 DEF Nightly!Review
  <2>. QED
    BY <1>5, <1>11, <2>5 DEF Nightly!Next
<1>. QED
  BY <1>2, <1>5, <1>8, <1>9, <1>10, <1>11 DEF Kinds

\* The job's commit is the deadline on the page of its date, or nothing.
LEMMA JobRefines ==
  ASSUME IInv, JobCommit, NEW d, d = job.day
  PROVE  Nightly!Next \/ Book' = Book
<1> DEFINE old == job.batch
           b == [batch[d] EXCEPT !.status = IF batch[d].counted THEN "PARTIAL"
                                            ELSE "NOT_STARTED"]
<1>1. reading' = reading /\ batch \in [Days -> Batches \cup {None}]
  BY DEF JobCommit, IInv, TypeOK
<1>2. CASE ~(old # None /\ old.status \in Unfinished)
  <2>1. batch' = batch /\ overlapped' = overlapped
    BY <1>2 DEF JobCommit
  <2>. QED
    BY <1>1, <2>1, ReadingOfSame DEF Book, Page
<1>3. CASE old # None /\ old.status \in Unfinished
  <2>1. d \in Days /\ batch[d] # None
    BY <1>3 DEF IInv, JobInv
  <2>2. /\ batch' = [batch EXCEPT ![d].status = Flushed(old.status,
                       IF old.counted THEN "PARTIAL" ELSE "NOT_STARTED", @)]
        /\ overlapped' = IF batch[d] # old THEN overlapped \cup {d} ELSE overlapped
    BY <1>3 DEF JobCommit
  <2>3. \A e \in Days \ {d} : batch'[e] = batch[e] /\ reading'[e] = reading[e]
    BY <1>1, <2>2
  <2>4. overlapped' \in {overlapped, overlapped \cup {d}}
    BY <2>2
  <2>5. CASE d \in overlapped'
    <3>1. Book' = Book \/ (d \in DOMAIN Book /\ Nightly!Lapse(d))
      BY <2>1, <2>3, <2>4, <2>5, BookStep
    <3>. QED
      BY <3>1 DEF Nightly!Next
  <2>6. CASE d \notin overlapped'
    <3>1. batch[d] = old
      BY <2>2, <2>6
    <3>2. batch'[d] = b
      <4>1. batch'[d] = [batch[d] EXCEPT !.status =
                           Flushed(old.status, IF old.counted THEN "PARTIAL"
                                               ELSE "NOT_STARTED", @)]
        BY <1>1, <2>1, <2>2
      <4>. QED
        BY <3>1, <4>1, FlushedCurrent
    <3>3. /\ d \notin overlapped
          /\ Book' = [Book EXCEPT ![d] =
                [batch |-> batch'[d], tank |-> [t \in Tanks |-> ReadingOf(d, t)']]]
      BY <2>1, <2>3, <2>4, <2>6, BookStep
    <3>4. d \in DOMAIN Book /\ Book[d].batch = batch[d]
      BY <2>1, <3>3, BookFacts
    <3>5. [t \in Tanks |-> ReadingOf(d, t)'] = Book[d].tank
      <4>1. Book[d].tank = [t \in Tanks |-> ReadingOf(d, t)]
        BY <2>1, <3>3 DEF Book, Page
      <4>2. \A t \in Tanks : ReadingOf(d, t)' = ReadingOf(d, t)
        BY <1>1, ReadingOfSame
      <4>. QED
        BY <4>1, <4>2
    <3>6. Nightly!Close(d)
      <4>1. Nightly!Batch(d) = batch[d] /\ Nightly!Has(d, Unfinished)
        BY <1>3, <2>1, <3>1, <3>4 DEF Nightly!Batch, Nightly!Has
      <4>2. Nightly!Write(d, b, Book[d].tank)
        BY <3>2, <3>3, <3>5 DEF Nightly!Write
      <4>. QED
        BY <4>1, <4>2 DEF Nightly!Close
    <3>. QED
      BY <3>4, <3>6 DEF Nightly!Next
  <2>. QED
    BY <2>5, <2>6
<1>. QED
  BY <1>2, <1>3


\* Whose steps reach the book: a commit's, the job's commit's, and a write of items
\* that rested on an outdated read.
LEMMA BookWriters ==
  ASSUME IInv, [Next]_vars
  PROVE  \/ UNCHANGED <<batch, reading, overlapped>>
         \/ \E w \in Workers : Commit(w)
         \/ JobCommit
         \/ \E d \in Days : batch' = batch /\ reading' = reading
                            /\ overlapped' \in {overlapped, overlapped \cup {d}}
<1>. USE DEF tables
<1>1. ASSUME NEW w \in Workers, Manager(w) \/ Administrator(w)
      PROVE  UNCHANGED <<batch, reading, overlapped>>
  BY <1>1 DEF Manager, Administrator, SaveDraft, SubmitBatch, CorrectBatch, ReviewBatch, Begin
<1>2. ASSUME NEW w \in Workers, LoadReadings(w) \/ CommitRefused(w) \/ RequestFails(w)
      PROVE  UNCHANGED <<batch, reading, overlapped>>
  BY <1>2 DEF LoadReadings, CommitRefused, RequestFails
<1>3. ASSUME NEW w \in Workers, ReadMeasurements(w)
      PROVE  UNCHANGED <<batch, reading, overlapped>>
  BY <1>3 DEF ReadMeasurements
<1>4. ASSUME NEW w \in Workers, WriteItems(w)
      PROVE  \E d \in Days : batch' = batch /\ reading' = reading
                             /\ overlapped' \in {overlapped, overlapped \cup {d}}
  <2>1. req[w].day \in Days
    BY <1>4 DEF WriteItems, IInv, RequestsInv, RequestInv
  <2>2. /\ batch' = batch /\ reading' = reading
        /\ overlapped' = overlapped \/ overlapped' = overlapped \cup {req[w].day}
    BY <1>4 DEF WriteItems
  <2>. QED
    BY <2>1, <2>2
<1>5. ASSUME (\E d \in Days : JobLoad(d)) \/ JobFails
      PROVE  UNCHANGED <<batch, reading, overlapped>>
  BY <1>5 DEF JobLoad, JobFails
<1>6. CASE UNCHANGED vars
  BY <1>6 DEF vars
<1>7. ASSUME NEW d \in Days, CreateRun(d) \/ \E run \in Runs(d) : CalculateRun(d, run)
      PROVE  UNCHANGED <<batch, reading, overlapped>>
  BY <1>7 DEF CreateRun, CalculateRun
<1>. QED
  BY <1>1, <1>2, <1>3, <1>4, <1>5, <1>6, <1>7 DEF Next, Finish

\* Every step is a step of the book or none.
LEMMA StepRefines ==
  IInv /\ IInv' /\ RequestsChecked /\ [Next]_vars => [Nightly!Next]_Book
<1> SUFFICES ASSUME IInv, IInv', RequestsChecked, [Next]_vars
             PROVE  Nightly!Next \/ Book' = Book
  OBVIOUS
<1>1. CASE UNCHANGED <<batch, reading, overlapped>>
  <2>1. \A d, t : ReadingOf(d, t)' = ReadingOf(d, t)
    BY <1>1, ReadingOfSame
  <2>. QED
    BY <1>1, <2>1 DEF Book, Page
<1>2. ASSUME NEW w \in Workers, Commit(w)
      PROVE  Nightly!Next \/ Book' = Book
  <2>1. PICK d : d = req[w].day
    OBVIOUS
  <2>2. CASE d \notin overlapped'
    BY <1>2, <2>1, <2>2, CommitRefines
  <2>3. CASE d \in overlapped'
    <3>1. /\ d \in Days
          /\ \A e \in Days \ {d} : batch'[e] = batch[e] /\ reading'[e] = reading[e]
      BY <1>2, <2>1, CommitChanges
    <3>2. overlapped' \in {overlapped, overlapped \cup {d}}
      BY <1>2, <2>1 DEF Commit
    <3>3. Book' = Book \/ (d \in DOMAIN Book /\ Nightly!Lapse(d))
      BY <2>3, <3>1, <3>2, BookStep
    <3>. QED
      BY <3>3 DEF Nightly!Next
  <2>. QED
    BY <2>2, <2>3
<1>3. CASE JobCommit
  <2>1. PICK d : d = job.day
    OBVIOUS
  <2>. QED
    BY <1>3, <2>1, JobRefines
<1>4. ASSUME NEW d \in Days, batch' = batch, reading' = reading,
             overlapped' \in {overlapped, overlapped \cup {d}}
      PROVE  Nightly!Next \/ Book' = Book
  <2>1. CASE d \in overlapped'
    <3>1. Book' = Book \/ (d \in DOMAIN Book /\ Nightly!Lapse(d))
      BY <1>4, <2>1, BookStep
    <3>. QED
      BY <3>1 DEF Nightly!Next
  <2>2. CASE d \notin overlapped'
    <3>1. UNCHANGED <<batch, reading, overlapped>>
      BY <1>4, <2>2
    <3>. QED
      BY <1>1, <3>1
  <2>. QED
    BY <2>1, <2>2
<1>. QED
  BY <1>1, <1>2, <1>3, <1>4, BookWriters

\* The empty tables are the blank book.
LEMMA InitRefines == Init => Nightly!Init /\ RequestsChecked
<1> SUFFICES ASSUME Init PROVE Nightly!Init /\ RequestsChecked
  OBVIOUS
<1>1. RequestsChecked
  BY DEF Init, RequestsChecked, CheckedInv, Idle
<1>2. ASSUME NEW d \in Days PROVE Page(d) = Nightly!Blank
  <2>1. batch[d] = None /\ \A t \in Tanks : ReadingOf(d, t) = None
    BY DEF Init, ReadingOf, RowsOf, Rows
  <2>. QED
    BY <2>1 DEF Page, Nightly!Blank
<1>3. overlapped = {}
  BY DEF Init
<1>. QED
  BY <1>1, <1>2, <1>3 DEF Nightly!Init, Book

\* Worker threads that load, check, flush and commit (tank_readings.py) and the
\* deadline job (tank_deadline.py) leave on every date the batch and readings that
\* some order of whole requests leaves, until a write rests on an outdated read.
THEOREM ImplementsBook == Spec => ImplementsNightly
<1>1. Init => RequestsChecked
  BY InitRefines
<1>2. IInv /\ RequestsChecked /\ [Next]_vars => RequestsChecked'
  BY NextChecked
<1>. QED
  BY <1>1, <1>2, InitRefines, StepRefines, Invariance, PTL
  DEF Spec, ImplementsNightly, Nightly!Spec

===============================================================================
