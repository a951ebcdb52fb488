# Formal model of the IntelliPump dashboard

TLA+ models of the parts of this repository that write shared records and of the
pages that show them, the TLC runs that check them on small instances, and
proofs that hold for every instance.  Run everything from this directory:

    tlc -workers 2 -config MCIngest.cfg MCIngest      # one run
    tlapm IngestProofs.tla                            # one proof module

`PROJECT.json` lists the runs, for every property a mutation of the code that
breaks it, the source lines behind every definition, the hazards, the findings
and the theorems.

## 1. The system

A fuel station's Raspberry Pi publishes sales, heartbeats and status messages
over MQTT.  A Python **consumer** writes them to PostgreSQL.  A FastAPI
**backend** serves a React **ui**, takes the stations' nightly tank readings,
reconciles stock and raises alerts.  A **Java API** is an earlier server of the
same kind, over tables of its own.

    edge agent --MQTT--> mosquitto --> consumer --+
                                                  |
                                              PostgreSQL <--> backend --SSE/REST--> ui
                                                  ^             ^   |
                     timeout thread --------------+             |   +-- deadline thread
                     (consumer)                          managers, operators

### Inventory

| Component | State it keeps | Operations | What must be true of it |
|---|---|---|---|
| Transaction ingestion (`consumer/app/services/transaction_service.py`, `mqtt_client.py`) | `pump_transactions`, `mqtt_messages`, `rejected_messages`, `devices.last_seen` | one callback per message: validate, insert, touch the device, audit | a sale is stored once and never changes; tables written by separate transactions do not contradict each other; no message is forgotten silently |
| Station status (`status_service.py`, `station_status.py`, `routers/resources.py`, `admin_stations.py`) | status columns of `stations`, `pumps`, `station_status_history`, outage `alerts` | `process_event`, `evaluate_timeouts`, manual close, save of the station form, new pump, alert resolve/dismiss/reopen/acknowledge | row, history and pumps agree; an outage has its alert; a silent station goes OFFLINE; a live one does not |
| Tank readings (`tank_readings.py`, `tank_deadline.py`) | `tank_reading_batches`, `manual_tank_readings`, `tank_measurements`, `tank_expected_state` | draft, submit, correct, accept, reject, reopen, deadline job | a submitted batch is complete; measurements are what was read; versions rise |
| Stock reconciliation (`stock_reconciliation.py`) | `reconciliation_runs`, `reconciliation_items` | `calculate_from_tank_submission`, in a transaction after the submission's | one set of items per run, and a run with the current measurements |
| Edge devices (`edge_device_service.py`, `edge_device_monitor.py`, `edge-agent/`) | `edge_devices`, `device_heartbeats` | heartbeat, last will, two monitors | last heartbeat never goes back; the two monitors agree |
| Alerts (`alert_engine.py`, `routers/alerts.py`) | `alerts`, `alert_events` | upsert, acknowledge, assign, resolve, dismiss, reopen | one active alert per deduplication key; no alert is lost with somebody else's |
| Reconciliation runs (`services/reconciliation.py`) | runs, items, approvals | create, calculate, submit, approve, reject, reopen; the first two also on the daily runs of submissions | an approved run does not change |
| Event stream (`routers/events.py`) | a cursor per client | poll every two seconds | every row is sent once |
| Live sales (`ui/src/hooks/useStationLiveSales.ts`, `useLiveSalesStream.ts`) | summary, recent sales, pumps, timers, duplicate filter | REST load, event, reconnection, change of station | totals are those of the sales; a lit pump goes out |
| Sale playback (`useDispensingPlayback.ts`, `useRecentTransactionDedup.ts`, `DigitalTwinPage.tsx`) | pumps being played, their timers, duplicate filter, cached live state | event, poll, timers, change of view | each playback ends by its own timer; the live state counts every sale once |
| Twin (`components/twin/`, `lib/stationSchedule.ts`, `lib/twinLiveStatus.ts`) | none of its own | place cards, route pipes, combine schedule, server state, live sales and playback | cards do not touch, pipes end on their pumps, map and cards agree, a closed forecourt is dark |
| Readings page (`TankReadingsPage.tsx`) | form, draft, cached workspace | open, type, save, submit, correct | a correction replaces what was shown |
| Administration (`pages/admin/`, `TanksPage.tsx`, `UsersPage.tsx`) | one form per page, calls in flight, cached queries | create, edit, switch, delete, assign | own changes are shown; a form saves the item it was filled from |
| Dashboards (`OverviewPage.tsx` and seven other pages, `useLiveEvents.ts`) | cached queries, event source | visit, poll, event, create | what a page was told is on the screen; pages that add up the same sales agree |
| Alerts and reconciliations pages | selection, filters, mutations, cached queries | choose, select, act, create | lists show what the user did; the selection matches the filter |
| Query cache (TanStack Query, a library) | entries: data, stale, fetch | mount, age, invalidate, answer, fail | a heeded invalidation is never lost |
| Java API (`api/`) | raw and canonical events, expected tank state, station state | ingest, normalize, apply, transition | idempotent ingestion; no lost update; the transition table of its comment |
| Authentication, catalogue, identity, dashboards, migrations, deployment | -- | single-transaction record keeping, or read-only | not modelled |

### How the components interact

* The callback and the timeout thread are threads of one consumer process; they
  meet only in the database.  The backend's request threads meet them there.
* Every writer reads with plain SELECTs and writes later in the same READ
  COMMITTED transaction.  Nothing is locked by reading; an UPDATE locks a row
  until commit.  The backend's ORM writes only the columns whose value differs
  from the loaded one, so two overlapping requests can mix their columns.
* The browser keeps copies: a query cache per tab, refetched when a page is
  entered with old data, when a poll is due, when an own call succeeds, or when
  the event stream says so.  Events missed while the stream is down are not
  fetched afterwards.  The live sales and the playback merge events of the cloud
  API's stream with snapshots of their own.
* Partial unique indexes (`uq_alerts_open_dedup`,
  `uq_manual_tank_readings_active_submitted`) are the last line of defence, and
  code that swallows their violation loses its whole transaction.

### What is hard

Interleaved read-decide-write transactions; several transactions for one
message; calls that raise after their commit took effect; a session that is not
persistent; a background pass over all stations in one transaction; review
cycles (draft, submit, reject, draft, ...) of arbitrary length.  In the browser:
snapshots and events that overtake each other, an invalidation that meets a fetch
under way, answers that arrive after the page, the filter or the form has changed,
timers of something that has been replaced, and one fact computed twice by
different code.  The places are listed with their lines under `hazards` in
`PROJECT.json`; those of components that are not modelled are in section 6.

## 2. The modules

| Module | Models |
|---|---|
| `TransactionLedger` | the promise of ingestion: a sale is recorded under its id only if it was published, is valid and is the first; then it stays |
| `Ingest` | the consumer's transaction path; implements `TransactionLedger` |
| `StationRules` | the pure decisions of `station_status.py` |
| `StationStatus` | the writers of a station's status, and its outage alert |
| `NightlyReadings` | the promise of the nightly readings: per date a batch and a reading of each tank, on which every request and the deadline act in one step |
| `TankReadings` | nightly readings, deadline job and the reconciliation after a submission; implements `NightlyReadings` on dates without outdated writes |
| `LiveSales` | the live sales of a station: snapshot and events merged |
| `DispensingPlayback` | the playback of sales over the polled live state |
| `PumpGrid`, `Forecourt` | places of pump cards, pipes and their tanks |
| `TwinDisplay` | what the twin shows, and when a station is open |
| `QueryCache` | one entry of the query cache; used by `StationAdmin`, `LivePages`, `AlertsPage` and `ReconciliationsPage` |
| `StationAdmin` | the administration pages |
| `LivePages`, `Dashboards` | the pages refreshed by events, and the figures they draw |
| `AlertsPage`, `ReconciliationsPage` | these two pages with the server behind them |
| `ReadingsForm` | the readings page against batches that others write |
| `Pages` | the browser: one of these pages is open and takes its steps; its properties are theirs |
| `MCIngest`, `MCStationStatus`, `MCTankReadings`, `MCPlayback`, `MCPages` | the instances TLC checks |
| `IngestProofs`, `StationStatusProofs`, `TankReadingsProofs`, `PlaybackProofs` | the theorems about the module each is named after |
| `LiveSalesProofs`, `CachedPagesProofs`, `StationPagesProofs`, `DrawnPagesProofs` | the theorems about `Pages`: live sales; the cache entry and the pages over it; the readings form and the twin; layout, pipes and the day's sales |

### Ingest

One action per database call: `Receive` (validation), `Insert`, `TouchDevice`,
`SaveRejected`, `SaveAudit`.  Each call may raise.  `InsertRaises` covers both
outcomes, a commit that took effect and one that did not; the other calls
swallow their own exceptions, and a lost audit or rejection row is the only
thing that can be told from outside.  The callback runs on the thread that also
keeps the connection, so `Reconnect` waits for it, but the broker may drop the
session at any step.  A session is clean: what is queued is then gone, and the
history variable `dropped` records it.  A crash takes callback and session along.
`Skip` stands for the messages `handle_message` leaves without writing anything.
A message is an id, a device or none, the rest of its content as one value, and
what validation says of it.

### StationStatus

Each writer is split where another one can come between:

* callback: `Receive` (the two SELECTs), `CallbackUpdate` (the UPDATE, which
  waits for the row lock, history, pumps, and the alert's SELECT),
  `CallbackInsert` (the alert's INSERT and the commit);
* timeout pass: `JobStart` (one SELECT for all stations), `JobStation` per
  station, `JobSelect` and `JobInsert` twice per outage (`_apply` and
  `evaluate_timeouts` both create the alert), `JobCommit` for all stations;
* operators: `ReadClose` and `CommitClose`; `ReadSave` and `CommitSave`, the station
  form, which sends a status with every save and writes no history and no pump;
  `CreatePump`; `ResolveAlert` (also dismiss); `ReviveAlert` (reopen, and acknowledge,
  which looks at no status and so makes a closed alert active again).

An INSERT that violates the unique index aborts its transaction.  The code
catches the exception and goes on to commit, which rolls back: the models have
the whole transaction disappear.  Time is two switches per station: its last
heartbeat is within the timeout (`alive`), and it is within its hours (`hours`).
The history table is reduced to its latest row, `tip`.

Three history variables say what the properties except.  `diverged`: stations whose
last write need not have left row, pumps and history alike: a save of the form that
changed the status, a callback whose decision equals the outdated row it had read (no
history row is written), a manual close that overlapped another writer.  The next
write with a history row of its own ends it: a write from an outdated read that still
differs from it leaves the records alike, and `RecordsAgree` covers it.
`OnlyTimedOutGoOffline` shows what such a write does to the station.  `answered`:
stations whose outage alert an operator closed after the current outage had looked for
it; `closing` collects those for the outage a pass is about to commit.  A pump is
created without a state, whatever its station's; `RecordsAgree` lets it be unknown.
Stations and pumps are not deleted.

### TankReadings

A request is `Begin` (load the batch and check it), `LoadReadings` (load the
readings and check them), `Commit` or `CommitRefused` (the unique indexes), and
for submissions and corrections a second transaction, `ReadMeasurements` and
`WriteItems`.  `Flushed` is the ORM's rule that an unchanged attribute is not
written.  Several first drafts of a tank may insert several readings, for no
index covers drafts; a reading is therefore a *slot*, the tank and the worker
that inserted it, and a query that expects one row returns any of them.
A reading carries its measurement row, which has the same life.  The deadline
job is `JobLoad` and `JobCommit`.  A review looks at no status, and an administrator's
draft goes over a submitted batch without raising its version.

Runs have no key.  `CreateRun` is a user who adds a daily run of a date (`byHand`), and
`CalculateRun` one who recalculates a run, whichever it is: its items are deleted and
tank levels written instead (`reconciliation.py:135-178`).  A group of items therefore
says which run it is of, which transaction wrote it and of which kind it is, and a
submission reconciles any one of the date's runs.  Levels are chosen by the time of a
measurement and not by its date, so their values are left out.

Dates are independent but for the opening volumes; tanks but for the completeness of a
submission; stations altogether, so there is one station.

`Book` is what `NightlyReadings` sees of this: batch and readings of every date that
is not in `overlapped`.  There `Draft`, `Submit`, `Correct`, `Review` and `Close`
check and write in one step; a write from an outdated read makes the page of
the date lapse, for the code has no version check at the commit and promises
nothing then (finding 3).

### LiveSales and DispensingPlayback

The cloud API behind both is not in this repository.  It is modelled by how the
hooks use it: a ledger of sales, answers from a prefix of it, a stream of what is
committed while it is open.  `LiveSales` has one action per callback: `Begin` and
`Apply` (a fetch asked and set on the screen; summary and listing are answered
independently, at any moment between), `FetchFails`, `Select` and `Reconfigure` with
`Clear`, `HandleConnected`, `HandleSale` with `Ingest`, and `Dim`, a pump's timer.  A
summary is a bag of sales, so that a sale counted twice can be told from two sales; its
total and its volume are sums over the bag.  Both duplicate filters forget: beyond
`SeenMax` and `HeardMax` ids (3000 in `useStationLiveSales.ts:50`, 2000 in
`useLiveSalesStream.ts:41`) the oldest go when the filter is next looked at, and `Age`
drops an id whose day has passed from either filter or from both.  The history variable
`forgotten` holds the sales of the snapshot or the events on screen that the hook's
filter has dropped.

`DispensingPlayback` has the event (`HandleSale`, `Trigger`), the two timers (`Complete`,
`Forget`), the poll (`Poll`, `Answer`, `Settle`), the change of view (`SetMode`) and of
station (`ChooseStation`).  The effect that owns the stream depends on the view, the
station and the ids that the first live state brings, so leaving the view, choosing a
station and the first `Settle` all run its `Cleanup`: the stream is closed and every
timer cleared, but the pumps are kept.  The history variable `cut` marks those.

### The pages over the query cache

`QueryCache` has the transitions of one entry: what mounting, ageing, invalidating,
answering and failing do to its data, its staleness and its fetch.  An
invalidation cancels a fetch of a mounted entry that has data and starts it
again; a first fetch goes on.  `Heeds` says where an invalidation is sure to be
seen; answers to own calls and events that fall outside it are what the
properties of these pages exclude, because the code does lose them.

A query's data are the versions of the tables it shows, and `told` records the
versions it must show.  `Promised` names the pairs of query and table the code
refreshes; pairs it does not refresh (the connections deleted with a pump, the
counts in the list of stations, the executive figures after a sale) are listed in
a comment beside it.  `LivePages` and `ReconciliationsPage` follow one query,
chosen at the start, for entries do not affect each other; `StationAdmin` and
`AlertsPage` follow all.  In `AlertsPage` each of the four actions is a mutation of
its own and several may be pending; in `ReconciliationsPage` the five share one.

`ReadingsForm` splits each request in sending, effect and answer; in between, another
user drafts, submits or corrects, and an administrator drafts over whatever is there and
reviews whatever the status is.  The answers are the backend's
rules of `tank_readings.py`, reduced to status, version and one value of readings.  The
history field `drafted` of a batch says that a draft changed its readings and nobody has
submitted or corrected it since: a draft leaves the version alone.

A plain `refetch()` (`AdminStationPumpsPage.tsx:559`, `:577`,
`AdminStationEditPage.tsx:149-150`, `AdminStationLayout.tsx:55`) is modelled as an
invalidation, and a fetch that fails is left out of these pages.  The two differ then: after
a failure an invalidated entry is still stale and is fetched at the next visit, while a
plain `refetch()` leaves the old data as fresh as it was.

### Forecourt, TwinDisplay and Dashboards

These have no state: operators that compute nodes, routes, statuses and figures,
and properties with their inputs as parameters.  Coordinates are pixels, rounded
down; times are seconds of a week.  A sort is the place of each element by the number
of those before it (`Ordered`), where the order is total; where rows may be equal, any
ranking of them (`Descending`).

Slots for pumps without a saved card are taken from twenty cells; when those run out,
the code stacks the rest below the last slot without looking at the saved cards.
`CardsArePlaced` therefore claims their distance from saved cards only where the grid
has room (`HasRoom`), and their distance from each other always.

Two queries add up the day's sales, and not of the same stations or the same day.  The
overview's groups all sales by the id they are stored under (`StationSales`), in the day
of `settings.default_timezone` (`config.py:28`); the list of stations is every user's
(`resources.py:44-49`).  The executive one adds both ids of the stations that the user
may see (`Accessible`, `rbac.py:96-117`), in the day of Africa/Lagos, which is written
into it (`executive.py:167`).  `DayOf` is a day in a zone a whole number of hours from
UTC; clock changes are left out.

## 3. The runs

| Run | Instance | States | Result |
|---|---|---|---|
| `ingest` | 2 ids, 1 device, 5 messages, 3 publications, 3 failing calls | 158,183 | all properties hold |
| `station` | 1 station, 1 pump, 2 events, 1 close or save, 1 revived alert or failed transaction | about 1,046,000 | all properties hold |
| `tank_readings` | 1 worker, 2 tanks, 1 date, 5 requests, 1 failure | 2,040,952 | all properties hold |
| `tank_workers` | 2 workers, 2 tanks, 1 date, 3 requests, 1 failure | about 412,000 | all properties hold |
| `playback` | 1 pump with 2 spellings, 2 sales, filter of 1, 1 break, 1 failure, 2 changes of view or station | 382,384 | both properties hold |
| `pages` | see below | 1,077,038 | all 17 properties hold |
| `station_fresh` | 1 station, 1 event | until violated | violated, finding 1 |
| `station_loss` | 1 station, 1 event | until violated | violated, finding 2 |
| `tank_version` | 2 workers, 1 tank, 4 requests | until violated | violated, finding 3 |
| `tank_expected` | 1 worker, 1 tank, 4 requests | until violated | violated, finding 4 |
| `tank_opening` | 1 worker, 1 tank, 2 dates, 5 requests | until violated | violated, finding 5 |
| `expected_sales` | the reconciliations page of `pages` | until violated | violated, finding 6 |

### What the passing runs show

* `AuditMatchesLedger`: the audit table, written by another transaction than the
  sales, never contradicts it.
* `GapNeedsFault`, `HandledLeavesTrace`: exactly how many failing calls it takes
  until a stored sale has no audit row, or a handled message no trace at all.
* `DeviceCreditIsStored`: a device is credited only with stored sales.
* `ImplementsLedger`: redelivery, conflicting re-uploads, failures and crashes
  never change a stored sale.
* `EverySentSettles`: a published message is handled to the end or lost with a
  session or process.
* `RecordsAgree`: row, history and pumps agree whoever wrote last, the unrecorded
  writes of `diverged` excepted.
* `OutageHasAlert`: an outage inferred during hours has an active alert of its own, or
  one that an operator closed since it looked; an old closed alert is not enough.
* `ConflictNeedsRevival`: the row lock serialises the two alert inserts; only an
  operator who reopens or acknowledges a closed alert can make one fail.
* `SilentGoesOffline`: whatever hours, operators and failures do, a station that
  is not heard of any more ends OFFLINE and stays so.
* `SubmittedIsComplete`, `MeasuredAsRead`, `ReconciledAsMeasured`,
  `VersionNeverFalls`: through any sequence of drafts, submissions, corrections,
  reviews and deadline passes the four tables of a date stay in step.  The items of a
  run are those of one transaction, only a user makes a second run of a date, and some
  run has the current measurements, or a user has calculated one by hand since.
* `ImplementsNightly`: two workers and the job, interleaved at every load and commit,
  leave on a date what whole requests in some order leave, guards included, until
  one of them writes from an outdated read.
* `PlaybackHasTimer`: a sale that replaces another on a pump replaces its timer, and only
  a cleanup during the playback leaves a pump without one;
  `CacheConverges`: repetitions, a filter that forgets, older answers and breaks
  do not leave a sale missing or counted twice, because polls go on.
* `SettledSalesCountedOnce`, `PumpsCountOnce`, `LitPumpsHaveTimer`: what live sales
  promise across snapshots, events, reconnections and changes of station, for the sales
  the filter remembers; it forgets one on screen only after a day or under newer ones.
* `CorrectionsReplaceWhatWasShown`: the version sent with a correction is that of
  the readings its form was loaded with, whatever was refetched or reviewed meanwhile.
  Only readings of a draft that nobody submitted may be replaced unseen.
* `OwnChangesAreShown`, `ToldIsShown`, `ListsShowOwnActions`,
  `PageShowsOwnActions`: no heeded invalidation is lost, and each page invalidates
  all it promises.
* `FormSavesItsOwn`, `SelectionMatchesFilter`: a form saves the item it was filled from,
  and a run selected by its row is of the station in the filter.  The late answer that
  closes another form needs two calls: the run makes one, the proof covers any number.
* `CardsArePlaced`, `BranchesReachTheirPumps`, `PlayedFromDrawnTank`, `HoursAgree`,
  `ClosedForecourtIsDark`, `CardsFollowTheMap`, `PagesAgree`: where two pieces of
  code compute one fact, or a layout has to fit, they do over every listed case.
  `BranchesReachTheirPumps` is about the AUTO layout.  `ClosedForecourtIsDark` is about
  the map: a card may still pulse on a closed station.  `PagesAgree` asks for equal
  amounts of the stations a user may see when no sale is in one zone's day only and none
  of them sold under both ids, and for the same largest amount when they are all that
  sold.

### Bounds, and why they are enough

`ingest`: three publications allow an original, a re-upload with other content
and a third message queued behind them; three failures are the smallest number
that makes a valid message vanish (insert, rejection, audit), so the last
disjunct of `HandledLeavesTrace` is reached.  Crashes and disconnects are not
bounded.

`station`: stations share nothing but the pass that covers them all, and
the proofs cover any number of them; one station with a heartbeat without status
and a last will reaches every branch of the pass.  Two events, one close or save and
one revived alert or failed transaction (`MaxFaults`) let each writer overtake each other
one, and any one transaction fail; the form sends CLOSED/ONLINE, which a row takes only from it.
Hours change without bound.  Messages of kind `status` are in the model
and in the proofs but not in this run.

`tank_readings`: five requests are a draft, a submission, a review, and another
draft and submission, or a correction on top.  `tank_workers`: three requests are
two that overlap and one before or after them, and SYMMETRY over workers is sound
because a worker is only a label.  A run made or calculated by hand counts as a request.
Volumes are 0 (the falsy one) and 5, item lists are all
tanks, one tank, and one tank without a volume.  The system stops there for the
sole reason that requests are bounded, hence `CHECK_DEADLOCK FALSE`.

`playback`: two sales of one pump under the two spellings of its id, so that
playbacks replace each other and keys differ where the pump does not; a filter of
one entry forgets the first sale when the second comes; one expiry, one failed
fetch, one break and two changes of view or station put each fault between any two steps.

`pages`: a tab shows one page, and the pages share no state but the cache, whose
entries do not affect each other; the run is therefore the union of the pages'
state spaces, and adding a page adds to it rather than multiplying.  `Opened` in
the cfg names the pages; a cfg with one of them checks that page alone.

| Page | Instance | States |
|---|---|---|
| sales | 2 sales of a slashed pump id that is not configured, 2 stations, away and back, 2 fetches, listing and filters of 1, 1 aged id or break | 211,000 |
| readings | 2 dates, 2 values of readings, 1 opening, 1 save, 1 change by another user | 90,000 |
| admin | 1 pump, 1 tank, 1 user, all pages, 1 call, 1 change of page | 216,000 |
| dashboards | all pages and queries, 1 change, 1 visit, 1 break | 29,000 |
| alerts | 1 alert, 2 own or foreign actions at once, 1 change of filter | 439,000 |
| reconciliations | 1 run, 2 stations, 2 calls, 1 change of filter | 71,000 |
| layout, pipes, hours, display, totals | every case listed in `MCPages` | 20,600 |

Two changes of station are the switch away and back that brings an answer of the first
visit into the second.  With filters of one, the second sale makes the hook forget the
first.  Another user's change may be a draft that is submitted or accepted at once,
which is the one a correction cannot tell by the version.  One call on a page is enough
for its invalidation to meet any fetch; the proofs cover any number.  Two actions on one
alert are the resolve and the dismissal that overlap.  Layouts have up to six pumps (a
full row and a part of one) and four saved cards: in a cell, across cells, outside the
grid, and over so many cells that the other pumps do not fit.  Hours include overnight
ones, equal ones, unknown zones and seconds; instants lie on, before and after each
boundary.  Takings are up to three sales in the hours 0 and 23, one of which two zones
put in different days, of stations with an organisation, with another or with none, and
of ids of no station.  `CHECK_DEADLOCK FALSE`: users stop where the bounds do, and the
cases have no step.

### Fairness

`Ingest`: weak fairness of the callback.  `loop_forever` calls it as long as the
process lives, and every call in it ends, by returning or raising.  Nothing is
assumed of publisher, broker or reconnection: an unconnected consumer has an
empty session, and what is published meanwhile counts as lost.

`StationStatus`: weak fairness of the callback's steps once it has a message, of
the timeout thread (`_timeout_loop` repeats for ever and catches what a pass
raises; failures are bounded), and of a heartbeat growing old.  Messages,
operators and hours are not fair.

`DispensingPlayback`: weak fairness of the browser's own work (`HandleSale`, the
timers), of the poll, which is an interval timer, and of its answers; failures
are bounded.  Neither sales nor the stream are fair.

`TankReadings` and `Pages` state safety only.

## 4. The findings

1. `station_fresh`: a heartbeat that commits while the timeout pass runs is
   overwritten with OFFLINE (`status_service.py:279`).
2. `station_loss`: a CLOSED inferred from the schedule is later taken for one the
   station reported, and an outage during hours raises no alert
   (`station_status.py:158`, against `docs/station-status-mqtt.md:11`).
3. `tank_version`: two corrections of the same version both commit
   (`tank_readings.py:884`).
4. `tank_expected`: a closing volume of zero leaves the expected volume as it was
   (`tank_readings.py:636`).
5. `tank_opening`: a rejected reading opens the next day
   (`stock_reconciliation.py:115`).

6. `expected_sales`: a day without entered payments has expected sales of zero, and
   the whole captured amount as variance (`ReconciliationsPage.tsx:141`, against
   `docs/previous-feature-assessment.md:315`).

## 5. What is proved

Every theorem holds for all values of the constants that satisfy the named
assumptions, and for every bound.  TLC evaluates each assumption in the runs.

| Where | What is assumed of the constants |
|---|---|
| `Ingest` | messages have the message type; None is no id, device or message; bounds are numbers |
| `StationStatus` | the same of its messages and forms; stations are finite and not empty |
| `TankReadings` | dates and volumes are natural numbers, item lists name tanks, tanks and workers are finite, None is no row |
| `DispensingPlayback` | None is no playback and no timer |
| `Pages` | None is no record, number or phase; the sizes of listing and filter are numbers; there are dates and readings; times, zones and instants are integers; a display gives each of its pumps a status, a last sale and a phase; coordinates are integers, a scene's pumps are finite and differ by id, and by order and code, and each is fed from a numbered tank or none; stations and sales are finite, amounts are natural numbers, None is no id that sold |

Every property of the passing runs is proved except the three of liveness.

### The tables

`IngestProofs`.  `AuditMatchesLedger` is not inductive: to count a message as
processed once, one must know what the callback holds between its calls.
`CallbackInv` says it per step (at `audit` with outcome processed, the row is the
message and its processed count is still 0), `RowsInv` that rows are valid
published messages under their own id, `SessionInv` that only published messages
are queued.  `Invariance` proves the conjunction; `Implements` maps every step to
`Record`, `Offer` or a stutter of the ledger; `TraceCorrect` adds `TraceInv`,
what failures have already been spent when a step is reached; `GapCorrect` and
`DeviceCreditCorrect` have small invariants of their own on top.

`StationStatusProofs`.  `LockInv` says that callback and pass never hold the same
row; `ReachInv` that while one is held the pumps its writer has not reached are new
ones; `JobInv` what the pass has decided and what alert calls it still owes;
`CallbackInv` and `ReqInv` what the others hold.  `PumpWriters` and `Writers` say who
may write what.  The pass always records (`Planned`), hence it repairs a diverged
station; a callback that records does too (`DecisionAgrees`).  `OutageInv` drops the
connectivity from `OutageHasAlert`, which the form may change, and `JobInv` has its
half for the outages not committed yet.  `ConflictNeedsRevival` follows from the lock
and from `AlertsAppear`: an alert that is active now was so before, or the lock's own
holder inserted it.

`TankReadingsProofs`.  A date is outside `overlapped` when none of its commits
found batch or readings different from what the request had loaded.  There a commit
writes what it computed (`CurrentWrite`: an attribute the ORM leaves out has the
stored value already), and the tables can be reasoned about one commit at a time.
The three invariants the runs check are not inductive alone.  `IInv` adds to them
what a request has established between its two selects and its commit
(`RequestInv`: a submission holds a closing volume of every tank, a correction a
batch that may be corrected), that the job holds a batch of its date, and three facts
about the tables: a tank has one reading (`OneReading`), a review is on every
reading of its batch (`ReviewedAlike`), and no item is newer than the last request
(`Numbered`), so that levels calculated now are the newest of their date.
`ReviewedAlike` is what a correction of a reviewed batch needs that names only some of
its tanks: the others are still reviewed, and none of them passes for submitted with
an old measurement.  `CommitStep` has one lemma per
conjunct; the deadline job, the second transaction and the runs by hand (`HandStep`) have
one each.
`VersionsNeverFall` is an action property on top: only commits and the job write a
batch; a commit writes the stored version or the next, the job leaves it.

`ImplementsBook` proves that `TankReadings` implements `NightlyReadings`.  It needs one
more invariant, `RequestsChecked`: between its load and its commit a request still
holds that the batch and the readings it loaded were not locked, that a correction
has every volume and that a reviewed batch exists.  `BookStep` says what a write of one
date does to the book; `CommitTouched`, `CommitUntouched` and `TouchedTanks` that a
commit on current reads makes of each tank's one reading what the abstract action
does (`OneReading` is what makes "the reading of a tank" a function);
`CommitRefines` has one case per kind of request, `JobRefines` is the deadline, and
every other step is a stutter.

`PlaybackProofs`.  The timers alone are inductive with the fact that only stored
sales travel on the wire; a cleanup cuts exactly the playbacks it leaves without a timer.

### The pages

The theorems are about `Pages`, the module that `MCPages` checks.  Each section
proves an invariant of one page's steps; `PageSteps` and `StationPageSteps` say
that a page that is open takes its own steps and stays open, and carry the
invariant over.

`LiveSalesProofs`.  A filter is a sequence without repetitions (`IsFilter`), and its
lemmas say what pruning, remembering and ageing keep and drop.  What remembering the
rows of a snapshot leaves (`RowsRemembered`) is an induction over the rows, taken as a
statement about a set of numbers (`NatSet`).  `PumpsCountOnce` follows from each pump's
count being in the filter or forgotten.  `SettledSalesCountedOnce` needs `SnapshotInv`:
what was begun when is a position in a ledger that only grows, a prefix answered later
contains one answered earlier, and an event of a sale that the listing had is stopped by
the filter.

`CachedPagesProofs`.  An entry of the cache is `Sound` for a set of good data if its
data are in it, or it is stale, or a fetch that will bring one is under way; every
operator of the cache keeps an entry sound, and an invalidation that is heeded makes it
sound for what was just told.  The pages rest on that.  Administration:
`PromisedAreRefreshed` goes through every change and shows that it refreshes each query
that promises to show a table it writes; `FormSavesItsOwn` needs that the id in an open
form is the one its values came from.  Dashboards: a version told by an event or by the
answer of a call is one the server has reached (`LiveServerInv`), every query that
promises a table hears of it (`PromisedAreHeard`), and the entry stays sound through
events, polls, visits and breaks.  Alerts: the same, with one entry per filter.
Reconciliations: one entry, while list, detail and items are mounted and unmounted with
the selection; `SelectionCorrect` needs that a run never changes its station and that
the station of a run selected by its row is the filter's.

`StationPagesProofs`, the readings form.  Drafts change a batch's readings under the same
version, and a review makes the batch correctable again, so "same version, same readings"
is false.  `FormInv` has what is true: what was seen of a version (`Seen`) is what the
batch holds as long as the version is the same *and no draft has changed it since*
(`drafted`).  Every write `Keeps` that: drafts mark what they change, and only a
submission or a correction, which raise the version, take the mark away.  Cached
workspace, answer under way and request all have it, and the server takes a correction
only at the version sent; hence `CorrectionsCorrect`.

`StationPagesProofs`, the twin.  `HoursCorrect` compares minutes and seconds by
division; `DarkCorrect` and `CardsCorrect` go through the overlays; `TanksCorrect` shows
that the two choices of a tank pick the first of the same order.  `CellsApart` (grid
cells are more than 8 apart, so only saved cards block a free slot) and `RailsBetween` (a
rail runs between tanks and pumps however many tanks there are) serve the next module.

`DrawnPagesProofs`.  Layout, pipes and rankings are loops, modelled with the folds of
the community modules, and a fold is a CHOOSE of a recursive function.  What it returns
is an induction over the data, which the provers cannot take from the library, since its
theorems have an operator as a parameter.  The module has the induction as a statement
about *sets* of numbers (`NatSet`, `Chain`: the set of the numbers something holds of
has 0 and every successor), and with it the two facts every loop needs: the lemma
`Folding`, a step that stays in a set S has a fold with its values in S, by which the
CHOOSE is one; and `Places`, in a total order of a finite set the numbers of elements
before each element are 0, 1, 2 and so on, by which `Ordered` is a sort. S is where the
loop invariant goes:

* `PipesCorrect`: an item of S is a sequence of branches each within its card.  A branch
  is moved aside by 12, -14, 16, -18 and so on, as long as it is blocked; `NudgedNear`
  has the invariant of those eight turns: while all were taken, the offset is one of
  known ones, and once one was not taken the branch is not blocked and stays.  It
  remains within 18 of the inlet, and the inlet is 50 from either edge.
* `CardsPlacedCorrect`: `Found` says of the slots taken from the first k cells that they
  are free cells, do not touch, go down, and are as many as wanted or as there are free
  ones (which is why `HasRoom` is the right condition); `Stacked` of the slots below them
  that each is lower than those before it.  `Laid` describes the cards of both modes.
* `DaySalesCorrect`: one page ranks amounts by the id they are stored under, the other
  adds up the ids of a station.  The days of the two zones have the same sales by the
  condition, their sums exist and are natural numbers (`SoldIsNat`), and with at most one
  id of a station that sold both pages add the same ones.  If the stations the user may
  see are all that sold, both rankings have the same largest amount.

### What stays with TLC

`EverySentSettles`, `SilentGoesOffline` and `CacheConverges` are liveness under
fairness, which needs ENABLED; the provers have no rule for it.  Nothing else does.

## 6. Not modelled

Formats, parsing and wording; sales, deliveries and variances of a
reconciliation; opening volumes of readings; audit and event rows that nothing
reads back; access checks (a request is one that passed them), but for the stations whose
sales a user may see; clock changes; fetches of the cached pages that fail.

What the properties except, because the code does it:

* Runs created by hand: a date may have several daily runs, a submission reconciles any
  one of them, and a recalculation replaces a submission's stock items with levels
  (`backend/app/services/reconciliation.py:135`, `:371`).
* Two reconciliations of one date at a time may write two runs, or two groups of items
  into one (`backend/app/services/stock_reconciliation.py:49`).
* A sale that both filters have forgotten is counted again when the stream repeats it
  (`ui/src/hooks/useStationLiveSales.ts:50`, `useLiveSalesStream.ts:41`).
* A pump whose timers a cleanup cleared is shown as dispensing until its next sale
  (`ui/src/hooks/useDispensingPlayback.ts:277`).
* A correction replaces the readings of a draft that an administrator saved over the batch
  since, for a draft keeps the version and a review asks for no status
  (`backend/app/services/tank_readings.py:386`, `:642`, `:706`).
* The executive page and the others differ for users of an organisation, for sales around
  midnight when the configured zone is not Lagos time, and for a station that sold under
  both its ids (`ui/src/pages/StationsPage.tsx:109`).
* On a closed station a lit pump's card pulses while the map is dark
  (`ui/src/components/twin/OperationalTwinView.tsx:343`).
* The station form writes status and connectivity without history or pumps
  (`backend/app/routers/admin_stations.py:426`), and an acknowledged alert is active again
  even if it was closed (`backend/app/routers/alerts.py:115`).
* A run that has just been created is selected although the station in the filter was
  changed meanwhile (`ui/src/pages/ReconciliationsPage.tsx:113`).

In the ui: login and session, the edge panels, the station search box and the
search and paging of transactions, which are requests with one answer each; colours,
zoom and drawing; and the pages no route reaches (`StationTwinPage`, `PumpsPage`,
`ReconciliationPage`, `StationSceneCanvas`, `FuelDigitalTwin`, `useMqttTwin`, the
station flow diagrams).

Hazards seen in components that are not modelled, or that no document decides:

* `backend/app/routers/events.py:84`: the stream's cursor is the largest
  `received_at` seen; a row stamped earlier and committed later is never sent.
* `backend/app/services/reconciliation.py:512`: approve and reject check the status
  they loaded; two reviewers can both succeed.
* `backend/app/services/alert_engine.py:74`: look up, then insert, with one commit for
  all stations of a deadline pass.
* `backend/app/services/stock_reconciliation.py:308`: an alert call without its third
  parameter, whose exception is swallowed.
* `consumer/app/services/edge_device_service.py:277` and `:129`,
  `backend/app/services/edge_device_monitor.py:426`: heartbeats delivered late, a last
  will that sticks, two monitors of one column with different words.
* `ui/src/pages/station-manager/TankReadingsPage.tsx:141`: readings typed for one date
  are saved under the date opened since.  `ReadingsForm` has the step.
* `ui/src/pages/admin/AdminStationEditPage.tsx:134`: adding a device refetches the
  station, whose answer overwrites what was typed in the general form.
* `ui/src/pages/UsersPage.tsx:37`: the whole set of a user's stations is replaced from
  the row that was on the screen.
* `ui/src/pages/ExecutiveOverviewPage.tsx:140`: the day's sales of the network are
  those of one station once its live summary is there.  `Dashboards` has it.
* Java API: exists-then-save ingestion (`IngestionService.java:25`), a lost update of
  the expected volume (`TankExpectedStateService.java:49`), a swallowed normalization
  (`NormalizationService.java:95`), a transition its own table does not have
  (`StationStateMachineService.java:102`).

## 7. Plan

Order by what a mistake would cost:

1. **Done**: all modules of section 2, with their runs; proofs of every property of
   the passing runs but the three of liveness.
2. `EventStream`: the cursor against commits in another order than `received_at`;
   composed with `LivePages`, whose `Commit` has a row announced or not.
3. `ReconciliationRuns`: approval and rejection from several workers, under
   `ReconciliationsPage`.
4. `Alerts`: the unique index and the deadline pass over several stations, composed
   with `TankReadings`' job and `AlertsPage`.
5. `EdgeDevice`: heartbeats out of order, last will, both monitors.
6. Proofs: the safety half of `CacheConverges`; the reconciliation runs in the abstract
   book of `NightlyReadings`.
7. The Java API.
