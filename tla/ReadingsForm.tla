----------------------------- MODULE ReadingsForm -----------------------------
(***************************************************************************)
(* The nightly readings page                                               *)
(* (ui/src/pages/station-manager/TankReadingsPage.tsx) of one station: the *)
(* form of a business date, its draft, the cached workspaces it starts     *)
(* from, and the requests that save, submit and correct it while other     *)
(* people write to the same batches.  One value stands for the readings of *)
(* all the station's tanks; the page makes one request at a time, and      *)
(* messages and field errors are left out.                                 *)
(***************************************************************************)
EXTENDS Naturals, FiniteSets

CONSTANTS
  None,       \* nothing there
  Today,      \* the current business date; the dates are 1..Today
  Readings,   \* what can be typed
  MaxOpens,   \* bound: times the form is opened
  MaxSaves,   \* bound: requests of the page
  MaxOthers   \* bound: writes by other people

VARIABLES
  admin,      \* whether the user is an administrator
  batch,      \* server: the batch of each date
  workspace,  \* the cached workspace of each key
  loading,    \* the workspace under way: asked, or the server's answer
  entry,      \* the form: modalOpen, mode, and viewDate as the key of the workspace
  draft,      \* the readings in the form
  request,    \* the page's request
  rows,       \* the statuses the page shows
  opens, saves, others   \* counters for the bounds

page == <<workspace, loading, entry, draft, request, rows>>
counters == <<opens, saves, others>>
vars == <<admin, batch, page, counters>>

Dates   == 1..Today
Current == 0                \* the key of a form opened without a date
Keys    == Dates \cup {Current}
Locked  == {"SUBMITTED", "ACCEPTED", "CORRECTED"}
DateOf(key) == IF key = Current THEN Today ELSE key

\* uiStatus, and whether the fields of the form are disabled.
uiStatus == rows[Today]
managerLocked == uiStatus \in Locked
readOnly == entry.mode = "view" \/ (entry.mode # "correct" /\ managerLocked /\ ~admin)

\* What must hold of the constants: there are dates and readings, and no version is None.
FormAssumption == Today \in Nat \ {0} /\ Readings # {} /\ None \notin Nat

\* drafted is history: a draft that nobody submitted changed the readings.
NoBatch == [status |-> "NOT_STARTED", readings |-> None, version |-> 0, drafted |-> FALSE]
LastNight == [status |-> "SUBMITTED", readings |-> CHOOSE r \in Readings : TRUE,
              version |-> 2, drafted |-> FALSE]
Asked(key) == [key |-> key, answer |-> None]

-----------------------------------------------------------------------------
(* The server (services/tank_readings.py), as the page uses it             *)

\* A draft leaves the version alone, a submission and a correction raise it.
Drafted(b, r) == [status |-> "DRAFT", readings |-> IF r = None THEN b.readings ELSE r,
                  version |-> IF b.version = 0 THEN 1 ELSE b.version,
                  drafted |-> b.drafted \/ r \notin {None, b.readings}]
Submitted(b)  == [b EXCEPT !.status = "SUBMITTED", !.version = @ + 1, !.drafted = FALSE]
Corrected(b, r) == [status |-> "CORRECTED", readings |-> r, version |-> b.version + 1,
                    drafted |-> FALSE]

CanCorrect(b, version) ==
  b.status \in Locked \cup {"REOPENED"} /\ version \in {None, b.version}

\* Another manager drafts or submits, another administrator drafts over whatever is
\* there, corrects, or reviews, whatever the batch's status is.
Other(d) ==
  /\ others < MaxOthers /\ others' = others + 1
  /\ \/ \E r \in Readings : batch' = [batch EXCEPT ![d] = Drafted(@, r)]
     \/ /\ batch[d].status \notin Locked /\ batch[d].readings # None
        /\ batch' = [batch EXCEPT ![d] = Submitted(@)]
     \/ \E r \in Readings : CanCorrect(batch[d], None) /\ batch' = [batch EXCEPT ![d] = Corrected(@, r)]
     \/ \E s \in {"ACCEPTED", "REJECTED", "REOPENED"} :
          batch[d].version # 0 /\ batch' = [batch EXCEPT ![d].status = s]
     \/ \E r \in Readings :  \* drafted and submitted again, or drafted and accepted
          \/ batch' = [batch EXCEPT ![d] = Submitted(Drafted(@, r))]
          \/ batch' = [batch EXCEPT ![d] = [Drafted(@, r) EXCEPT !.status = "ACCEPTED"]]
  /\ UNCHANGED <<admin, page, opens, saves>>

-----------------------------------------------------------------------------
(* The form and the workspace it shows                                     *)

Displayed(c) == c[entry.key]

\* The effect on currentQ.data.
Load(w) == draft' = w.readings

\* An enabled query is fetched unless its data is fresh, as when the fetch is
\* never answered.
Open(key, mode) ==
  /\ opens < MaxOpens /\ opens' = opens + 1
  /\ entry' = [open |-> TRUE, mode |-> mode, key |-> key]
  /\ IF key # entry.key /\ workspace[key] # None THEN Load(workspace[key]) ELSE UNCHANGED draft
  /\ loading' = Asked(key)
  /\ UNCHANGED <<admin, batch, workspace, request, rows, saves, others>>

OpenCreate ==
  /\ ~entry.open /\ (admin \/ ~managerLocked)
  /\ Open(Current, IF uiStatus \in {"DRAFT", "REOPENED"} THEN "continue" ELSE "create")

OpenRow(d, mode) ==
  /\ ~entry.open /\ rows[d] # "NOT_STARTED"
  /\ mode = "continue" => rows[d] \in {"DRAFT", "REOPENED"}
  /\ mode = "correct"  => admin /\ rows[d] \in Locked
  /\ Open(d, mode)

Close ==
  /\ entry.open
  /\ entry' = [entry EXCEPT !.open = FALSE]
  /\ UNCHANGED <<admin, batch, workspace, loading, draft, request, rows, counters>>

Answer ==
  /\ loading # None /\ loading.answer = None
  /\ loading' = [loading EXCEPT !.answer = batch[DateOf(loading.key)]]
  /\ UNCHANGED <<admin, batch, workspace, entry, draft, request, rows, counters>>

\* An answer that differs from the cached one is loaded, over what was typed;
\* so is one with the same readings and a later time of modification.
Settle ==
  /\ loading # None /\ loading.answer # None
  /\ workspace' = [workspace EXCEPT ![loading.key] = loading.answer]
  /\ \/ loading.key = entry.key /\ Load(loading.answer)
     \/ (loading.key # entry.key \/ workspace[loading.key] = loading.answer) /\ UNCHANGED draft
  /\ loading' = None
  /\ UNCHANGED <<admin, batch, entry, request, rows, counters>>

\* The page's other queries; an older answer is what the page showed before.
Refresh ==
  /\ rows' = [d \in Dates |-> batch[d].status] /\ rows' # rows
  /\ UNCHANGED <<admin, batch, workspace, loading, entry, draft, request, counters>>

\* The fields are those of the workspace's tanks.
Type(r) ==
  /\ entry.open /\ ~readOnly /\ Displayed(workspace) # None
  /\ draft' = r
  /\ UNCHANGED <<admin, batch, workspace, loading, entry, request, rows, counters>>

-----------------------------------------------------------------------------
(* saveMut and submitMut                                                   *)

Request(kind, phase) ==
  [kind |-> kind, phase |-> phase, readings |-> draft, date |-> DateOf(entry.key),
   version |-> IF Displayed(workspace) = None THEN None ELSE Displayed(workspace).version,
   shown |-> IF Displayed(workspace) = None THEN None ELSE Displayed(workspace).readings]

Send(kind) ==
  /\ request = None /\ saves < MaxSaves /\ saves' = saves + 1
  /\ request' = Request(kind, "sent")
  /\ UNCHANGED <<admin, batch, workspace, loading, entry, draft, rows, opens, others>>

\* "Save correction" and "Save Draft"; a correction needs the batch's id.
SaveCorrection ==
  /\ entry.open /\ ~readOnly /\ entry.mode = "correct"
  /\ Displayed(workspace) # None /\ Displayed(workspace).version # 0
  /\ Send("correct")
SaveDraft ==
  /\ entry.open /\ ~readOnly /\ entry.mode # "correct"
  /\ Send("draft")

\* "Submit All Readings", once the dialog is confirmed.
ConfirmSubmit ==
  /\ entry.open /\ ~readOnly /\ entry.mode # "correct"
  /\ Send("submit")

\* Mutant: the correction does not say which version it was made from.
HandleUnversioned ==
  /\ request # None /\ request.phase \in {"sent", "submitting"}
  /\ LET b == batch[request.date]
         ok == IF request.kind = "correct" THEN CanCorrect(b, None)
               ELSE b.status \notin Locked \/ (admin /\ request.phase = "sent")
     IN  /\ batch' = IF ~ok THEN batch
                     ELSE [batch EXCEPT ![request.date] =
                             IF request.kind = "correct" THEN Corrected(b, request.readings)
                             ELSE IF request.phase = "sent" THEN Drafted(b, request.readings)
                             ELSE Submitted(b)]
         /\ request' = [request EXCEPT !.phase =
                       IF ~ok THEN "refused"
                       ELSE IF request.kind = "submit" /\ request.phase = "sent" THEN "saved" ELSE "done"]
  /\ UNCHANGED <<admin, workspace, loading, entry, draft, rows, counters>>

\* The server takes the draft or the correction; a submission saves the draft
\* first and then submits whatever the batch holds.
Handle ==
  /\ request # None /\ request.phase \in {"sent", "submitting"}
  /\ LET b == batch[request.date]
         ok == IF request.kind = "correct" THEN CanCorrect(b, request.version)
               ELSE b.status \notin Locked \/ (admin /\ request.phase = "sent")
     IN  /\ batch' = IF ~ok THEN batch
                     ELSE [batch EXCEPT ![request.date] =
                             IF request.kind = "correct" THEN Corrected(b, request.readings)
                             ELSE IF request.phase = "sent" THEN Drafted(b, request.readings)
                             ELSE Submitted(b)]
         /\ request' = [request EXCEPT !.phase =
                       IF ~ok THEN "refused"
                       ELSE IF request.kind = "submit" /\ request.phase = "sent" THEN "saved" ELSE "done"]
  /\ UNCHANGED <<admin, workspace, loading, entry, draft, rows, counters>>

\* onSuccess and onError: the handlers of the latest render, so a save that is
\* answered while another row is corrected closes that row's form.  The draft of
\* a submission is answered first, and the form fetched again, before it is submitted.
Answered ==
  /\ request # None /\ request.phase \in {"saved", "done", "refused"}
  /\ request' = IF request.phase = "saved" THEN [request EXCEPT !.phase = "submitting"] ELSE None
  /\ LET ok     == request.phase # "refused"
         closes == entry.mode = "correct" \/ (request.kind = "submit" /\ request.phase = "done")
     IN  /\ entry' = IF ok /\ closes THEN [entry EXCEPT !.open = FALSE] ELSE entry
         /\ loading' = IF ~ok THEN loading
                       ELSE IF entry'.open THEN Asked(entry.key) ELSE None
  /\ UNCHANGED <<admin, batch, workspace, draft, rows, counters>>

-----------------------------------------------------------------------------
Init ==
  /\ admin \in BOOLEAN
  /\ batch = [d \in Dates |-> IF d = Today THEN NoBatch ELSE LastNight]
  /\ workspace = [k \in Keys |-> None] /\ loading = None
  /\ entry = [open |-> FALSE, mode |-> "create", key |-> Current]
  /\ draft = None /\ request = None
  /\ rows = [d \in Dates |-> batch[d].status]
  /\ opens = 0 /\ saves = 0 /\ others = 0

Next ==
  \/ \E d \in Dates : Other(d) \/ \E m \in {"view", "continue", "correct"} : OpenRow(d, m)
  \/ OpenCreate \/ Close \/ Answer \/ Settle \/ Refresh
  \/ \E r \in Readings : Type(r)
  \/ SaveDraft \/ SaveCorrection \/ ConfirmSubmit
  \/ Handle \/ Answered

Spec == Init /\ [][Next]_vars

-----------------------------------------------------------------------------
(* Correctness                                                             *)

\* A correction that the server takes replaces the very readings that the form was
\* loaded with and its administrator saw, or those of a draft that nobody submitted,
\* whoever else drafted, submitted, corrected or reviewed the batch meanwhile.
Replaces ==
  /\ request # None /\ request.kind = "correct" /\ request.phase = "sent"
  /\ request' # None /\ request'.phase = "done"
  => LET b == batch[request.date] IN b.readings = request.shown \/ b.drafted
CorrectionsReplaceWhatWasShown == [][Replaces]_vars
=============================================================================
