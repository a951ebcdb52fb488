-------------------------- MODULE StationPagesProofs --------------------------
(***************************************************************************)
(* Theorems about the pages of one station: the form of the nightly        *)
(* readings, for every set of dates and readings and every bound, and what *)
(* the twin computes, for every schedule, display and set of connections.  *)
(***************************************************************************)
EXTENDS Pages, TLAPS

-----------------------------------------------------------------------------
(***************************************************************************)
(* The readings form: a correction replaces the readings it was made from, *)
(* or a draft.  A batch takes new readings only with a new version, unless  *)
(* a draft changes them under the same one, and then it is marked so until  *)
(* it is submitted, which is a new version.  So what was seen of a version  *)
(* is what the version holds, as long as no draft changed it.               *)
(***************************************************************************)

BatchStatuses == Form!Locked \cup {"NOT_STARTED", "DRAFT", "REJECTED", "REOPENED"}
Contents      == ReadingIds \cup {None}
Batches       == [status : BatchStatuses, readings : Contents, version : Nat,
                  drafted : BOOLEAN]
Forms         == [open : BOOLEAN, mode : {"view", "create", "continue", "correct"},
                  key : Form!Keys]
Loadings      == [key : Form!Keys, answer : Batches \cup {None}]
Requests      == [kind : {"draft", "submit", "correct"},
                  phase : {"sent", "saved", "submitting", "done", "refused"},
                  readings : Contents, date : Form!Dates, version : Nat \cup {None},
                  shown : Contents]

\* Readings that were seen with a version of a batch, now b.
Seen(b, v, readings) ==
  /\ v \in Nat /\ v <= b.version
  /\ v = b.version /\ ~b.drafted => readings = b.readings

FormType ==
  /\ batch \in [Form!Dates -> Batches] /\ workspace \in [Form!Keys -> Batches \cup {None}]
  /\ loading \in Loadings \cup {None} /\ entry \in Forms /\ draft \in Contents
  /\ request \in Requests \cup {None}

WorkspacesSeen(known, b) ==
  \A k \in Form!Keys : known[k] # None =>
    Seen(b[Form!DateOf(k)], known[k].version, known[k].readings)
AnswerSeen(l, b) ==
  l # None /\ l.answer # None =>
    Seen(b[Form!DateOf(l.key)], l.answer.version, l.answer.readings)
RequestSeen(r, b) ==
  r # None /\ r.kind = "correct" /\ r.phase = "sent" =>
    Seen(b[r.date], r.version, r.shown)

FormInv ==
  /\ FormType
  /\ WorkspacesSeen(workspace, batch) /\ AnswerSeen(loading, batch)
  /\ RequestSeen(request, batch)

LEMMA FormFacts ==
  /\ Form!Current \in Form!Keys /\ Today \in Form!Dates /\ Form!Dates \subseteq Form!Keys
  /\ \A k \in Form!Keys : Form!DateOf(k) \in Form!Dates
  /\ None \notin Nat
  /\ Form!NoBatch \in Batches /\ Form!LastNight \in Batches
<1>1. Today \in Nat /\ Today >= 1 /\ None \notin Nat /\ ReadingIds # {}
  BY FormAssumption DEF Form!FormAssumption
<1>2. (CHOOSE r \in ReadingIds : TRUE) \in ReadingIds
  BY <1>1
<1>. QED
  BY <1>1, <1>2 DEF Form!Current, Form!Keys, Form!Dates, Form!DateOf, Form!NoBatch,
     Form!LastNight, Batches, BatchStatuses, Contents, Form!Locked

-----------------------------------------------------------------------------
(* What is written to a batch                                              *)

\* A write keeps what was seen: under a new version, marked as a draft's, or without
\* touching the readings.
Keeps(b, c) ==
  /\ c \in Batches /\ b.version <= c.version
  /\ c.version = b.version /\ ~c.drafted => ~b.drafted /\ c.readings = b.readings

LEMMA KeepsSeen ==
  ASSUME NEW b \in Batches, NEW c, Keeps(b, c), NEW v, NEW readings, Seen(b, v, readings)
  PROVE  Seen(c, v, readings)
BY DEF Keeps, Seen, Batches

\* A batch is the record of its fields.
LEMMA BatchFields ==
  ASSUME NEW b \in Batches
  PROVE  /\ b.version \in Nat /\ b.readings \in Contents /\ b.drafted \in BOOLEAN
         /\ b = [status |-> b.status, readings |-> b.readings, version |-> b.version,
                 drafted |-> b.drafted]
BY DEF Batches

LEMMA DraftedKeeps ==
  ASSUME NEW b \in Batches, NEW readings \in Contents
  PROVE  Form!Drafted(b, readings) \in Batches /\ Keeps(b, Form!Drafted(b, readings))
<1>. DEFINE c == Form!Drafted(b, readings)
<1>1. /\ c.status = "DRAFT"
      /\ c.readings = IF readings = None THEN b.readings ELSE readings
      /\ c.version = IF b.version = 0 THEN 1 ELSE b.version
      /\ c.drafted = (b.drafted \/ readings \notin {None, b.readings})
      /\ c = [status |-> c.status, readings |-> c.readings, version |-> c.version,
              drafted |-> c.drafted]
  BY DEF Form!Drafted
<1>2. b.version \in Nat /\ b.readings \in Contents /\ b.drafted \in BOOLEAN
  BY BatchFields
<1>. HIDE DEF c
<1>3. /\ c.version \in Nat /\ b.version <= c.version /\ c.readings \in Contents
      /\ c.drafted \in BOOLEAN /\ c.status \in BatchStatuses
  <2>1. c.version \in Nat /\ b.version <= c.version
    BY <1>1, <1>2
  <2>2. c.readings \in Contents
    BY <1>1, <1>2
  <2>3. c.drafted \in BOOLEAN /\ c.status \in BatchStatuses
    BY <1>1 DEF BatchStatuses
  <2>. QED
    BY <2>1, <2>2, <2>3
<1>4. c \in Batches
  BY <1>1, <1>3 DEF Batches
<1>5. ~c.drafted => ~b.drafted /\ c.readings = b.readings
  BY <1>1
<1>. QED
  BY <1>3, <1>4, <1>5 DEF Keeps, c

LEMMA SubmittedKeeps ==
  ASSUME NEW b \in Batches
  PROVE  Keeps(b, Form!Submitted(b)) /\ Form!Submitted(b).version > b.version
<1>. DEFINE s == b.status
            r == b.readings
            v == b.version
            d == b.drafted
            c == Form!Submitted(b)
<1>1. v \in Nat /\ r \in Contents
      /\ b = [status |-> s, readings |-> r, version |-> v, drafted |-> d]
  BY BatchFields
<1>2. c = [status |-> "SUBMITTED", readings |-> r, version |-> v + 1, drafted |-> FALSE]
  <2>1. c = [[status |-> s, readings |-> r, version |-> v, drafted |-> d]
               EXCEPT !.status = "SUBMITTED", !.version = v + 1, !.drafted = FALSE]
    BY <1>1, Zenon DEF Form!Submitted
  <2>. HIDE DEF c, s, r, v, d
  <2>. QED
    BY <2>1
<1>. QED
  BY <1>1, <1>2 DEF Keeps, Batches, BatchStatuses, Form!Locked

LEMMA CorrectedKeeps ==
  ASSUME NEW b \in Batches, NEW readings \in Contents
  PROVE  Keeps(b, Form!Corrected(b, readings))
BY DEF Form!Corrected, Keeps, Batches, BatchStatuses, Form!Locked

LEMMA ReviewedKeeps ==
  ASSUME NEW b \in Batches, NEW s \in {"ACCEPTED", "REJECTED", "REOPENED"}
  PROVE  Keeps(b, [b EXCEPT !.status = s])
<1>1. [b EXCEPT !.status = s] = [status |-> s, readings |-> b.readings,
                                 version |-> b.version, drafted |-> b.drafted]
  BY DEF Batches
<1>2. b.version \in Nat /\ b.readings \in Contents /\ b.drafted \in BOOLEAN
  BY BatchFields
<1>. QED
  BY <1>1, <1>2 DEF Keeps, Batches, BatchStatuses, Form!Locked

LEMMA TwiceKeeps ==
  ASSUME NEW a \in Batches, NEW b, NEW c, Keeps(a, b), Keeps(b, c)
  PROVE  Keeps(a, c)
BY DEF Keeps, Batches

\* A write to the batch of one date keeps what was seen of all of them.
LEMMA WriteKeeps ==
  ASSUME FormInv, NEW d \in Form!Dates, NEW c, Keeps(batch[d], c),
         batch' = [batch EXCEPT ![d] = c]
  PROVE  /\ batch' \in [Form!Dates -> Batches]
         /\ \A e \in Form!Dates : Keeps(batch[e], batch'[e])
BY DEF FormInv, FormType, Keeps, Batches

\* So the invariant survives, as long as the page's own state is the same.
LEMMA KeptInv ==
  ASSUME FormInv, batch' \in [Form!Dates -> Batches],
         \A e \in Form!Dates : Keeps(batch[e], batch'[e]),
         UNCHANGED <<workspace, loading, entry, draft>>,
         request' = request \/ (request' \in Requests /\ request'.phase # "sent")
  PROVE  FormInv'
<1>1. \A e \in Form!Dates : \A v, readings :
       Seen(batch[e], v, readings) => Seen(batch'[e], v, readings)
  BY KeepsSeen DEF FormInv, FormType
<1>2. FormType'
  BY DEF FormInv, FormType
<1>3. WorkspacesSeen(workspace, batch) => WorkspacesSeen(workspace, batch')
  BY <1>1, FormFacts DEF WorkspacesSeen
<1>4. AnswerSeen(loading, batch) => AnswerSeen(loading, batch')
  BY <1>1, FormFacts DEF AnswerSeen, FormInv, FormType, Loadings
<1>5. RequestSeen(request, batch) => RequestSeen(request', batch')
  BY <1>1 DEF RequestSeen, FormInv, FormType, Requests
<1>. QED
  BY <1>2, <1>3, <1>4, <1>5 DEF FormInv

-----------------------------------------------------------------------------
(* The steps of the form                                                   *)

LEMMA FormInit == Form!Init => FormInv
<1>. SUFFICES ASSUME Form!Init PROVE FormInv
  OBVIOUS
<1>1. batch \in [Form!Dates -> Batches] /\ workspace \in [Form!Keys -> Batches \cup {None}]
  BY FormFacts DEF Form!Init
<1>2. entry \in Forms /\ loading = None /\ draft = None /\ request = None
  BY FormFacts DEF Form!Init, Forms
<1>3. \A k \in Form!Keys : workspace[k] = None
  BY DEF Form!Init
<1>. QED
  BY <1>1, <1>2, <1>3 DEF FormInv, FormType, WorkspacesSeen, AnswerSeen, RequestSeen, Contents

LEMMA OtherStep ==
  ASSUME FormInv, NEW d \in Form!Dates, Form!Other(d)
  PROVE  FormInv'
<1>. DEFINE b == batch[d]
            Write == \E c : Keeps(b, c) /\ batch' = [batch EXCEPT ![d] = c]
<1>1. b \in Batches /\ UNCHANGED <<workspace, loading, entry, draft, request>>
  BY DEF FormInv, FormType, Form!Other, Form!page
<1>2. Write
  <2>1. ASSUME NEW r \in ReadingIds, batch' = [batch EXCEPT ![d] = Form!Drafted(@, r)]
        PROVE  Write
    BY <1>1, <2>1, DraftedKeeps DEF Contents
  <2>2. CASE batch' = [batch EXCEPT ![d] = Form!Submitted(@)]
    BY <1>1, <2>2, SubmittedKeeps
  <2>3. ASSUME NEW r \in ReadingIds, batch' = [batch EXCEPT ![d] = Form!Corrected(@, r)]
        PROVE  Write
    BY <1>1, <2>3, CorrectedKeeps DEF Contents
  <2>4. ASSUME NEW s \in {"ACCEPTED", "REJECTED", "REOPENED"},
               batch' = [batch EXCEPT ![d].status = s]
        PROVE  Write
    BY <1>1, <2>4, ReviewedKeeps
  <2>5. ASSUME NEW r \in ReadingIds,
               batch' = [batch EXCEPT ![d] = Form!Submitted(Form!Drafted(@, r))]
        PROVE  Write
    <3>. DEFINE c == Form!Drafted(b, r)
    <3>1. c \in Batches /\ Keeps(b, c)
      BY <1>1, DraftedKeeps DEF Contents
    <3>2. Keeps(b, Form!Submitted(c))
      <4>. HIDE DEF c
      <4>. QED
        BY <1>1, <3>1, SubmittedKeeps, TwiceKeeps
    <3>. QED
      BY <2>5, <3>2
  <2>6. ASSUME NEW r \in ReadingIds,
               batch' = [batch EXCEPT ![d] = [Form!Drafted(@, r) EXCEPT !.status = "ACCEPTED"]]
        PROVE  Write
    <3>. DEFINE c == Form!Drafted(b, r)
    <3>1. c \in Batches /\ Keeps(b, c)
      BY <1>1, DraftedKeeps DEF Contents
    <3>2. Keeps(b, [c EXCEPT !.status = "ACCEPTED"])
      <4>. HIDE DEF c
      <4>. QED
        BY <1>1, <3>1, ReviewedKeeps, TwiceKeeps
    <3>. QED
      BY <2>6, <3>2
  <2>. QED
    BY <2>1, <2>2, <2>3, <2>4, <2>5, <2>6 DEF Form!Other
<1>. QED
  BY <1>1, <1>2, WriteKeeps, KeptInv

LEMMA HandleStep ==
  ASSUME FormInv, Form!Handle
  PROVE  FormInv'
<1>. DEFINE b == batch[request.date]
            ok == IF request.kind = "correct" THEN Form!CanCorrect(b, request.version)
                  ELSE b.status \notin Form!Locked \/ (admin /\ request.phase = "sent")
            c == IF request.kind = "correct" THEN Form!Corrected(b, request.readings)
                 ELSE IF request.phase = "sent" THEN Form!Drafted(b, request.readings)
                 ELSE Form!Submitted(b)
            phase == IF ~ok THEN "refused"
                     ELSE IF request.kind = "submit" /\ request.phase = "sent" THEN "saved" ELSE "done"
<1>1. request \in Requests /\ request.date \in Form!Dates /\ request.readings \in Contents
  BY DEF FormInv, FormType, Form!Handle, Requests
<1>2. b \in Batches
  BY <1>1 DEF FormInv, FormType
<1>3. /\ UNCHANGED <<workspace, loading, entry, draft>>
      /\ batch' = (IF ~ok THEN batch ELSE [batch EXCEPT ![request.date] = c])
      /\ request' = [request EXCEPT !.phase = phase]
  BY DEF Form!Handle
<1>4. request' \in Requests /\ request'.phase # "sent"
  <2>1. phase \in {"refused", "saved", "done"}
    OBVIOUS
  <2>. HIDE DEF phase
  <2>. QED
    BY <1>1, <1>3, <2>1 DEF Requests
<1>5. Keeps(b, c)
  BY <1>1, <1>2, DraftedKeeps, SubmittedKeeps, CorrectedKeeps
<1>6. batch' \in [Form!Dates -> Batches] /\ \A e \in Form!Dates : Keeps(batch[e], batch'[e])
  <2>1. CASE batch' = batch
    BY <2>1 DEF FormInv, FormType, Keeps, Batches
  <2>2. CASE batch' = [batch EXCEPT ![request.date] = c]
    <3>. HIDE DEF c
    <3>. QED
      BY <1>1, <1>5, <2>2, WriteKeeps
  <2>. QED
    BY <1>3, <2>1, <2>2
<1>. QED
  BY <1>3, <1>4, <1>6, KeptInv

\* What is loaded and sent is what the page shows.
LEMMA SendStep ==
  ASSUME FormInv, NEW kind \in {"draft", "submit", "correct"}, Form!Send(kind),
         kind = "correct" => workspace[entry.key] # None
  PROVE  FormInv'
<1>. DEFINE w == workspace[entry.key]
<1>1. entry.key \in Form!Keys /\ w \in Batches \cup {None} /\ draft \in Contents
  BY DEF FormInv, FormType, Forms
<1>2. request' = [kind |-> kind, phase |-> "sent", readings |-> draft,
                  date |-> Form!DateOf(entry.key),
                  version |-> IF w = None THEN None ELSE w.version,
                  shown |-> IF w = None THEN None ELSE w.readings]
  BY DEF Form!Send, Form!Request, Form!Displayed
<1>3. request' \in Requests
  <2>1. /\ (IF w = None THEN None ELSE w.version) \in Nat \cup {None}
        /\ (IF w = None THEN None ELSE w.readings) \in Contents
    BY <1>1 DEF Batches, Contents
  <2>2. Form!DateOf(entry.key) \in Form!Dates
    BY <1>1, FormFacts
  <2>. HIDE DEF w
  <2>. QED
    BY <1>1, <1>2, <2>1, <2>2 DEF Requests
<1>4. RequestSeen(request', batch)
  <2>1. w # None => Seen(batch[Form!DateOf(entry.key)], w.version, w.readings)
    BY <1>1 DEF FormInv, WorkspacesSeen
  <2>. QED
    BY <1>2, <2>1 DEF RequestSeen
<1>. QED
  BY <1>3, <1>4 DEF FormInv, FormType, Form!Send

LEMMA AnsweredStep ==
  ASSUME FormInv, Form!Answered
  PROVE  FormInv'
<1>1. request \in Requests /\ entry \in Forms /\ UNCHANGED <<batch, workspace, draft>>
  BY DEF FormInv, FormType, Form!Answered
<1>2. request' \in Requests \cup {None} /\ RequestSeen(request', batch)
  <2>1. request' = [request EXCEPT !.phase = "submitting"] \/ request' = None
    BY DEF Form!Answered
  <2>. QED
    BY <1>1, <2>1 DEF Requests, RequestSeen
<1>3. entry' \in Forms
  <2>1. entry' = [entry EXCEPT !.open = FALSE] \/ entry' = entry
    BY DEF Form!Answered
  <2>. QED
    BY <1>1, <2>1 DEF Forms
<1>4. loading' \in Loadings \cup {None} /\ AnswerSeen(loading', batch)
  <2>1. loading' \in {loading, Form!Asked(entry.key), None}
    BY DEF Form!Answered
  <2>2. Form!Asked(entry.key) \in Loadings /\ AnswerSeen(Form!Asked(entry.key), batch)
    BY <1>1 DEF Form!Asked, Loadings, AnswerSeen, Forms
  <2>. QED
    BY <2>1, <2>2 DEF FormInv, FormType, AnswerSeen
<1>. QED
  BY <1>1, <1>2, <1>3, <1>4 DEF FormInv, FormType

LEMMA OpenStep ==
  ASSUME FormInv, NEW key \in Form!Keys, NEW mode \in {"view", "create", "continue", "correct"},
         Form!Open(key, mode)
  PROVE  FormInv'
<1>1. entry' \in Forms /\ UNCHANGED <<batch, workspace, request>>
  BY DEF Form!Open, Forms
<1>2. loading' \in Loadings /\ AnswerSeen(loading', batch)
  BY DEF Form!Open, Form!Asked, Loadings, AnswerSeen
<1>3. draft' \in Contents
  BY DEF FormInv, FormType, Form!Open, Form!Load, Batches
<1>. QED
  BY <1>1, <1>2, <1>3 DEF FormInv, FormType

LEMMA AnswerStep ==
  ASSUME FormInv, Form!Answer
  PROVE  FormInv'
<1>. DEFINE b == batch[Form!DateOf(loading.key)]
<1>1. loading \in Loadings /\ UNCHANGED <<batch, workspace, entry, draft, request>>
  BY DEF FormInv, FormType, Form!Answer
<1>2. b \in Batches /\ Seen(b, b.version, b.readings)
  BY <1>1, FormFacts DEF FormInv, FormType, Loadings, Seen, Batches
<1>3. loading' \in Loadings /\ loading'.key = loading.key /\ loading'.answer = b
  BY <1>1, <1>2 DEF Form!Answer, Loadings
<1>4. AnswerSeen(loading', batch)
  BY <1>2, <1>3 DEF AnswerSeen
<1>. QED
  BY <1>1, <1>3, <1>4 DEF FormInv, FormType

LEMMA SettleStep ==
  ASSUME FormInv, Form!Settle
  PROVE  FormInv'
<1>. DEFINE w == loading.answer
<1>1. loading \in Loadings /\ loading # None /\ w \in Batches /\ w # None /\ loading.key \in Form!Keys
  BY DEF FormInv, FormType, Form!Settle, Loadings
<1>2. /\ UNCHANGED <<batch, entry, request>> /\ loading' = None
      /\ workspace' = [workspace EXCEPT ![loading.key] = w]
      /\ draft' = w.readings \/ draft' = draft
  BY DEF Form!Settle, Form!Load
<1>3. draft' \in Contents
  BY <1>1, <1>2 DEF FormInv, FormType, Batches
<1>4. /\ workspace' \in [Form!Keys -> Batches \cup {None}]
      /\ \A k \in Form!Keys : workspace'[k] = IF k = loading.key THEN w ELSE workspace[k]
  <2>. HIDE DEF w
  <2>. QED
    BY <1>1, <1>2 DEF FormInv, FormType
<1>5. WorkspacesSeen(workspace', batch)
  BY <1>1, <1>4 DEF FormInv, WorkspacesSeen, AnswerSeen
<1>. QED
  BY <1>2, <1>3, <1>4, <1>5 DEF FormInv, FormType, AnswerSeen

LEMMA FormNext == FormInv /\ [Form!Next]_(Form!vars) => FormInv'
<1>. SUFFICES ASSUME FormInv, [Form!Next]_(Form!vars) PROVE FormInv'
  OBVIOUS
<1>1. CASE UNCHANGED Form!vars
  BY <1>1 DEF Form!vars, Form!page, FormInv, FormType
<1>2. ASSUME NEW d \in Form!Dates, Form!Other(d) PROVE FormInv'
  BY <1>2, OtherStep
<1>3. ASSUME NEW d \in Form!Dates, NEW m \in {"view", "continue", "correct"}, Form!OpenRow(d, m)
      PROVE  FormInv'
  BY <1>3, OpenStep, FormFacts DEF Form!OpenRow
<1>4. CASE Form!OpenCreate
  <2>. DEFINE m == IF Form!uiStatus \in {"DRAFT", "REOPENED"} THEN "continue" ELSE "create"
  <2>1. Form!Open(Form!Current, m) /\ m \in {"view", "create", "continue", "correct"}
    BY <1>4 DEF Form!OpenCreate
  <2>. QED
    BY <2>1, OpenStep, FormFacts
<1>5. CASE Form!Close
  <2>1. entry' \in Forms
    BY <1>5 DEF Form!Close, FormInv, FormType, Forms
  <2>. QED
    BY <1>5, <2>1 DEF Form!Close, FormInv, FormType
<1>6. CASE Form!Refresh
  BY <1>6 DEF Form!Refresh, FormInv, FormType
<1>7. ASSUME NEW r \in ReadingIds, Form!Type(r) PROVE FormInv'
  BY <1>7 DEF Form!Type, FormInv, FormType, Contents
<1>8. CASE Form!SaveDraft \/ Form!SaveCorrection \/ Form!ConfirmSubmit
  BY <1>8, SendStep DEF Form!SaveDraft, Form!SaveCorrection, Form!ConfirmSubmit, Form!Displayed
<1>. QED
  BY <1>1, <1>2, <1>3, <1>4, <1>5, <1>6, <1>7, <1>8, AnswerStep, SettleStep, HandleStep,
     AnsweredStep DEF Form!Next

\* The server takes a correction only of the version it was made from, which still
\* holds what was seen.
LEMMA FormReplaces == FormInv /\ [Form!Next]_(Form!vars) => Form!Replaces
<1>. SUFFICES ASSUME FormInv, [Form!Next]_(Form!vars),
                     request # None, request.kind = "correct", request.phase = "sent",
                     request' # None, request'.phase = "done"
              PROVE  batch[request.date].readings = request.shown \/ batch[request.date].drafted
  BY DEF Form!Replaces
<1>1. request' # request
  OBVIOUS
<1>2. Form!Handle
  BY <1>1 DEF Form!Next, Form!vars, Form!page, Form!Other, Form!OpenRow, Form!OpenCreate,
     Form!Open, Form!Close, Form!Answer, Form!Settle, Form!Refresh, Form!Type, Form!Send,
     Form!SaveDraft, Form!SaveCorrection, Form!ConfirmSubmit, Form!Answered
<1>3. request \in Requests
  BY DEF FormInv, FormType
<1>4. Form!CanCorrect(batch[request.date], request.version)
  BY <1>2, <1>3 DEF Form!Handle, Requests
<1>5. Seen(batch[request.date], request.version, request.shown)
  BY DEF FormInv, RequestSeen
<1>. QED
  BY <1>4, <1>5, FormFacts DEF Form!CanCorrect, Seen

-----------------------------------------------------------------------------
(***************************************************************************)
(* The opening hours.  The browser compares whole minutes, the server      *)
(* seconds; where the hours are whole minutes that is the same.            *)
(***************************************************************************)

LEMMA WholeMinutes ==
  ASSUME NEW time \in Int, NEW clock \in Int, time % 60 = 0
  PROVE  /\ time <= clock <=> time \div 60 <= clock \div 60
         /\ clock < time <=> clock \div 60 < time \div 60
OBVIOUS

LEMMA HoursCorrect ==
  ASSUME NEW s, {s.opens, s.closes, s.zone} \subseteq Int \cup {None}, NEW now \in Int
  PROVE  Twin!HoursAgree(s, now)
<1>. SUFFICES ASSUME \A t \in {s.opens, s.closes} : t = None \/ t % 60 = 0, s.zone # None
              PROVE  Twin!isWithinOperatingHours(s, now) <=> Twin!ServerWithinHours(s, now)
  BY DEF Twin!HoursAgree, Twin!Minute
<1>. DEFINE local == Twin!Zoned(now, s.zone)
            clock == local % 86400
<1>1. local \in Int /\ clock \in Int /\ None \notin Int
  BY HoursAssumption DEF Twin!Zoned, Twin!Hour, Twin!Day
<1>2. CASE s.opens = None \/ s.closes = None
  BY <1>2 DEF Twin!isWithinOperatingHours, Twin!ServerWithinHours, Twin!parseTimeToMinutes
<1>3. CASE s.opens # None /\ s.closes # None
  <2>1. s.opens \in Int /\ s.closes \in Int /\ s.opens % 60 = 0 /\ s.closes % 60 = 0
    BY <1>3
  <2>2. s.opens \div 60 \in Int /\ s.closes \div 60 \in Int /\ clock \div 60 \in Int
    BY <1>1, <2>1
  <2>3. Twin!isWithinOperatingHours(s, now) <=>
          /\ s.days = {} \/ local \div 86400 \in s.days
          /\ Twin!Between(s.opens \div 60, clock \div 60, s.closes \div 60)
    <3>1. /\ Twin!parseTimeToMinutes(s.opens) = s.opens \div 60
          /\ Twin!parseTimeToMinutes(s.closes) = s.closes \div 60
      BY <1>3 DEF Twin!parseTimeToMinutes, Twin!Minute
    <3>2. Twin!getZonedWeekdayAndMinutes(now, s.zone)
            = [weekday |-> local \div 86400, minutes |-> clock \div 60]
      BY DEF Twin!getZonedWeekdayAndMinutes, Twin!Minute, Twin!Day, Twin!Hour
    <3>3. [weekday |-> local \div 86400, minutes |-> clock \div 60] # None
      <4>1. local \div 86400 \in Int
        BY <1>1
      <4>. HIDE DEF local, clock
      <4>. QED
        BY <2>2, <4>1, HoursAssumption
    <3>. QED
      BY <1>1, <2>2, <3>1, <3>2, <3>3 DEF Twin!isWithinOperatingHours
  <2>4. Twin!ServerWithinHours(s, now) <=>
          /\ s.days = {} \/ local \div 86400 \in s.days
          /\ Twin!Between(s.opens, clock, s.closes)
    BY <1>3 DEF Twin!ServerWithinHours, Twin!Day, Twin!Hour
  <2>5. Twin!Between(s.opens \div 60, clock \div 60, s.closes \div 60)
          <=> Twin!Between(s.opens, clock, s.closes)
    <3>1. /\ s.opens <= s.closes <=> s.opens \div 60 <= s.closes \div 60
          /\ s.opens <= clock <=> s.opens \div 60 <= clock \div 60
          /\ clock < s.closes <=> clock \div 60 < s.closes \div 60
      <4>. HIDE DEF clock
      <4>. QED
        BY <1>1, <2>1, WholeMinutes
    <3>. HIDE DEF clock
    <3>. QED
      BY <1>1, <2>1, <2>2, <3>1 DEF Twin!Between
  <2>. QED
    BY <2>3, <2>4, <2>5
<1>. QED
  BY <1>2, <1>3

-----------------------------------------------------------------------------
(***************************************************************************)
(* The forecourt: a closed station is dark, and a card follows the map.    *)
(***************************************************************************)

LEMMA DarkCorrect ==
  ASSUME NEW d, IsDisplay(d)
  PROVE  Twin!ClosedForecourtIsDark(
           [pumps |-> d.pumps], [latest |-> d.latest, lit |-> d.lit], d.playing)
<1>. DEFINE state == [pumps |-> d.pumps]
            live == [latest |-> d.latest, lit |-> d.lit]
            shown == Twin!displayPumps(state, live, "CLOSED")
<1>1. Twin!Flowing(d.playing, TRUE) = {}
  BY DEF Twin!Flowing
<1>2. ASSUME NEW p \in DOMAIN shown, d.playing[p] = None
      PROVE  Twin!PumpNodeStatus(shown, p, d.playing) = "POWERED_OFF"
  <2>1. p \in DOMAIN d.pumps
    BY DEF Twin!displayPumps, Twin!applyLiveStationStatus
  <2>2. Twin!applyLiveStationStatus(d.pumps, "CLOSED")[p].status = "POWERED_OFF"
    BY <2>1 DEF IsDisplay, Twin!applyLiveStationStatus
  <2>3. shown[p].status = "POWERED_OFF"
    BY <2>1, <2>2 DEF Twin!displayPumps, Twin!applyLiveStationStatus
  <2>4. d.playing[p] \notin {"DISPENSING", "COMPLETED"}
    BY <1>2 DEF IsDisplay
  <2>. QED
    BY <2>3, <2>4 DEF Twin!PumpNodeStatus
<1>. QED
  BY <1>1, <1>2 DEF Twin!ClosedForecourtIsDark

LEMMA CardsCorrect ==
  ASSUME NEW d, IsDisplay(d)
  PROVE  Twin!CardsFollowTheMap(
           [pumps |-> d.pumps], [latest |-> d.latest, lit |-> d.lit], d.playing)
<1>. DEFINE state == [pumps |-> d.pumps]
            live == [latest |-> d.latest, lit |-> d.lit]
            shown == Twin!displayPumps(state, live, "OPEN")
            played == {q \in DOMAIN d.playing : d.playing[q] # None}
            first == IF played = {} THEN None ELSE CHOOSE q \in played : TRUE
<1>. SUFFICES ASSUME \A q, r \in played : q = r, NEW p \in DOMAIN shown,
                     Twin!PumpNodeStatus(shown, p, d.playing) = "DISPENSING"
              PROVE  Twin!PumpCard(shown, p, Twin!CardPhase(p, first, live, d.playing)).dispensing
  BY DEF Twin!CardsFollowTheMap
<1>1. p \in DOMAIN d.pumps /\ DOMAIN d.playing = DOMAIN d.pumps
  BY DEF Twin!displayPumps, Twin!applyLiveStationStatus, IsDisplay
<1>2. CASE shown[p].status = "DISPENSING"
  BY <1>2 DEF Twin!PumpCard
<1>3. CASE shown[p].status # "DISPENSING"
  <2>1. d.playing[p] = "DISPENSING" /\ p \in played
    BY <1>1, <1>3 DEF Twin!PumpNodeStatus, IsDisplay
  <2>2. first = p
    BY <2>1
  <2>3. Twin!CardPhase(p, first, live, d.playing) = "pulse"
    BY <2>1, <2>2 DEF Twin!CardPhase
  <2>. QED
    BY <2>3 DEF Twin!PumpCard
<1>. QED
  BY <1>2, <1>3

-----------------------------------------------------------------------------
(***************************************************************************)
(* The tank a sale is played from is the one its pipe is drawn to: where   *)
(* the display orders are the same, both choices go by the tank.           *)
(***************************************************************************)

LEMMA TanksCorrect ==
  ASSUME NEW connections, NEW pump, NEW product
  PROVE  Map!PlayedFromDrawnTank(connections, pump, product)
<1>. DEFINE matches == Map!Matching(connections, pump)
<1>. SUFFICES ASSUME matches # <<>>,
                     Map!Primaries(matches) # <<>> \/
                       \A i, j \in DOMAIN matches : matches[i].order = matches[j].order
              PROVE  Map!resolveConnection(connections, pump, product)
                       = Map!pickConnectionForPump(connections, pump)
  BY Zenon DEF Map!PlayedFromDrawnTank
<1>1. CASE Map!Primaries(matches) # <<>>
  BY <1>1, Zenon DEF Map!resolveConnection, Map!pickConnectionForPump
<1>2. CASE /\ Map!Primaries(matches) = <<>>
           /\ \A i, j \in DOMAIN matches : matches[i].order = matches[j].order
  <2>1. \A i, j \in DOMAIN matches :
          Map!ByDisplayOrder(matches[i], matches[j]) <=> Map!ByTank(matches[i], matches[j])
    BY <1>2 DEF Map!ByDisplayOrder, Map!ByTank
  <2>2. Map!FirstBy(matches, Map!ByDisplayOrder) = Map!FirstBy(matches, Map!ByTank)
    BY <2>1, Zenon DEF Map!FirstBy
  <2>. QED
    BY <1>2, <2>2, Zenon DEF Map!resolveConnection, Map!pickConnectionForPump
<1>. QED
  BY <1>1, <1>2

-----------------------------------------------------------------------------
(***************************************************************************)
(* The grid of pump cards.                                                 *)
(***************************************************************************)

\* Cards in two cells of a grid are more than 8 apart, however many cards there are and
\* wherever the grid is: only saved cards make findNextFreePumpSlots pass over a cell
\* (pumpGridLayout.ts).
THEOREM CellsApart ==
  ASSUME NEW bounds \in [left : Int, top : Int, width : Int], NEW count \in Nat,
         NEW i \in 0..(count - 1), NEW j \in 0..(count - 1), i # j
  PROVE  ~Map!rectsOverlap(Map!Cell(i, count, bounds), Map!Cell(j, count, bounds), 8)
<1>. DEFINE start(n) == bounds.left + Map!AtLeast(0, bounds.width - Map!fullRowWidth) \div 2
                          + Map!AtLeast(0, Map!fullRowWidth - Map!RowWidth(n)) \div 2
            a == Map!Cell(i, count, bounds)
            b == Map!Cell(j, count, bounds)
<1>1. ASSUME NEW n \in Int PROVE start(n) \in Int
  BY <1>1 DEF Map!AtLeast, Map!fullRowWidth, Map!RowWidth, Map!PUMP_CARD_W, Map!PUMP_H_GAP,
     Map!PUMP_MAX_COLS
<1>2. ASSUME NEW k \in 0..(count - 1)
      PROVE  LET n == Map!InRow(k \div 4, count)
                 c == Map!Cell(k, count, bounds)
             IN  /\ n \in Int /\ c.w = 100 /\ c.h = 108
                 /\ c.x = start(n) + (k % 4) * 128 /\ c.y = bounds.top + (k \div 4) * 148
  BY <1>2 DEF Map!Cell, Map!InRow, Map!AtMost, Map!RowX, Map!RowY, Map!PUMP_CARD_W,
     Map!PUMP_CARD_H, Map!PUMP_MAX_COLS, Map!PUMP_H_GAP, Map!PUMP_V_GAP
<1>3. CASE i \div 4 = j \div 4
  <2>. DEFINE s == start(Map!InRow(i \div 4, count))
  <2>1. a.x = s + (i % 4) * 128 /\ b.x = s + (j % 4) * 128 /\ s \in Int
    <3>1. Map!InRow(i \div 4, count) = Map!InRow(j \div 4, count)
      BY <1>3
    <3>2. a.x = s + (i % 4) * 128 /\ Map!InRow(i \div 4, count) \in Int
      BY <1>2
    <3>3. b.x = start(Map!InRow(j \div 4, count)) + (j % 4) * 128
      BY <1>2
    <3>4. s \in Int
      <4>. HIDE DEF start
      <4>. QED
        BY <1>1, <3>2
    <3>. QED
      BY <3>1, <3>2, <3>3, <3>4
  <2>2. a.w = 100 /\ b.w = 100
    BY <1>2
  <2>3. i % 4 \in 0..3 /\ j % 4 \in 0..3 /\ i % 4 # j % 4
    BY <1>3
  <2>. HIDE DEF a, b, s
  <2>4. ~(b.x < a.x + a.w + 8 /\ a.x < b.x + b.w + 8)
    BY <2>1, <2>2, <2>3
  <2>. QED
    BY <2>4 DEF Map!rectsOverlap, a, b
<1>4. CASE i \div 4 # j \div 4
  <2>1. /\ a.y = bounds.top + (i \div 4) * 148 /\ b.y = bounds.top + (j \div 4) * 148
        /\ a.h = 108 /\ b.h = 108
    BY <1>2
  <2>2. i \div 4 \in Int /\ j \div 4 \in Int /\ bounds.top \in Int
    OBVIOUS
  <2>. HIDE DEF a, b
  <2>3. ~(b.y < a.y + a.h + 8 /\ a.y < b.y + b.h + 8)
    BY <1>4, <2>1, <2>2
  <2>. QED
    BY <2>3 DEF Map!rectsOverlap, a, b
<1>. QED
  BY <1>3, <1>4

\* The rail of a tank runs between the tanks and the first row of pumps, however many
\* tanks have one (pumpGridLayout.ts).
THEOREM RailsBetween ==
  ASSUME NEW tankBottom \in Int, NEW index \in Nat
  PROVE  LET rail == Map!computePipeManifoldY(tankBottom,
                       Map!computePumpZoneTop(tankBottom), index)
         IN  tankBottom < rail /\ rail < Map!computePumpZoneTop(tankBottom)
BY DEF Map!computePipeManifoldY, Map!computePumpZoneTop, Map!AtMost, Map!AtLeast,
   Map!TANK_TO_MANIFOLD_GAP, Map!MANIFOLD_ZONE_H

-----------------------------------------------------------------------------
(***************************************************************************)
(* The pages together.  A page that is open takes its own steps and stays  *)
(* open; what is computed is computed from a case that stays the same.     *)
(***************************************************************************)

LEMMA StationPageSteps ==
  /\ Init => /\ page = "readings" => Form!Init
             /\ page \in DOMAIN Cases => case \in Cases[page]
  /\ [Next]_vars => /\ page' = page
                    /\ page = "readings" => [Form!Next]_(Form!vars)
                    /\ page \in DOMAIN Cases => case' = case
<1>1. DOMAIN Cases = {"layout", "pipes", "hours", "display", "totals"}
  BY DEF Cases
<1>2. ASSUME Init PROVE /\ page = "readings" => Form!Init
                        /\ page \in DOMAIN Cases => case \in Cases[page]
  <2>1. CASE OpenCase
    BY <1>1, <2>1 DEF OpenCase
  <2>2. CASE OpenSales \/ OpenForm \/ OpenAdmin \/ OpenLive \/ OpenAlerts \/ OpenRecon
    BY <1>1, <2>2 DEF OpenSales, OpenForm, OpenAdmin, OpenLive, OpenAlerts, OpenRecon
  <2>. QED
    BY <1>2, <2>1, <2>2 DEF Init
<1>3. ASSUME Next PROVE /\ page' = page
                        /\ page = "readings" => Form!Next
                        /\ page \in DOMAIN Cases => case' = case
  BY <1>3 DEF Next, SalesStep, FormStep, AdminStep, LiveStep, AlertsStep, ReconStep
<1>4. ASSUME UNCHANGED vars PROVE page' = page /\ UNCHANGED Form!vars /\ case' = case
  BY <1>4 DEF vars, salesState, readingsState, adminState, liveState, alertsState,
     reconState, Form!vars, Form!page, Form!counters
<1>. QED
  BY <1>2, <1>3, <1>4

\* A correction replaces the readings that its form was loaded with or a draft that
\* nobody submitted, whoever drafted, submitted, corrected or reviewed the batch
\* meanwhile (TankReadingsPage.tsx, services/tank_readings.py).
THEOREM CorrectionsCorrect == Spec => CorrectionsReplaceWhatWasShown
<1>. DEFINE Inv == page = "readings" => FormInv
<1>1. Init => Inv
  BY StationPageSteps, FormInit
<1>2. Inv /\ [Next]_vars => Inv'
  BY StationPageSteps, FormNext
<1>3. Inv /\ [Next]_vars => (page = "readings" => Form!Replaces)
  BY StationPageSteps, FormReplaces
<1>4. Inv /\ [Next]_vars => [page = "readings" => Form!Replaces]_vars
  BY <1>3
<1>. QED
  BY <1>1, <1>2, <1>4, PTL DEF Spec, CorrectionsReplaceWhatWasShown

CaseInv == page \in DOMAIN Cases => case \in Cases[page]

LEMMA CaseInvariance == Spec => []CaseInv
<1>1. CaseInv /\ [Next]_vars => CaseInv'
  BY StationPageSteps DEF CaseInv, Cases
<1>. QED
  BY <1>1, StationPageSteps, PTL DEF Spec, CaseInv

\* Page and backend agree on the opening hours, for every schedule of whole minutes in
\* a known zone and every instant (stationSchedule.ts, station_status.py).
THEOREM SchedulesCorrect == Spec => []HoursAgree
<1>1. CaseInv => HoursAgree
  BY HoursAssumption, HoursCorrect DEF CaseInv, Cases, HoursAgree
<1>. QED
  BY <1>1, CaseInvariance, PTL

\* The map of a closed station is dark but for the sales that are played, whatever the
\* server inferred and whichever sales arrived; its cards are not the map
\* (OperationalTwinView.tsx, ForecourtMap.tsx).
THEOREM ForecourtCorrect == Spec => []ClosedForecourtIsDark
<1>1. CaseInv => ClosedForecourtIsDark
  BY DisplaysAssumption, DarkCorrect DEF CaseInv, Cases, ClosedForecourtIsDark
<1>. QED
  BY <1>1, CaseInvariance, PTL

\* A pump that dispenses on the map dispenses on its card, while at most one sale is
\* played (OperationalTwinView.tsx, PumpCard.tsx).
THEOREM PumpCardsCorrect == Spec => []CardsFollowTheMap
<1>1. CaseInv => CardsFollowTheMap
  BY DisplaysAssumption, CardsCorrect DEF CaseInv, Cases, CardsFollowTheMap
<1>. QED
  BY <1>1, CaseInvariance, PTL

\* A sale is played from the tank whose pipe is drawn, for any connections
\* (useDispensingPlayback.ts, pipeRouting.ts).
THEOREM PlayedTanksCorrect == Spec => []PlayedFromDrawnTank
<1>1. PlayedFromDrawnTank
  BY TanksCorrect DEF PlayedFromDrawnTank
<1>. QED
  BY <1>1, PTL
===============================================================================
