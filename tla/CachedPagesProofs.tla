-------------------------- MODULE CachedPagesProofs ---------------------------
(***************************************************************************)
(* Theorems about the pages that share the query cache, for every set of   *)
(* pumps, tanks, users, alerts, runs and stations and every bound.  Each   *)
(* section proves an inductive invariant of one page by the lemmas about a *)
(* cache entry, which come first; the last carries them over to the pages  *)
(* together.                                                               *)
(***************************************************************************)
EXTENDS Pages, TLAPS

Cache == INSTANCE QueryCache

-----------------------------------------------------------------------------
(***************************************************************************)
(* An entry of the query cache, for every content: what a page does with   *)
(* an entry keeps it sound, and an invalidation that is heeded leaves      *)
(* nothing in it that is older than the invalidation.                      *)
(***************************************************************************)

IsEntry(e) ==
  e \in [data : {e.data}, stale : BOOLEAN, fetch : {"idle", "asked", "answered"},
         answer : {e.answer}]

\* What is fresh, or on its way, is in Good; a fetch is under way only where
\* what is there may not be shown as fresh.
Sound(e, Good) ==
  /\ IsEntry(e)
  /\ e.fetch = "idle" /\ ~e.stale /\ e.data # None => e.data \in Good
  /\ e.fetch = "answered" => e.answer \in Good
  /\ e.fetch # "idle" => e.stale \/ e.data = None

\* An entry that was just fetched, or never.
LEMMA EntrySound ==
  ASSUME NEW data, NEW Good, data = None \/ data \in Good
  PROVE  Sound(Cache!Entry(data), Good)
BY DEF Sound, Cache!Entry, IsEntry

LEMMA SoundSubset ==
  ASSUME NEW e, NEW Good, NEW More, Good \subseteq More, Sound(e, Good)
  PROVE  Sound(e, More)
BY DEF Sound

LEMMA MountSound ==
  ASSUME NEW e, NEW Good, Sound(e, Good)
  PROVE  Sound(Cache!Mount(e), Good)
BY DEF Sound, IsEntry, Cache!Mount

LEMMA AgeSound ==
  ASSUME NEW e, NEW Good, Sound(e, Good)
  PROVE  Sound(Cache!Age(e), Good)
BY DEF Sound, IsEntry, Cache!Age, Cache!Answer, Cache!Fail

LEMMA InvalidateSound ==
  ASSUME NEW e, NEW Good, NEW mounted \in BOOLEAN, Sound(e, Good)
  PROVE  Sound(Cache!Invalidate(e, mounted), Good)
BY DEF Sound, IsEntry, Cache!Invalidate, Cache!Refetched, Cache!Age

\* Whatever was in the entry, after an invalidation that is heeded it will show only
\* what is answered later.
LEMMA HeededSound ==
  ASSUME NEW e, NEW Good, NEW New, NEW mounted \in BOOLEAN, Sound(e, Good), Cache!Heeds(e, mounted)
  PROVE  Sound(Cache!Invalidate(e, mounted), New)
BY DEF Sound, IsEntry, Cache!Invalidate, Cache!Refetched, Cache!Heeds, Cache!Age

LEMMA AnswerSound ==
  ASSUME NEW e, NEW Good, NEW shown \in Good, Sound(e, Good), e.fetch = "asked"
  PROVE  Sound(Cache!Answer(e, shown), Good)
BY DEF Sound, IsEntry, Cache!Age, Cache!Answer, Cache!Fail

LEMMA SettleSound ==
  ASSUME NEW e, NEW Good, Sound(e, Good), e.fetch = "answered"
  PROVE  Sound(Cache!Settle(e), Good)
BY DEF Sound, IsEntry, Cache!Settle, Cache!Entry

LEMMA FailSound ==
  ASSUME NEW e, NEW Good, Sound(e, Good), e.fetch = "asked"
  PROVE  Sound(Cache!Fail(e), Good)
BY DEF Sound, IsEntry, Cache!Age, Cache!Answer, Cache!Fail

-----------------------------------------------------------------------------
(***************************************************************************)
(* Administration: a form saves the item it was filled from, and the       *)
(* queries show the administrator's own changes.                           *)
(***************************************************************************)

\* The page and the lemmas speak of the same cache entries.
LEMMA AdminCache ==
  /\ \A e : Admin!Mount(e) = Cache!Mount(e) /\ Admin!Age(e) = Cache!Age(e)
           /\ Admin!Settle(e) = Cache!Settle(e) /\ Admin!Entry(e) = Cache!Entry(e)
           /\ Admin!Fail(e) = Cache!Fail(e)
  /\ \A e, shown : Admin!Answer(e, shown) = Cache!Answer(e, shown)
  /\ \A e, mounted : Admin!Invalidate(e, mounted) = Cache!Invalidate(e, mounted)
  /\ \A e, mounted : Admin!Heeds(e, mounted) = Cache!Heeds(e, mounted)
BY DEF Admin!Mount, Cache!Mount, Admin!Age, Cache!Age, Admin!Settle, Cache!Settle, Admin!Entry,
   Cache!Entry, Admin!Fail, Cache!Fail, Admin!Invalidate, Cache!Invalidate, Admin!Heeds,
   Cache!Heeds, Admin!Answer, Cache!Answer, Admin!Refetched, Cache!Refetched

AdminChanges == Admin!RowCalls \cup {Admin!SavePump, Admin!SaveTank, Admin!SaveCatalogTank, Admin!AssignStations}
AdminIds     == {None} \cup Pumps \cup Tanks \cup Users
AdminCalls   == [n : Nat, of : AdminChanges, saves : BOOLEAN, id : AdminIds, from : AdminIds, done : BOOLEAN,
            made : [Admin!Tables -> Nat]]

\* The fields of an open form were filled from the item it edits.
AdminFormInv ==
  /\ changes \in Nat
  /\ editor \in [shown : BOOLEAN, editing : AdminIds, from : AdminIds]
  /\ editor.shown => editor.editing = editor.from

\* The versions a call made were reached.
AdminCallInv ==
  /\ version \in [Admin!Tables -> Nat]
  /\ \A c \in calls : /\ c \in AdminCalls /\ c.id = c.from
                      /\ \A t \in Admin!Tables : c.made[t] <= version[t]

\* What a query may show: versions no older than those it must show.
RecentTables(q, v) == {d \in [Admin!Shows[q] -> Nat] : \A t \in Admin!Shows[q] : v[t] <= d[t]}

AdminCacheInv ==
  /\ DOMAIN cache = Admin!Queries
  /\ \A q \in Admin!Queries :
       /\ told[q] \in [Admin!Shows[q] -> Nat]
       /\ \A t \in Admin!Shows[q] : told[q][t] <= version[t]
       /\ Sound(cache[q], RecentTables(q, told[q]))

AdminInv == AdminFormInv /\ AdminCallInv /\ AdminCacheInv

LEMMA AdminShowsTables == \A q \in Admin!Queries : Admin!Shows[q] \subseteq Admin!Tables
BY DEF Admin!Queries, Admin!Shows, Admin!Tables

\* Each call refreshes every query that promises what the call writes, but for the
\* pages the catalog leaves unaware.
Refreshes(c) ==
  \A q \in Admin!Queries, t \in c.writes :
    <<q, t>> \in Admin!Promised /\ <<c.page, q>> \notin Admin!Unaware => q \in c.refreshes

LEMMA PromisedAreRefreshed == \A c \in AdminChanges : Refreshes(c)
<1>1. Refreshes(Admin!SavePump) /\ \A c \in Admin!ChangePumps : Refreshes(c)
  BY DEF Refreshes, Admin!SavePump, Admin!ChangePumps, Admin!Change,
     Admin!PumpsInvalidate, Admin!Promised
<1>2. Refreshes(Admin!SaveTank) /\ Refreshes(Admin!SwitchTank)
  BY DEF Refreshes, Admin!SaveTank, Admin!SwitchTank, Admin!Change, Admin!TanksInvalidate,
     Admin!Promised
<1>3. Refreshes(Admin!AddNozzle) /\ Refreshes(Admin!ChangeNozzle)
  BY DEF Refreshes, Admin!AddNozzle, Admin!ChangeNozzle, Admin!Change, Admin!Promised
<1>4. Refreshes(Admin!SaveConnection) /\ Refreshes(Admin!ChangeConnection)
  BY DEF Refreshes, Admin!SaveConnection, Admin!ChangeConnection, Admin!Change,
     Admin!ConnectionsInvalidate, Admin!Promised
<1>5. Refreshes(Admin!SaveStation) /\ Refreshes(Admin!AddDevice) /\ Refreshes(Admin!SwitchDevice)
  BY DEF Refreshes, Admin!SaveStation, Admin!AddDevice, Admin!SwitchDevice, Admin!Change,
     Admin!Promised
<1>6. Refreshes(Admin!SaveCatalogTank) /\ Refreshes(Admin!SwitchCatalogTank)
  BY DEF Refreshes, Admin!SaveCatalogTank, Admin!SwitchCatalogTank, Admin!Change,
     Admin!Promised, Admin!Unaware
<1>7. Refreshes(Admin!CreateUser) /\ Refreshes(Admin!AssignRole)
        /\ Refreshes(Admin!AssignStations)
  BY DEF Refreshes, Admin!CreateUser, Admin!AssignRole, Admin!AssignStations,
     Admin!Change, Admin!Promised
<1>. QED
  BY <1>1, <1>2, <1>3, <1>4, <1>5, <1>6, <1>7 DEF AdminChanges, Admin!RowCalls

-----------------------------------------------------------------------------
(* Calls and forms: the queries are as they were.                          *)

LEMMA AdminSendStep ==
  ASSUME AdminInv, NEW change \in AdminChanges, NEW saving \in BOOLEAN, NEW id \in AdminIds,
         Admin!Send(change, saving, id, id)
  PROVE  AdminInv'
<1>. DEFINE c == [n |-> changes, of |-> change, saves |-> saving, id |-> id, from |-> id,
                  done |-> FALSE, made |-> version]
<1>1. c \in AdminCalls /\ c.id = c.from /\ c.made = version
  BY DEF AdminInv, AdminFormInv, AdminCallInv, AdminCalls
<1>2. calls' = calls \cup {c} /\ changes' = changes + 1
        /\ UNCHANGED <<editor, version, cache, told>>
  BY DEF Admin!Send
<1>. HIDE DEF c
<1>3. \A t \in Admin!Tables : version[t] <= version[t]
  BY DEF AdminInv, AdminCallInv
<1>4. AdminCallInv'
  BY <1>1, <1>2, <1>3 DEF AdminInv, AdminCallInv, AdminCalls
<1>5. AdminFormInv'
  BY <1>2 DEF AdminInv, AdminFormInv
<1>6. AdminCacheInv'
  BY <1>2 DEF AdminInv, AdminCacheInv, RecentTables
<1>. QED
  BY <1>4, <1>5, <1>6 DEF AdminInv

LEMMA AdminSendSteps ==
  ASSUME AdminInv,
         \/ \E c \in Admin!RowCalls : Admin!Press(c)
         \/ Admin!Save(Admin!SavePump) \/ Admin!Save(Admin!SaveTank)
         \/ Admin!Save(Admin!SaveCatalogTank) \/ Admin!SaveStations
  PROVE  AdminInv'
<1>1. None \in AdminIds /\ (editor.shown => editor.editing \in AdminIds /\ editor.editing = editor.from)
  BY DEF AdminInv, AdminFormInv, AdminIds
<1>2. ASSUME NEW c \in Admin!RowCalls, Admin!Press(c) PROVE AdminInv'
  BY <1>1, <1>2, AdminSendStep DEF Admin!Press, AdminChanges
<1>3. ASSUME NEW c \in AdminChanges, Admin!Save(c) PROVE AdminInv'
  BY <1>1, <1>3, AdminSendStep DEF Admin!Save
<1>4. CASE Admin!SaveStations
  BY <1>1, <1>4, AdminSendStep DEF Admin!SaveStations, AdminChanges
<1>. QED
  BY <1>2, <1>3, <1>4 DEF AdminChanges

LEMMA AdminFormSteps ==
  ASSUME AdminInv,
         \/ Admin!AddPump \/ Admin!AddTank \/ Admin!AddCatalogTank \/ Admin!Cancel
         \/ \E p \in Pumps : Admin!EditPump(p)
         \/ \E t \in Tanks : Admin!EditTank(t) \/ Admin!EditCatalogTank(t)
         \/ \E u \in Users : Admin!ChooseStations(u)
  PROVE  AdminInv'
<1>1. UNCHANGED <<calls, version, cache, told, changes>>
  BY DEF Admin!AddPump, Admin!AddTank, Admin!AddCatalogTank, Admin!Cancel, Admin!EditPump,
     Admin!EditTank, Admin!EditCatalogTank, Admin!ChooseStations, Admin!ShowForm
<1>2. AdminFormInv'
  <2>1. CASE Admin!Cancel
    BY <1>1, <2>1 DEF Admin!Cancel, AdminInv, AdminFormInv, AdminIds
  <2>2. ASSUME NEW id \in AdminIds, Admin!ShowForm(id, id) PROVE AdminFormInv'
    BY <1>1, <2>2 DEF Admin!ShowForm, AdminInv, AdminFormInv
  <2>. QED
    BY <2>1, <2>2 DEF Admin!AddPump, Admin!AddTank, Admin!AddCatalogTank, Admin!EditPump,
       Admin!EditTank, Admin!EditCatalogTank, Admin!ChooseStations, AdminIds
<1>. QED
  BY <1>1, <1>2 DEF AdminInv, AdminCallInv, AdminCacheInv, RecentTables

LEMMA AdminHandleStep ==
  ASSUME AdminInv, NEW c \in calls, Admin!Handle(c)
  PROVE  AdminInv'
<1>. DEFINE d == [c EXCEPT !.done = TRUE, !.made = version']
<1>1. version \in [Admin!Tables -> Nat] /\ c \in AdminCalls /\ c.id = c.from
  BY DEF AdminInv, AdminCallInv
<1>2. version' \in [Admin!Tables -> Nat] /\ \A t \in Admin!Tables : version[t] <= version'[t]
  <2>1. version' = [t \in Admin!Tables |-> IF t \in c.of.writes THEN version[t] + 1 ELSE version[t]]
    BY DEF Admin!Handle
  <2>2. \A t \in Admin!Tables : version[t] \in Nat
    BY <1>1
  <2>. QED
    BY <2>1, <2>2
<1>3. d \in AdminCalls /\ d.id = d.from /\ d.made = version'
  BY <1>1, <1>2 DEF AdminCalls
<1>4. calls' = (calls \ {c}) \cup {d} /\ UNCHANGED <<editor, cache, told, changes>>
  BY DEF Admin!Handle
<1>. HIDE DEF d
<1>5. AdminCallInv'
  <2>1. \A t \in Admin!Tables : version'[t] <= version'[t]
    BY <1>2
  <2>2. ASSUME NEW x \in calls, NEW t \in Admin!Tables PROVE x.made[t] <= version'[t]
    <3>1. x.made[t] \in Nat /\ version[t] \in Nat /\ version'[t] \in Nat
            /\ x.made[t] <= version[t]
      BY <1>2 DEF AdminInv, AdminCallInv, AdminCalls
    <3>. QED
      BY <1>2, <3>1
  <2>. QED
    BY <1>2, <1>3, <1>4, <2>1, <2>2 DEF AdminInv, AdminCallInv, AdminCalls
<1>6. AdminCacheInv'
  <2>1. ASSUME NEW q \in Admin!Queries, NEW t \in Admin!Shows[q]
        PROVE  told[q][t] <= version'[t]
    <3>1. t \in Admin!Tables /\ told[q][t] \in Nat /\ told[q][t] <= version[t]
      BY AdminShowsTables DEF AdminInv, AdminCacheInv
    <3>. QED
      BY <1>1, <1>2, <3>1
  <2>. QED
    BY <1>4, <2>1 DEF AdminInv, AdminCacheInv, RecentTables
<1>. QED
  BY <1>4, <1>5, <1>6 DEF AdminInv, AdminFormInv

LEMMA AdminRefuseStep ==
  ASSUME AdminInv, NEW c \in calls, Admin!Refuse(c)
  PROVE  AdminInv'
BY DEF Admin!Refuse, AdminInv, AdminFormInv, AdminCallInv, AdminCacheInv, RecentTables

-----------------------------------------------------------------------------
(* The answer of a call, and the queries.                                  *)

LEMMA AdminSucceedStep ==
  ASSUME AdminInv, NEW c \in calls, Admin!Succeed(c)
  PROVE  AdminInv'
<1>1. c \in AdminCalls /\ Refreshes(c.of) /\ version \in [Admin!Tables -> Nat]
      /\ \A t \in Admin!Tables : c.made[t] \in Nat /\ c.made[t] <= version[t]
  BY PromisedAreRefreshed DEF AdminInv, AdminCallInv, AdminCalls
<1>2. calls' = calls \ {c} /\ UNCHANGED <<version, changes>>
        /\ (editor' = Admin!NoForm \/ editor' = editor)
  BY AdminCache DEF Admin!Succeed
<1>3. AdminFormInv' /\ AdminCallInv'
  <2>1. Admin!NoForm \in [shown : BOOLEAN, editing : AdminIds, from : AdminIds]
          /\ ~Admin!NoForm.shown
    BY DEF Admin!NoForm, AdminIds
  <2>2. AdminFormInv'
    BY <1>2, <2>1 DEF AdminInv, AdminFormInv
  <2>3. AdminCallInv'
    BY <1>2 DEF AdminInv, AdminCallInv
  <2>. QED
    BY <2>2, <2>3
<1>4. DOMAIN cache' = Admin!Queries
  BY AdminCache DEF Admin!Succeed
<1>5. ASSUME NEW q \in Admin!Queries
      PROVE  /\ told'[q] \in [Admin!Shows[q] -> Nat]
             /\ \A t \in Admin!Shows[q] : told'[q][t] <= version[t]
             /\ Sound(cache'[q], RecentTables(q, told'[q]))
  <2>. DEFINE mounted == q \in Admin!MountedOn[at]
              Counts(t) == /\ t \in c.of.writes /\ <<q, t>> \in Admin!Promised
                           /\ <<c.of.page, q>> \notin Admin!Unaware
                           /\ Cache!Heeds(cache[q], mounted)
  <2>1. /\ told[q] \in [Admin!Shows[q] -> Nat] /\ Admin!Shows[q] \subseteq Admin!Tables
        /\ \A t \in Admin!Shows[q] : told[q][t] <= version[t]
        /\ Sound(cache[q], RecentTables(q, told[q]))
    BY AdminShowsTables DEF AdminInv, AdminCacheInv
  <2>2. told'[q] = [t \in Admin!Shows[q] |->
                      IF Counts(t) THEN Admin!Later(told[q][t], c.made[t]) ELSE told[q][t]]
    BY AdminCache DEF Admin!Succeed
  <2>3. cache'[q] = IF q \in c.of.refreshes THEN Cache!Invalidate(cache[q], mounted) ELSE cache[q]
    BY AdminCache DEF Admin!Succeed
  <2>4. mounted \in BOOLEAN
    OBVIOUS
  <2>5. told'[q] \in [Admin!Shows[q] -> Nat]
          /\ \A t \in Admin!Shows[q] : told'[q][t] <= version[t]
    BY <1>1, <2>1, <2>2 DEF Admin!Later
  <2>6. CASE \E t \in Admin!Shows[q] : Counts(t)
    <3>1. q \in c.of.refreshes /\ Cache!Heeds(cache[q], mounted)
      BY <1>1, <2>6 DEF Refreshes
    <3>. HIDE DEF mounted
    <3>2. Sound(Cache!Invalidate(cache[q], mounted), RecentTables(q, told'[q]))
      BY <2>1, <2>4, <3>1, HeededSound
    <3>. QED
      BY <2>3, <2>5, <3>1, <3>2
  <2>7. CASE \A t \in Admin!Shows[q] : ~Counts(t)
    <3>1. told'[q] = told[q]
      <4>1. told'[q] = [t \in Admin!Shows[q] |-> told[q][t]]
        BY <2>2, <2>7
      <4>. QED
        BY <2>1, <4>1
    <3>. HIDE DEF mounted
    <3>2. Sound(Cache!Invalidate(cache[q], mounted), RecentTables(q, told[q]))
      BY <2>1, <2>4, InvalidateSound
    <3>. QED
      BY <2>1, <2>3, <2>5, <3>1, <3>2
  <2>. QED
    BY <2>6, <2>7
<1>6. AdminCacheInv'
  BY <1>2, <1>4, <1>5 DEF AdminCacheInv, RecentTables
<1>. QED
  BY <1>3, <1>6 DEF AdminInv

\* Visiting a page ages one of its queries and mounts them.
LEMMA AdminVisitStep ==
  ASSUME AdminInv, NEW p \in Admin!Pages, Admin!Visit(p)
  PROVE  AdminInv'
<1>1. UNCHANGED <<version, told, changes>> /\ editor' = Admin!NoForm
      /\ calls' = {[c EXCEPT !.saves = FALSE] : c \in calls}
  BY AdminCache DEF Admin!Visit
<1>2. AdminFormInv'
  BY <1>1 DEF AdminInv, AdminFormInv, Admin!NoForm, AdminIds
<1>3. AdminCallInv'
  <2>1. ASSUME NEW c \in calls
        PROVE  LET d == [c EXCEPT !.saves = FALSE] IN
               d \in AdminCalls /\ d.id = d.from /\ d.made = c.made
    BY DEF AdminInv, AdminCallInv, AdminCalls
  <2>2. ASSUME NEW d \in calls'
        PROVE  d \in AdminCalls /\ d.id = d.from
                 /\ \A t \in Admin!Tables : d.made[t] <= version[t]
    <3>1. PICK c \in calls : d = [c EXCEPT !.saves = FALSE]
      BY <1>1
    <3>2. \A t \in Admin!Tables : c.made[t] <= version[t]
      BY DEF AdminInv, AdminCallInv
    <3>. QED
      BY <2>1, <3>1, <3>2
  <2>. QED
    BY <1>1, <2>2 DEF AdminInv, AdminCallInv
<1>4. PICK oldest \in {None} \cup Admin!MountedOn[p] :
        cache' = [q \in Admin!Queries |->
                    LET e == IF q = oldest THEN Cache!Age(cache[q]) ELSE cache[q]
                    IN  IF q \in Admin!MountedOn[p] THEN Cache!Mount(e) ELSE e]
  BY AdminCache DEF Admin!Visit
<1>5. ASSUME NEW q \in Admin!Queries
      PROVE  Sound(cache'[q], RecentTables(q, told[q]))
  <2>. DEFINE e == IF q = oldest THEN Cache!Age(cache[q]) ELSE cache[q]
  <2>1. Sound(cache[q], RecentTables(q, told[q]))
    BY DEF AdminInv, AdminCacheInv
  <2>2. Sound(e, RecentTables(q, told[q]))
    BY <2>1, AgeSound
  <2>3. cache'[q] = IF q \in Admin!MountedOn[p] THEN Cache!Mount(e) ELSE e
    BY <1>4
  <2>. HIDE DEF e
  <2>. QED
    BY <2>2, <2>3, MountSound
<1>6. AdminCacheInv'
  BY <1>1, <1>4, <1>5 DEF AdminInv, AdminCacheInv, RecentTables
<1>. QED
  BY <1>2, <1>3, <1>6 DEF AdminInv

LEMMA AdminQuerySteps ==
  ASSUME AdminInv, NEW q \in Admin!Queries, Admin!AnswerQuery(q) \/ Admin!SettleQuery(q)
  PROVE  AdminInv'
<1>. DEFINE shown == [t \in Admin!Shows[q] |-> version[t]]
<1>1. UNCHANGED <<editor, calls, version, told, changes>>
  BY AdminCache DEF Admin!AnswerQuery, Admin!SettleQuery
<1>2. shown \in RecentTables(q, told[q]) /\ Sound(cache[q], RecentTables(q, told[q]))
  BY AdminShowsTables DEF AdminInv, AdminCallInv, AdminCacheInv, RecentTables
<1>. HIDE DEF shown
<1>3. PICK e : cache' = [cache EXCEPT ![q] = e] /\ Sound(e, RecentTables(q, told[q]))
  <2>1. CASE Admin!AnswerQuery(q)
    <3>1. cache' = [cache EXCEPT ![q] = Cache!Answer(cache[q], shown)] /\ cache[q].fetch = "asked"
      BY <2>1, AdminCache DEF Admin!AnswerQuery, shown
    <3>. QED
      BY <1>2, <3>1, AnswerSound
  <2>2. CASE Admin!SettleQuery(q)
    BY <1>2, <2>2, SettleSound, AdminCache DEF Admin!SettleQuery
  <2>. QED
    BY <2>1, <2>2
<1>4. DOMAIN cache' = Admin!Queries /\ \A r \in Admin!Queries : cache'[r] = IF r = q THEN e ELSE cache[r]
  BY <1>3 DEF AdminInv, AdminCacheInv
<1>5. AdminCacheInv'
  BY <1>1, <1>3, <1>4 DEF AdminInv, AdminCacheInv, RecentTables
<1>. QED
  BY <1>1, <1>5 DEF AdminInv, AdminFormInv, AdminCallInv

LEMMA AdminNext == AdminInv /\ [Admin!Next]_(Admin!vars) => AdminInv'
<1>. SUFFICES ASSUME AdminInv, [Admin!Next]_(Admin!vars) PROVE AdminInv'
  OBVIOUS
<1>1. CASE Admin!Next
  BY <1>1, AdminSendSteps, AdminFormSteps, AdminHandleStep, AdminRefuseStep,
     AdminSucceedStep, AdminVisitStep, AdminQuerySteps DEF Admin!Next
<1>2. CASE UNCHANGED Admin!vars
  BY <1>2 DEF Admin!vars, AdminInv, AdminFormInv, AdminCallInv, AdminCacheInv,
     RecentTables
<1>. QED
  BY <1>1, <1>2

LEMMA AdminInit == Admin!Init => AdminInv
<1>. SUFFICES ASSUME Admin!Init PROVE AdminInv
  OBVIOUS
<1>1. AdminFormInv /\ AdminCallInv
  BY AdminCache DEF Admin!Init, AdminFormInv, AdminCallInv, Admin!NoForm, AdminIds
<1>2. PICK q0 \in Admin!MountedOn[at], how \in {"fresh", "aged", "new"} :
        cache = [q \in Admin!Queries |->
                   IF q = q0 /\ how = "new" THEN Cache!Mount(Cache!Entry(None))
                   ELSE LET e == Cache!Entry([t \in Admin!Shows[q] |-> 0])
                        IN  IF q = q0 /\ how = "aged" THEN Cache!Mount(Cache!Age(e)) ELSE e]
  BY AdminCache DEF Admin!Init
<1>3. ASSUME NEW q \in Admin!Queries
      PROVE  /\ told[q] = [t \in Admin!Shows[q] |-> 0] /\ told[q] \in [Admin!Shows[q] -> Nat]
             /\ Sound(cache[q], RecentTables(q, told[q]))
  <2>. DEFINE zero == [t \in Admin!Shows[q] |-> 0]
  <2>1. told[q] = zero /\ zero \in RecentTables(q, zero)
    BY AdminCache DEF Admin!Init, RecentTables
  <2>2. /\ Sound(Cache!Entry(None), RecentTables(q, zero))
        /\ Sound(Cache!Entry(zero), RecentTables(q, zero))
    BY <2>1, EntrySound
  <2>3. Sound(Cache!Mount(Cache!Entry(None)), RecentTables(q, zero))
          /\ Sound(Cache!Mount(Cache!Age(Cache!Entry(zero))), RecentTables(q, zero))
    BY <2>2, MountSound, AgeSound
  <2>4. cache[q] \in {Cache!Mount(Cache!Entry(None)), Cache!Mount(Cache!Age(Cache!Entry(zero))), Cache!Entry(zero)}
    BY <1>2
  <2>. QED
    BY <2>1, <2>2, <2>3, <2>4 DEF RecentTables
<1>4. AdminCacheInv
  BY <1>2, <1>3, AdminShowsTables, AdminCache DEF Admin!Init, AdminCacheInv
<1>. QED
  BY <1>1, <1>4 DEF AdminInv

LEMMA AdminInvariance == Admin!Spec => []AdminInv
BY AdminInit, AdminNext, PTL DEF Admin!Spec

\* A form saves the item it was filled from (AdminStationPumpsPage.tsx and the others).
THEOREM FormsCorrect == Admin!Spec => []Admin!FormSavesItsOwn
<1>1. AdminInv => Admin!FormSavesItsOwn
  BY DEF AdminInv, AdminCallInv, Admin!FormSavesItsOwn
<1>. QED
  BY <1>1, AdminInvariance, PTL

\* The queries show the administrator's own changes (AdminStation*.tsx, UsersPage.tsx).
THEOREM OwnChangesCorrect == Admin!Spec => []Admin!OwnChangesAreShown
<1>1. AdminInv => Admin!OwnChangesAreShown
  BY DEF AdminInv, AdminCacheInv, Sound, RecentTables, Admin!OwnChangesAreShown
<1>. QED
  BY <1>1, AdminInvariance, PTL

-----------------------------------------------------------------------------
(***************************************************************************)
(* Dashboards and live pages: a query shows what the page was told.        *)
(***************************************************************************)

\* The page and the lemmas speak of the same cache entries.
LEMMA LiveCache ==
  /\ \A e : Live!Mount(e) = Cache!Mount(e) /\ Live!Age(e) = Cache!Age(e)
           /\ Live!Settle(e) = Cache!Settle(e) /\ Live!Entry(e) = Cache!Entry(e)
           /\ Live!Fail(e) = Cache!Fail(e)
  /\ \A e, shown : Live!Answer(e, shown) = Cache!Answer(e, shown)
  /\ \A e, mounted : Live!Invalidate(e, mounted) = Cache!Invalidate(e, mounted)
  /\ \A e, mounted : Live!Heeds(e, mounted) = Cache!Heeds(e, mounted)
BY DEF Live!Mount, Cache!Mount, Live!Age, Cache!Age, Live!Settle, Cache!Settle, Live!Entry,
   Cache!Entry, Live!Fail, Cache!Fail, Live!Invalidate, Cache!Invalidate, Live!Heeds,
   Cache!Heeds, Live!Answer, Cache!Answer, Live!Refetched, Cache!Refetched

\* Events and calls carry versions that were reached; an event is of a sale or a
\* status, a call of the settings writes what the settings show.
Versions == [Live!Tables -> Nat]
Events   == [of : {"sale", "status"}, as : Versions]
LiveCalls == [n : Nat, writes : {"station", "device", "pump"}, as : {None} \cup Versions]
Below(v, w) == \A t \in Live!Tables : v[t] <= w[t]

LiveServerInv ==
  /\ changes \in Nat
  /\ version \in Versions
  /\ wire \subseteq Events /\ \A m \in wire : Below(m.as, version)
  /\ calls \subseteq LiveCalls /\ \A c \in calls :
       c.as # None => c.as \in Versions /\ Below(c.as, version)

\* What the query followed may show: versions no older than those it must show.
RecentOfWatched(v) ==
  {d \in [Live!Shows[watched] -> Nat] : \A t \in Live!Shows[watched] : v[t] <= d[t]}

LiveQueryInv ==
  /\ watched \in Live!Queries
  /\ told \in [Live!Shows[watched] -> Nat]
  /\ \A t \in Live!Shows[watched] : told[t] <= version[t]
  /\ Sound(entry, RecentOfWatched(told))

LiveInv == LiveServerInv /\ LiveQueryInv

LEMMA LiveShowsTables == \A q \in Live!Queries : Live!Shows[q] \subseteq Live!Tables
BY DEF Live!Queries, Live!Tables, Live!Range

LEMMA MountedQueries == \A p \in Live!Pages : Live!MountedOn[p] \subseteq Live!Queries
BY DEF Live!Pages, Live!MountedOn, Live!Queries, Live!Shows, Live!OverviewPage,
   Live!ExecutivePage, Live!StationsPage, Live!StationDetail, Live!TransactionsPage,
   Live!DevicesPage, Live!MqttPage, Live!SettingsPage

\* An event, or the answer of a call, invalidates every query that promises what it
\* is about.
LEMMA PromisedAreHeard ==
  /\ \A q, t : t \in {"sale", "status"} /\ <<q, t>> \in Live!Promised => q \in Live!On(t)
  /\ \A q, t : t \in {"station", "device", "pump"} /\ <<q, t>> \in Live!Promised
                 => q \in Live!invalidate
BY DEF Live!Promised, Live!On, Live!invalidate, Live!invalidateTx, Live!onStationStatus,
   Live!Dashboard, Live!Transactions

-----------------------------------------------------------------------------
(* What the page hears.                                                    *)

LEMMA HearStep ==
  ASSUME LiveInv, NEW t0, NEW v \in Versions, NEW invalidated, Below(v, version),
         Live!Hear({t0}, v, invalidated), <<watched, t0>> \in Live!Promised
               => watched \in invalidated,
         UNCHANGED version
  PROVE  LiveQueryInv'
<1>. DEFINE shows == Live!Shows[watched]
            mounted == Live!Mounted
            Counts(t) == t = t0 /\ <<watched, t>> \in Live!Promised /\ Cache!Heeds(entry, mounted)
<1>1. /\ told \in [shows -> Nat] /\ shows \subseteq Live!Tables
      /\ \A t \in shows : told[t] <= version[t]
      /\ Sound(entry, RecentOfWatched(told)) /\ version \in Versions
  BY LiveShowsTables DEF LiveInv, LiveServerInv, LiveQueryInv
<1>2. /\ told' = [t \in shows |-> IF Counts(t) THEN Live!Later(told[t], v[t]) ELSE told[t]]
      /\ entry' = IF watched \in invalidated THEN Cache!Invalidate(entry, mounted) ELSE entry
      /\ watched' = watched
  BY LiveCache DEF Live!Hear
<1>3. mounted \in BOOLEAN
  BY DEF Live!Mounted
<1>4. told' \in [shows -> Nat] /\ \A t \in shows : told'[t] <= version[t]
  <2>1. \A t \in shows : told[t] \in Nat /\ v[t] \in Nat /\ v[t] <= version[t]
    BY <1>1 DEF Below, Versions
  <2>. HIDE DEF Counts, shows
  <2>. QED
    BY <1>1, <1>2, <2>1 DEF Live!Later
<1>. HIDE DEF mounted
<1>5. Sound(entry', RecentOfWatched(told'))
  <2>1. CASE \E t \in shows : Counts(t)
    <3>1. Cache!Heeds(entry, mounted) /\ watched \in invalidated
      BY <2>1
    <3>2. Sound(Cache!Invalidate(entry, mounted), RecentOfWatched(told'))
      BY <1>1, <1>3, <3>1, HeededSound
    <3>. QED
      BY <1>2, <3>1, <3>2
  <2>2. CASE \A t \in shows : ~Counts(t)
    <3>1. told' = told
      <4>1. told' = [t \in shows |-> told[t]]
        BY <1>2, <2>2
      <4>. QED
        BY <1>1, <4>1
    <3>2. Sound(Cache!Invalidate(entry, mounted), RecentOfWatched(told))
      BY <1>1, <1>3, InvalidateSound
    <3>. QED
      BY <1>1, <1>2, <3>1, <3>2
  <2>. QED
    BY <2>1, <2>2
<1>. QED
  BY <1>1, <1>2, <1>4, <1>5 DEF LiveInv, LiveQueryInv, RecentOfWatched

LEMMA HearSteps ==
  ASSUME LiveInv, \/ \E m \in wire : Live!Deliver(m)
                  \/ \E c \in calls : Live!Succeed(c)
  PROVE  LiveInv'
<1>1. ASSUME NEW m \in wire, Live!Deliver(m) PROVE LiveInv'
  <2>1. m \in Events /\ m.as \in Versions /\ Below(m.as, version) /\ m.of \in {"sale", "status"}
    BY DEF LiveInv, LiveServerInv, Events
  <2>2. /\ Live!Hear({m.of}, m.as, Live!On(m.of)) /\ wire' = wire \ {m}
        /\ UNCHANGED <<version, calls, changes>>
    BY <1>1 DEF Live!Deliver, Live!bounds
  <2>3. LiveServerInv'
    BY <2>2 DEF LiveInv, LiveServerInv, Below
  <2>4. LiveQueryInv'
    BY <2>1, <2>2, HearStep, PromisedAreHeard
  <2>. QED
    BY <2>3, <2>4 DEF LiveInv
<1>2. ASSUME NEW c \in calls, Live!Succeed(c) PROVE LiveInv'
  <2>1. /\ Live!Hear({c.writes}, c.as, Live!invalidate) /\ calls' = calls \ {c}
        /\ UNCHANGED <<version, wire, changes>> /\ c.as # None
    BY <1>2 DEF Live!Succeed, Live!bounds
  <2>2. c \in LiveCalls /\ c.as \in Versions /\ Below(c.as, version)
          /\ c.writes \in {"station", "device", "pump"}
    BY <2>1 DEF LiveInv, LiveServerInv, LiveCalls
  <2>3. LiveServerInv'
    BY <2>1 DEF LiveInv, LiveServerInv, Below
  <2>4. LiveQueryInv'
    BY <2>1, <2>2, HearStep, PromisedAreHeard
  <2>. QED
    BY <2>3, <2>4 DEF LiveInv
<1>. QED
  BY <1>1, <1>2

-----------------------------------------------------------------------------
(* Changes on the server, calls sent and refused, and the connection.      *)

\* The query is as it was; versions only grow.
LEMMA BumpStep ==
  ASSUME LiveInv, NEW t0, version' = Live!Bump(t0)
  PROVE  /\ version' \in Versions
         /\ \A v \in Versions : Below(v, version) => Below(v, version')
         /\ Below(version', version')
         /\ UNCHANGED <<watched, entry, told>> => LiveQueryInv'
<1>1. version \in Versions /\ version' \in Versions
        /\ \A t \in Live!Tables : version[t] <= version'[t]
  <2>1. version \in Versions /\ \A t \in Live!Tables : version[t] \in Nat
    BY DEF LiveInv, LiveServerInv, Versions
  <2>2. t0 \in Live!Tables => version[t0] + 1 \in Nat /\ version[t0] <= version[t0] + 1
    BY <2>1
  <2>. DEFINE next == version[t0] + 1
  <2>3. version' = [version EXCEPT ![t0] = next]
    BY DEF Live!Bump
  <2>4. t0 \in Live!Tables => next \in Nat /\ version[t0] <= next
    BY <2>2
  <2>5. \A t \in Live!Tables : version[t] <= version[t]
    BY <2>1
  <2>. HIDE DEF next
  <2>6. version' \in Versions
    BY <2>1, <2>3, <2>4 DEF Versions
  <2>7. \A t \in Live!Tables : version'[t] = IF t = t0 THEN next ELSE version[t]
    BY <2>1, <2>3 DEF Versions
  <2>. QED
    BY <2>1, <2>4, <2>5, <2>6, <2>7
<1>2. \A t \in Live!Tables : version[t] \in Nat /\ version'[t] \in Nat
  BY <1>1 DEF Versions
<1>3. ASSUME NEW v \in Versions, Below(v, version) PROVE Below(v, version')
  <2>1. \A t \in Live!Tables : v[t] \in Nat /\ v[t] <= version[t]
    BY <1>3 DEF Versions, Below
  <2>2. \A t \in Live!Tables : v[t] <= version'[t]
    BY <1>1, <1>2, <2>1
  <2>. QED
    BY <2>2 DEF Below
<1>4. Below(version', version')
  BY <1>2 DEF Below
<1>5. ASSUME UNCHANGED <<watched, entry, told>> PROVE LiveQueryInv'
  <2>1. /\ told \in [Live!Shows[watched] -> Nat] /\ Live!Shows[watched] \subseteq Live!Tables
        /\ \A t \in Live!Shows[watched] : told[t] <= version[t]
    BY LiveShowsTables DEF LiveInv, LiveQueryInv
  <2>2. \A t \in Live!Shows[watched] : told[t] <= version'[t]
    BY <1>1, <1>2, <2>1
  <2>. QED
    BY <1>5, <2>2 DEF LiveInv, LiveQueryInv, RecentOfWatched
<1>. QED
  BY <1>1, <1>3, <1>4, <1>5

LEMMA LiveServerSteps ==
  ASSUME LiveInv, \/ \E t \in Live!Tables, announced \in BOOLEAN : Live!Commit(t, announced)
                  \/ \E c \in calls : Live!Handle(c)
  PROVE  LiveInv'
<1>1. ASSUME NEW t \in Live!Tables, NEW announced \in BOOLEAN,
             Live!Commit(t, announced) PROVE LiveInv'
  <2>. DEFINE m == [of |-> t, as |-> version']
  <2>1. /\ version' = Live!Bump(t) /\ changes' = changes + 1
        /\ UNCHANGED <<watched, entry, told, calls>>
        /\ announced => t \in {"sale", "status"}
        /\ wire' = wire \/ (announced /\ wire' = wire \cup {m})
    BY <1>1 DEF Live!Commit
  <2>2. /\ version' \in Versions /\ Below(version', version') /\ LiveQueryInv'
        /\ \A v \in Versions : Below(v, version) => Below(v, version')
    BY <2>1, BumpStep
  <2>3. announced => m \in Events /\ m.as = version'
    BY <2>1, <2>2 DEF Events
  <2>. HIDE DEF m
  <2>4. /\ wire \subseteq Events /\ \A x \in wire : x.as \in Versions /\ Below(x.as, version)
        /\ calls \subseteq LiveCalls
        /\ \A c \in calls : c.as # None => c.as \in Versions /\ Below(c.as, version)
    BY DEF LiveInv, LiveServerInv, Events
  <2>5. wire' \subseteq Events /\ \A x \in wire' : Below(x.as, version')
    BY <2>1, <2>2, <2>3, <2>4
  <2>6. \A c \in calls' : c.as # None => c.as \in Versions /\ Below(c.as, version')
    BY <2>1, <2>2, <2>4
  <2>. QED
    BY <2>1, <2>2, <2>4, <2>5, <2>6 DEF LiveInv, LiveServerInv
<1>2. ASSUME NEW c \in calls, Live!Handle(c) PROVE LiveInv'
  <2>. DEFINE d == [c EXCEPT !.as = version']
  <2>1. /\ version' = Live!Bump(c.writes) /\ calls' = (calls \ {c}) \cup {d}
        /\ UNCHANGED <<watched, entry, told, wire, changes>>
    BY <1>2 DEF Live!Handle, Live!bounds
  <2>2. /\ version' \in Versions /\ Below(version', version') /\ LiveQueryInv'
        /\ \A v \in Versions : Below(v, version) => Below(v, version')
    BY <2>1, BumpStep
  <2>3. d \in LiveCalls /\ d.as = version'
    BY <2>2 DEF LiveInv, LiveServerInv, LiveCalls
  <2>. HIDE DEF d
  <2>4. /\ wire \subseteq Events /\ \A x \in wire : x.as \in Versions /\ Below(x.as, version)
        /\ calls \subseteq LiveCalls
        /\ \A x \in calls : x.as # None => x.as \in Versions /\ Below(x.as, version)
    BY DEF LiveInv, LiveServerInv, Events
  <2>5. \A x \in wire' : Below(x.as, version')
    BY <2>1, <2>2, <2>4
  <2>6. calls' \subseteq LiveCalls /\ \A x \in calls' : x.as # None
          => x.as \in Versions /\ Below(x.as, version')
    BY <2>1, <2>2, <2>3, <2>4
  <2>. QED
    BY <2>1, <2>2, <2>4, <2>5, <2>6 DEF LiveInv, LiveServerInv
<1>. QED
  BY <1>1, <1>2

LEMMA LiveQuietSteps ==
  ASSUME LiveInv, \/ Live!Break \/ Live!Connect
                  \/ Live!addStation \/ Live!addDevice \/ Live!addPump
                  \/ \E c \in calls : Live!Refuse(c)
  PROVE  LiveInv'
<1>1. /\ UNCHANGED <<version, watched, entry, told>> /\ (wire' = wire \/ wire' = {})
      /\ changes' = changes \/ changes' = changes + 1
  BY DEF Live!Break, Live!Connect, Live!addStation, Live!addDevice, Live!addPump, Live!Send,
     Live!Refuse, Live!bounds
<1>2. LiveQueryInv'
  BY <1>1 DEF LiveInv, LiveQueryInv, RecentOfWatched
<1>3. calls' \subseteq LiveCalls /\ \A c \in calls' : c.as # None => c \in calls
  <2>1. ASSUME NEW t \in {"station", "device", "pump"}, Live!Send(t)
        PROVE  calls' \subseteq LiveCalls /\ \A c \in calls' : c.as # None => c \in calls
    <3>. DEFINE new == [n |-> changes, writes |-> t, as |-> None]
    <3>1. new \in LiveCalls /\ new.as = None
      BY DEF LiveInv, LiveServerInv, LiveCalls
    <3>2. calls' = calls \cup {new}
      BY <2>1 DEF Live!Send
    <3>. HIDE DEF new
    <3>. QED
      BY <3>1, <3>2 DEF LiveInv, LiveServerInv
  <2>2. CASE calls' \subseteq calls
    BY <2>2 DEF LiveInv, LiveServerInv
  <2>. QED
    BY <2>1, <2>2 DEF Live!Break, Live!Connect, Live!addStation, Live!addDevice, Live!addPump,
       Live!Refuse
<1>4. LiveServerInv'
  BY <1>1, <1>3 DEF LiveInv, LiveServerInv, Below
<1>. QED
  BY <1>2, <1>4 DEF LiveInv

-----------------------------------------------------------------------------
(* The query that is followed.                                             *)

LEMMA LiveEntrySteps ==
  ASSUME LiveInv, \/ \E p \in Live!Pages : Live!Visit(p)
                  \/ Live!Poll \/ Live!AnswerQuery \/ Live!SettleQuery \/ Live!FailQuery
  PROVE  LiveInv'
<1>. DEFINE Good == RecentOfWatched(told)
            shown == [t \in Live!Shows[watched] |-> version[t]]
<1>1. UNCHANGED <<version, watched, told, calls, wire, changes>>
  BY DEF Live!Visit, Live!Poll, Live!AnswerQuery, Live!SettleQuery, Live!FailQuery, Live!bounds
<1>2. Sound(entry, Good)
  BY DEF LiveInv, LiveQueryInv
<1>3. shown \in Good
  BY LiveShowsTables DEF LiveInv, LiveServerInv, LiveQueryInv, RecentOfWatched, Versions
<1>. HIDE DEF Good, shown
<1>4. Sound(Cache!Mount(entry), Good) /\ Sound(Cache!Mount(Cache!Age(entry)), Good)
  <2>1. Sound(Cache!Age(entry), Good)
    BY <1>2, AgeSound
  <2>. QED
    BY <1>2, <2>1, MountSound
<1>5. Sound(entry', Good)
  <2>1. ASSUME NEW p \in Live!Pages, Live!Visit(p) PROVE Sound(entry', Good)
    <3>1. entry' \in {Cache!Mount(entry), Cache!Mount(Cache!Age(entry)), entry}
      BY <2>1, LiveCache DEF Live!Visit
    <3>. QED
      BY <1>2, <1>4, <3>1
  <2>2. CASE Live!Poll
    BY <1>4, <2>2, LiveCache DEF Live!Poll
  <2>3. CASE Live!AnswerQuery
    <3>1. entry' = Cache!Answer(entry, shown) /\ entry.fetch = "asked"
      BY <2>3, LiveCache DEF Live!AnswerQuery, shown
    <3>. QED
      BY <1>2, <1>3, <3>1, AnswerSound
  <2>4. CASE Live!SettleQuery
    BY <1>2, <2>4, LiveCache, SettleSound DEF Live!SettleQuery
  <2>5. CASE Live!FailQuery
    BY <1>2, <2>5, LiveCache, FailSound DEF Live!FailQuery
  <2>. QED
    BY <2>1, <2>2, <2>3, <2>4, <2>5
<1>6. LiveQueryInv'
  BY <1>1, <1>5 DEF LiveInv, LiveQueryInv, RecentOfWatched, Good
<1>7. LiveServerInv'
  BY <1>1 DEF LiveInv, LiveServerInv, Below
<1>. QED
  BY <1>6, <1>7 DEF LiveInv

LEMMA LiveNext == LiveInv /\ [Live!Next]_(Live!vars) => LiveInv'
<1>. SUFFICES ASSUME LiveInv, [Live!Next]_(Live!vars) PROVE LiveInv'
  OBVIOUS
<1>1. CASE Live!Next
  BY <1>1, HearSteps, LiveServerSteps, LiveQuietSteps, LiveEntrySteps DEF Live!Next
<1>2. CASE UNCHANGED Live!vars
  BY <1>2 DEF Live!vars, Live!bounds, LiveInv, LiveServerInv, LiveQueryInv, Below,
     RecentOfWatched
<1>. QED
  BY <1>1, <1>2

LEMMA LiveInit == Live!Init => LiveInv
<1>. SUFFICES ASSUME Live!Init PROVE LiveInv
  OBVIOUS
<1>1. LiveServerInv
  BY DEF Live!Init, LiveServerInv, Versions, Below
<1>2. watched \in Live!Queries /\ Live!Shows[watched] \subseteq Live!Tables
  BY MountedQueries, LiveShowsTables DEF Live!Init
<1>3. /\ told = [t \in Live!Shows[watched] |-> 0] /\ told \in RecentOfWatched(told)
      /\ \A t \in Live!Shows[watched] : told[t] <= version[t]
  BY <1>2 DEF Live!Init, RecentOfWatched
<1>. DEFINE Good == RecentOfWatched(told)
<1>4. /\ Sound(Cache!Entry(None), Good) /\ Sound(Cache!Entry(told), Good)
  BY <1>3, EntrySound
<1>5. Sound(Cache!Age(Cache!Entry(told)), Good)
  BY <1>4, AgeSound
<1>6. PICK e \in {Cache!Entry(None), Cache!Entry(told), Cache!Age(Cache!Entry(told))} :
        entry = Cache!Mount(e)
  BY LiveCache DEF Live!Init
<1>7. Sound(entry, Good)
  BY <1>4, <1>5, <1>6, MountSound
<1>. QED
  BY <1>1, <1>2, <1>3, <1>7 DEF LiveInv, LiveQueryInv

\* What a page was told is on the screen (useLiveEvents.ts, SettingsPage.tsx).
THEOREM ToldCorrect == Live!Spec => []Live!ToldIsShown
<1>1. LiveInv => Live!ToldIsShown
  BY DEF LiveInv, LiveQueryInv, Sound, RecentOfWatched, Live!ToldIsShown
<1>. QED
  BY <1>1, LiveInit, LiveNext, PTL DEF Live!Spec

-----------------------------------------------------------------------------
(***************************************************************************)
(* Alerts: the lists show the user's own actions.                          *)
(***************************************************************************)

\* The page and the lemmas speak of the same cache entries.
LEMMA AlertCache ==
  /\ \A e : AlertList!Mount(e) = Cache!Mount(e) /\ AlertList!Age(e) = Cache!Age(e)
           /\ AlertList!Settle(e) = Cache!Settle(e) /\ AlertList!Entry(e) = Cache!Entry(e)
           /\ AlertList!Fail(e) = Cache!Fail(e)
  /\ \A e, shown : AlertList!Answer(e, shown) = Cache!Answer(e, shown)
  /\ \A e, mounted : AlertList!Invalidate(e, mounted) = Cache!Invalidate(e, mounted)
  /\ \A e, mounted : AlertList!Heeds(e, mounted) = Cache!Heeds(e, mounted)
BY DEF AlertList!Mount, Cache!Mount, AlertList!Age, Cache!Age, AlertList!Settle,
   Cache!Settle, AlertList!Entry, Cache!Entry, AlertList!Fail, Cache!Fail,
   AlertList!Invalidate, Cache!Invalidate, AlertList!Heeds, Cache!Heeds,
   AlertList!Answer, Cache!Answer, AlertList!Refetched, Cache!Refetched

AlertRows  == [id : AlertIds, status : AlertList!Statuses]
AlertCalls == [id : AlertIds, as : {None} \cup 0..version]

AlertPageInv ==
  /\ version \in Nat
  /\ alert \in [AlertIds -> AlertList!Statuses]
  /\ selected \in {None} \cup AlertRows
  /\ pending \in [AlertList!Actions -> {None} \cup AlertCalls]

\* What a list may show: an answer of the version it must show, or of a later one.
RecentLists(v) == [as : {n \in Nat : v <= n}, rows : SUBSET AlertRows]

AlertListInv ==
  /\ told \in [AlertList!Keys -> 0..version]
  /\ DOMAIN lists = AlertList!Keys
  /\ \A k \in AlertList!Keys : Sound(lists[k], RecentLists(told[k]))

AlertsInv == AlertPageInv /\ AlertListInv

LEMMA ListedIsRecent ==
  ASSUME AlertsInv, NEW k \in AlertList!Keys
  PROVE  AlertList!Listed(k) \in RecentLists(told[k])
<1>1. version \in {n \in Nat : told[k] <= n}
  BY DEF AlertsInv, AlertPageInv, AlertListInv
<1>2. {[id |-> x, status |-> alert[x]] : x \in {b \in AlertIds : k # "OPEN" \/ alert[b] = "OPEN"}}
        \in SUBSET AlertRows
  BY DEF AlertsInv, AlertPageInv, AlertRows
<1>. QED
  BY <1>1, <1>2 DEF AlertList!Listed, RecentLists

-----------------------------------------------------------------------------
(* Steps of the lists: an entry stays sound or is made sound.              *)

LEMMA AlertListStep ==
  ASSUME AlertsInv, UNCHANGED <<alert, version, selected, pending, told>>,
         DOMAIN lists' = AlertList!Keys,
         \A k \in AlertList!Keys : Sound(lists'[k], RecentLists(told[k]))
  PROVE  AlertsInv'
BY DEF AlertsInv, AlertPageInv, AlertListInv, AlertRows, AlertCalls, RecentLists

LEMMA AlertEntryStep ==
  ASSUME AlertsInv, UNCHANGED <<alert, version, selected, pending, told>>,
         NEW k \in AlertList!Keys, NEW e, lists' = [lists EXCEPT ![k] = e],
             Sound(e, RecentLists(told[k]))
  PROVE  AlertsInv'
<1>1. DOMAIN lists' = AlertList!Keys /\ \A j \in AlertList!Keys : lists'[j] = IF j = k THEN e ELSE lists[j]
  BY DEF AlertsInv, AlertListInv
<1>2. \A j \in AlertList!Keys : Sound(lists'[j], RecentLists(told[j]))
  BY <1>1 DEF AlertsInv, AlertListInv
<1>. QED
  BY <1>1, <1>2, AlertListStep

LEMMA AlertListSteps ==
  ASSUME AlertsInv,
         \/ AlertList!HearSale
         \/ \E f \in AlertList!Filters : AlertList!Choose(f) \/ AlertList!Grow(f)
         \/ \E k \in AlertList!Keys : AlertList!AnswerQuery(k) \/ AlertList!SettleQuery(k)
              \/ AlertList!FailQuery(k)
  PROVE  AlertsInv'
<1>1. \A k \in AlertList!Keys : Sound(lists[k], RecentLists(told[k]))
  BY DEF AlertsInv, AlertListInv
<1>2. AlertList!Filters \subseteq AlertList!Keys
  BY DEF AlertList!Keys
<1>3. ASSUME NEW f \in AlertList!Filters, AlertList!Choose(f) PROVE AlertsInv'
  BY <1>1, <1>2, <1>3, AlertEntryStep, MountSound, AlertCache DEF AlertList!Choose
<1>4. ASSUME NEW f \in AlertList!Filters, AlertList!Grow(f) PROVE AlertsInv'
  BY <1>1, <1>2, <1>4, AlertEntryStep, AgeSound, AlertCache DEF AlertList!Grow,
     AlertList!bounds
<1>5. ASSUME NEW k \in AlertList!Keys, AlertList!AnswerQuery(k) PROVE AlertsInv'
  BY <1>1, <1>5, AlertEntryStep, AnswerSound, ListedIsRecent, AlertCache DEF
     AlertList!AnswerQuery
<1>6. ASSUME NEW k \in AlertList!Keys, AlertList!SettleQuery(k) PROVE AlertsInv'
  BY <1>1, <1>6, AlertEntryStep, SettleSound, AlertCache DEF AlertList!SettleQuery
<1>7. ASSUME NEW k \in AlertList!Keys, AlertList!FailQuery(k) PROVE AlertsInv'
  BY <1>1, <1>7, AlertEntryStep, FailSound, AlertCache DEF AlertList!FailQuery
<1>8. CASE AlertList!HearSale
  <2>1. ASSUME NEW k \in AlertList!Keys PROVE Sound(lists'[k], RecentLists(told[k]))
    <3>1. lists'[k] = Cache!Invalidate(lists[k], k \in AlertList!Mounted)
            /\ (k \in AlertList!Mounted) \in BOOLEAN
      BY <1>8, AlertCache DEF AlertList!HearSale, AlertList!invalidate
    <3>. QED
      BY <1>1, <3>1, InvalidateSound
  <2>2. DOMAIN lists' = AlertList!Keys /\ UNCHANGED <<alert, version, selected, pending, told>>
    BY <1>8, AlertCache DEF AlertList!HearSale, AlertList!invalidate
  <2>. QED
    BY <2>1, <2>2, AlertListStep
<1>. QED
  BY <1>3, <1>4, <1>5, <1>6, <1>7, <1>8

-----------------------------------------------------------------------------
(* Steps of the user, of the server and of others.                         *)

LEMMA AlertResultsType == \A a \in AlertList!Actions : AlertList!Results[a] \in AlertList!Statuses
BY DEF AlertList!Statuses

\* A change makes a new version; the lists are as they were.
LEMMA AlertServerSteps ==
  ASSUME AlertsInv,
         \/ \E a \in AlertList!Actions : AlertList!Handle(a)
         \/ \E a \in AlertIds, status \in {"OPEN", "RESOLVED"} : AlertList!ChangeByOthers(a, status)
  PROVE  AlertsInv'
<1>1. version \in Nat /\ version' = version + 1 /\ UNCHANGED <<selected, told, lists>>
  BY DEF AlertsInv, AlertPageInv, AlertList!Handle, AlertList!ChangeByOthers
<1>2. 0..version \subseteq 0..version' /\ AlertCalls \subseteq AlertCalls'
        /\ AlertRows' = AlertRows
  BY <1>1 DEF AlertCalls, AlertRows
<1>3. AlertListInv'
  BY <1>1, <1>2 DEF AlertsInv, AlertListInv, RecentLists, AlertRows
<1>4. ASSUME NEW a \in AlertList!Actions, AlertList!Handle(a) PROVE AlertPageInv'
  <2>. DEFINE c == [id |-> pending[a].id, as |-> version']
  <2>1. /\ pending[a] \in AlertCalls /\ pending' = [pending EXCEPT ![a] = c]
        /\ alert' = [alert EXCEPT ![pending[a].id] = AlertList!Results[a]]
    BY <1>4 DEF AlertList!Handle, AlertsInv, AlertPageInv
  <2>2. c \in AlertCalls'
    BY <1>1, <2>1 DEF AlertCalls
  <2>. HIDE DEF c
  <2>3. pending' \in [AlertList!Actions -> {None} \cup AlertCalls']
    BY <1>2, <2>1, <2>2 DEF AlertsInv, AlertPageInv
  <2>4. alert' \in [AlertIds -> AlertList!Statuses]
    BY <2>1, AlertResultsType DEF AlertsInv, AlertPageInv
  <2>. QED
    BY <1>1, <1>2, <2>3, <2>4 DEF AlertsInv, AlertPageInv
<1>5. ASSUME NEW a \in AlertIds, NEW status \in {"OPEN", "RESOLVED"},
             AlertList!ChangeByOthers(a, status)
      PROVE  AlertPageInv'
  <2>1. status \in AlertList!Statuses
    BY DEF AlertList!Statuses, AlertList!Results, AlertList!Actions
  <2>2. alert' \in [AlertIds -> AlertList!Statuses]
    BY <1>5, <2>1 DEF AlertList!ChangeByOthers, AlertsInv, AlertPageInv
  <2>3. pending' \in [AlertList!Actions -> {None} \cup AlertCalls']
    BY <1>2, <1>5 DEF AlertList!ChangeByOthers, AlertsInv, AlertPageInv
  <2>. QED
    BY <1>1, <1>2, <2>2, <2>3 DEF AlertsInv, AlertPageInv
<1>. QED
  BY <1>3, <1>4, <1>5 DEF AlertsInv

LEMMA AlertUserSteps ==
  ASSUME AlertsInv,
         \/ \E row \in [id : AlertIds, status : AlertList!Statuses] : AlertList!Select(row)
         \/ \E a \in AlertList!Actions : AlertList!Press(a) \/ AlertList!Refuse(a)
  PROVE  AlertsInv'
<1>1. UNCHANGED <<alert, version, lists, told>>
  BY DEF AlertList!Select, AlertList!Press, AlertList!Refuse
<1>2. AlertCalls' = AlertCalls /\ AlertRows' = AlertRows /\ AlertListInv'
  BY <1>1 DEF AlertCalls, AlertRows, AlertsInv, AlertListInv, RecentLists
<1>3. selected' \in {None} \cup AlertRows
  BY DEF AlertList!Select, AlertList!Press, AlertList!Refuse, AlertsInv, AlertPageInv,
     AlertRows
<1>4. ASSUME NEW a \in AlertList!Actions, AlertList!Press(a)
      PROVE  pending' \in [AlertList!Actions -> {None} \cup AlertCalls]
  <2>1. [id |-> selected.id, as |-> None] \in AlertCalls
    BY <1>4 DEF AlertList!Press, AlertsInv, AlertPageInv, AlertRows, AlertCalls
  <2>. QED
    BY <1>4, <2>1 DEF AlertList!Press, AlertsInv, AlertPageInv
<1>5. pending' \in [AlertList!Actions -> {None} \cup AlertCalls]
  BY <1>4 DEF AlertList!Select, AlertList!Refuse, AlertsInv, AlertPageInv
<1>. QED
  BY <1>1, <1>2, <1>3, <1>5 DEF AlertsInv, AlertPageInv

\* Every list heeds the answer, and will show the version it made or a later one, or
\* promises no more than before.
LEMMA AlertSucceedStep ==
  ASSUME AlertsInv, NEW a \in AlertList!Actions, AlertList!Succeed(a)
  PROVE  AlertsInv'
<1>. DEFINE c == pending[a]
            new(k) == IF Cache!Heeds(lists[k], k \in AlertList!Mounted)
                  /\ told[k] < c.as THEN c.as ELSE told[k]
<1>1. /\ c \in AlertCalls /\ c.as # None /\ UNCHANGED <<alert, version>>
      /\ selected' = [id |-> c.id, status |-> AlertList!Results[a]]
      /\ pending' = [pending EXCEPT ![a] = None]
      /\ lists' = AlertList!invalidate /\ told' = [k \in AlertList!Keys |-> new(k)]
  BY AlertCache DEF AlertList!Succeed, AlertsInv, AlertPageInv
<1>2. version \in Nat /\ c.as \in 0..version /\ c.id \in AlertIds
  BY <1>1 DEF AlertsInv, AlertPageInv, AlertCalls
<1>3. AlertPageInv'
  <2>1. selected' \in AlertRows
    BY <1>1, <1>2, AlertResultsType DEF AlertRows
  <2>2. AlertCalls' = AlertCalls /\ AlertRows' = AlertRows
    BY <1>1 DEF AlertCalls, AlertRows
  <2>. QED
    BY <1>1, <2>1, <2>2 DEF AlertsInv, AlertPageInv
<1>4. \A k \in AlertList!Keys : new(k) \in 0..version
  BY <1>2 DEF AlertsInv, AlertListInv
<1>5. ASSUME NEW k \in AlertList!Keys PROVE Sound(lists'[k], RecentLists(new(k)))
  <2>1. lists'[k] = Cache!Invalidate(lists[k], k \in AlertList!Mounted)
          /\ Sound(lists[k], RecentLists(told[k]))
    BY <1>1, AlertCache DEF AlertList!invalidate, AlertsInv, AlertListInv
  <2>2. (k \in AlertList!Mounted) \in BOOLEAN
    OBVIOUS
  <2>3. CASE Cache!Heeds(lists[k], k \in AlertList!Mounted)
    BY <2>1, <2>2, <2>3, HeededSound
  <2>4. CASE ~Cache!Heeds(lists[k], k \in AlertList!Mounted)
    BY <2>1, <2>2, <2>4, InvalidateSound
  <2>. QED
    BY <2>3, <2>4
<1>. HIDE DEF new
<1>6. AlertListInv'
  BY <1>1, <1>4, <1>5, AlertCache DEF AlertListInv, AlertList!invalidate, RecentLists,
     AlertRows
<1>. QED
  BY <1>3, <1>6 DEF AlertsInv

LEMMA AlertsNext == AlertsInv /\ [AlertList!Next]_(AlertList!vars) => AlertsInv'
<1>. SUFFICES ASSUME AlertsInv, [AlertList!Next]_(AlertList!vars) PROVE AlertsInv'
  OBVIOUS
<1>1. CASE AlertList!Next
  BY <1>1, AlertListSteps, AlertServerSteps, AlertUserSteps, AlertSucceedStep DEF
     AlertList!Next
<1>2. CASE UNCHANGED AlertList!vars
  BY <1>2, AlertListStep DEF AlertList!vars, AlertsInv, AlertListInv
<1>. QED
  BY <1>1, <1>2

LEMMA AlertsInit == AlertList!Init => AlertsInv
<1>. SUFFICES ASSUME AlertList!Init PROVE AlertsInv
  OBVIOUS
<1>1. AlertPageInv
  BY AlertCache DEF AlertList!Init, AlertPageInv, AlertList!Statuses, AlertList!Results,
     AlertList!Actions
<1>2. told = [k \in AlertList!Keys |-> 0] /\ version = 0 /\ DOMAIN lists = AlertList!Keys
  BY AlertCache DEF AlertList!Init
<1>3. ASSUME NEW k \in AlertList!Keys PROVE AlertList!Listed(k) \in RecentLists(0)
  <2>1. {[id |-> x, status |-> alert[x]] : x \in {b \in AlertIds : k # "OPEN" \/ alert[b] = "OPEN"}}
          \in SUBSET AlertRows
    BY <1>1 DEF AlertPageInv, AlertRows
  <2>. QED
    BY <1>2, <2>1 DEF AlertList!Listed, RecentLists
<1>4. ASSUME NEW k \in AlertList!Keys PROVE Sound(lists[k], RecentLists(0))
  <2>1. lists[k] \in {Cache!Entry(AlertList!Listed(k)), Cache!Mount(Cache!Entry(None)), Cache!Entry(None)}
    BY AlertCache DEF AlertList!Init
  <2>2. Sound(Cache!Entry(AlertList!Listed(k)), RecentLists(0))
          /\ Sound(Cache!Entry(None), RecentLists(0))
    BY <1>3, EntrySound
  <2>3. Sound(Cache!Mount(Cache!Entry(None)), RecentLists(0))
    BY <2>2, MountSound
  <2>. QED
    BY <2>1, <2>2, <2>3
<1>. QED
  BY <1>1, <1>2, <1>4 DEF AlertsInv, AlertListInv

\* Every list, once fresh and not being fetched, shows what the user did
\* (AlertsPage.tsx, and TanStack Query as it uses it).
THEOREM OwnActionsCorrect == AlertList!Spec => []AlertList!ListsShowOwnActions
<1>1. AlertsInv => AlertList!ListsShowOwnActions
  BY DEF AlertsInv, AlertListInv, Sound, RecentLists, AlertList!ListsShowOwnActions
<1>. QED
  BY <1>1, AlertsInit, AlertsNext, PTL DEF AlertList!Spec

-----------------------------------------------------------------------------
(***************************************************************************)
(* Reconciliations: the run selected in the list is one of the station     *)
(* chosen, and the page shows what it did.                                 *)
(***************************************************************************)

\* The page and the lemmas speak of the same cache entries.
LEMMA ReconCache ==
  /\ \A e : Recon!Mount(e) = Cache!Mount(e) /\ Recon!Age(e) = Cache!Age(e)
           /\ Recon!Settle(e) = Cache!Settle(e) /\ Recon!Entry(e) = Cache!Entry(e)
           /\ Recon!Fail(e) = Cache!Fail(e)
  /\ \A e, shown : Recon!Answer(e, shown) = Cache!Answer(e, shown)
  /\ \A e, mounted : Recon!Invalidate(e, mounted) = Cache!Invalidate(e, mounted)
  /\ \A e, mounted : Recon!Heeds(e, mounted) = Cache!Heeds(e, mounted)
BY DEF Recon!Mount, Cache!Mount, Recon!Age, Cache!Age, Recon!Settle, Cache!Settle, Recon!Entry,
   Cache!Entry, Recon!Fail, Cache!Fail, Recon!Invalidate, Cache!Invalidate, Recon!Heeds,
   Cache!Heeds, Recon!Answer, Cache!Answer, Recon!Refetched, Cache!Refetched

-----------------------------------------------------------------------------
(***************************************************************************)
(* What the mutations wait for names runs that exist and versions that     *)
(* were reached.                                                           *)
(***************************************************************************)

ReconCreates == [station : Stations \cup {None}, id : Runs \cup {None}, as : 0..version]
ReconActs    == [of : Recon!Actions, id : Runs, as : 0..version]
RunExists(r) == r \in Runs /\ run[r] \in Recon!RunRecords

ReconPageInv ==
  /\ run \in [Runs -> {None} \cup Recon!RunRecords]
  /\ version \in Nat
  /\ station \in Stations \cup {None}
  /\ selectedId # None => RunExists(selectedId)
  /\ create # None => create \in ReconCreates /\ (create.id # None => RunExists(create.id))
  /\ create # None => create.station \in Stations
  /\ action # None => action \in ReconActs /\ RunExists(action.id)
  /\ byRow => RunExists(selectedId)

\* The version that the query must show was reached, and what is fresh or on its way
\* is no older.
ReconQueryInv ==
  /\ told \in 0..version
  /\ Sound(entry, {n \in Nat : told <= n})

ReconInv == ReconPageInv /\ ReconQueryInv /\ Recon!SelectionMatchesFilter

\* An action on a run keeps its station.
LEMMA ChangedRun ==
  ASSUME run \in [Runs -> {None} \cup Recon!RunRecords], NEW r \in Runs,
         run[r] \in Recon!RunRecords,
         NEW a \in Recon!Actions, NEW status \in Recon!To[a]
  PROVE  /\ Recon!Changed(r, a, status) \in [Runs -> {None} \cup Recon!RunRecords]
         /\ \A q \in Runs : run[q] \in Recon!RunRecords =>
              /\ Recon!Changed(r, a, status)[q] \in Recon!RunRecords
              /\ Recon!Changed(r, a, status)[q].station = run[q].station
<1>. DEFINE new == [station |-> run[r].station, status |-> status,
                    items |-> IF a = "calculate" THEN 1 ELSE run[r].items]
<1>1. status \in Recon!Statuses
  BY DEF Recon!To, Recon!Actions, Recon!Statuses
<1>2. new \in Recon!RunRecords /\ new.station = run[r].station
  BY <1>1 DEF Recon!RunRecords
<1>3. Recon!Changed(r, a, status) = [run EXCEPT ![r] = new]
  BY DEF Recon!Changed
<1>. HIDE DEF new
<1>. QED
  BY <1>2, <1>3

-----------------------------------------------------------------------------
(***************************************************************************)
(* The steps, grouped by what they disturb.                                *)
(***************************************************************************)

\* Runs keep their station, so whoever names one still does.
RunsStay ==
  \A r \in Runs : run[r] \in Recon!RunRecords => /\ run'[r] \in Recon!RunRecords
                                          /\ run'[r].station = run[r].station

\* The server's step: nothing on the page changes but the mutation it answers.
RunExistsNext(r) == r \in Runs /\ run'[r] \in Recon!RunRecords

LEMMA ReconServerStep ==
  ASSUME ReconInv, RunsStay, run' \in [Runs -> {None} \cup Recon!RunRecords],
         version' = version + 1,
         UNCHANGED <<Recon!choice, Recon!query>>,
         create' = create \/ (create' \in ReconCreates' /\ create'.station \in Stations
                                /\ (create'.id # None => RunExistsNext(create'.id))),
         action' = action \/ (action' \in ReconActs' /\ RunExistsNext(action'.id))
  PROVE  ReconInv'
<1>1. version \in Nat /\ version' \in Nat /\ 0..version \subseteq 0..version'
  BY DEF ReconInv, ReconPageInv
<1>2. ReconCreates \subseteq ReconCreates' /\ ReconActs \subseteq ReconActs'
  BY <1>1 DEF ReconCreates, ReconActs
<1>3. \A r : (RunExists(r) => RunExists(r)') /\ (RunExistsNext(r) => RunExists(r)')
  BY DEF RunExists, RunExistsNext, RunsStay
<1>4. ReconPageInv'
  <2>1. UNCHANGED <<station, selectedId, byRow>> /\ ReconPageInv
    BY DEF ReconInv, Recon!choice
  <2>2. create' # None => create' \in ReconCreates' /\ create'.station \in Stations
                          /\ (create'.id # None => RunExists(create.id)' \/ RunExistsNext(create'.id))
    BY <1>2, <1>3, <2>1 DEF ReconPageInv
  <2>3. create' # None => (create.id # None => RunExists(create.id))'
    BY <1>3, <2>2 DEF RunExists, RunExistsNext
  <2>4. action' # None => action' \in ReconActs' /\ RunExists(action.id)'
    BY <1>2, <1>3, <2>1 DEF ReconPageInv, RunExists, RunExistsNext
  <2>5. (selectedId # None => RunExists(selectedId))' /\ (byRow => RunExists(selectedId))'
    BY <1>3, <2>1 DEF ReconPageInv, RunExists, RunsStay
  <2>. QED
    BY <1>1, <2>1, <2>2, <2>3, <2>4, <2>5 DEF ReconPageInv
<1>5. ReconQueryInv'
  BY <1>1 DEF ReconInv, ReconQueryInv, Recon!query
<1>6. Recon!SelectionMatchesFilter'
  BY <1>3 DEF ReconInv, ReconPageInv, Recon!SelectionMatchesFilter, Recon!choice,
     RunsStay, RunExists
<1>. QED
  BY <1>4, <1>5, <1>6 DEF ReconInv

LEMMA ReconHandleSteps ==
  ASSUME Recon!NoneAssumption, ReconInv,
         \/ Recon!Handle
         \/ \E r \in Runs : Recon!HandleCreate(r)
         \/ \E r \in Runs, a \in Recon!Actions : Recon!ActByOthers(r, a)
  PROVE  ReconInv'
<1>1. version \in Nat /\ run \in [Runs -> {None} \cup Recon!RunRecords]
  BY DEF ReconInv, ReconPageInv
<1>2. CASE Recon!Handle
  <2>1. action \in ReconActs /\ RunExists(action.id)
    BY <1>2 DEF Recon!Handle, ReconInv, ReconPageInv
  <2>2. PICK status \in Recon!To[action.of] : run' = Recon!Changed(action.id, action.of, status)
    BY <1>2 DEF Recon!Handle
  <2>3. action.of \in Recon!Actions /\ action.id \in Runs /\ run[action.id] \in Recon!RunRecords
    BY <2>1 DEF ReconActs, RunExists
  <2>4. run' \in [Runs -> {None} \cup Recon!RunRecords] /\ RunsStay
    BY <1>1, <2>2, <2>3, ChangedRun DEF RunsStay
  <2>5. version' = version + 1 /\ action' = [action EXCEPT !.as = version']
        /\ UNCHANGED <<Recon!choice, Recon!query, create>>
    BY <1>2 DEF Recon!Handle
  <2>6. action' \in ReconActs' /\ action'.id = action.id
    BY <1>1, <2>1, <2>5 DEF ReconActs
  <2>7. RunExistsNext(action'.id)
    BY <2>3, <2>4, <2>6 DEF RunExistsNext, RunsStay
  <2>. QED
    BY <2>4, <2>5, <2>6, <2>7, ReconServerStep
<1>3. ASSUME NEW r \in Runs, Recon!HandleCreate(r) PROVE ReconInv'
  <2>1. create \in ReconCreates /\ create.station \in Stations
    BY <1>3 DEF Recon!HandleCreate, ReconInv, ReconPageInv
  <2>. DEFINE new == [station |-> create.station, status |-> "DRAFT", items |-> 0]
  <2>2. run[r] = None /\ run' = [run EXCEPT ![r] = new]
    BY <1>3 DEF Recon!HandleCreate
  <2>3. new \in Recon!RunRecords
    BY <2>1 DEF Recon!RunRecords, Recon!Statuses
  <2>. HIDE DEF new
  <2>4. run' \in [Runs -> {None} \cup Recon!RunRecords] /\ RunsStay /\ run'[r] = new
    BY <1>1, <2>2, <2>3 DEF RunsStay, Recon!NoneAssumption
  <2>5. version' = version + 1 /\ create' = [create EXCEPT !.id = r, !.as = version']
        /\ UNCHANGED <<Recon!choice, Recon!query, action>>
    BY <1>3 DEF Recon!HandleCreate
  <2>6. create' = [station |-> create.station, id |-> r, as |-> version']
    BY <2>1, <2>5 DEF ReconCreates
  <2>8. create' \in ReconCreates' /\ create'.station \in Stations /\ create'.id = r
    BY <1>1, <2>1, <2>5, <2>6 DEF ReconCreates
  <2>7. RunExistsNext(r)
    BY <2>3, <2>4 DEF RunExistsNext
  <2>. QED
    BY <2>4, <2>5, <2>7, <2>8, ReconServerStep
<1>4. ASSUME NEW r \in Runs, NEW a \in Recon!Actions, Recon!ActByOthers(r, a)
      PROVE  ReconInv'
  <2>1. PICK status \in Recon!To[a] : run' = Recon!Changed(r, a, status)
    BY <1>4 DEF Recon!ActByOthers
  <2>2. run[r] \in Recon!RunRecords
    BY <1>1, <1>4 DEF Recon!ActByOthers
  <2>3. run' \in [Runs -> {None} \cup Recon!RunRecords] /\ RunsStay
    BY <1>1, <2>1, <2>2, ChangedRun DEF RunsStay
  <2>4. version' = version + 1 /\ UNCHANGED <<Recon!choice, Recon!query, create, action>>
    BY <1>4 DEF Recon!ActByOthers
  <2>. QED
    BY <2>3, <2>4, ReconServerStep
<1>. QED
  BY <1>2, <1>3, <1>4

\* Choosing mounts the query that is followed, or does not.
LEMMA ReconChoiceSteps ==
  ASSUME ReconInv,
         \/ \E st \in Stations \cup {None} : Recon!Choose(st)
         \/ \E r \in Runs : Recon!Select(r)
  PROVE  ReconQueryInv'
<1>1. UNCHANGED <<version, told>> /\ (entry' = Cache!Mount(entry) \/ entry' = entry)
  BY ReconCache DEF Recon!Choose, Recon!Select, Recon!Turn, Recon!server
<1>2. Sound(Cache!Mount(entry), {n \in Nat : told <= n})
  BY MountSound DEF ReconInv, ReconQueryInv
<1>. QED
  BY <1>1, <1>2 DEF ReconInv, ReconQueryInv

LEMMA ReconChoiceKeepsPage ==
  ASSUME ReconInv,
         \/ \E st \in Stations \cup {None} : Recon!Choose(st)
         \/ \E r \in Runs : Recon!Select(r)
  PROVE  ReconPageInv' /\ Recon!SelectionMatchesFilter'
<1>1. UNCHANGED <<run, version, create, action>>
  BY DEF Recon!Choose, Recon!Select, Recon!server
<1>2. ReconCreates' = ReconCreates /\ ReconActs' = ReconActs
        /\ \A r : RunExists(r)' = RunExists(r)
  BY <1>1 DEF ReconCreates, ReconActs, RunExists
<1>3. ASSUME NEW st \in Stations \cup {None}, Recon!Choose(st)
      PROVE  ReconPageInv' /\ Recon!SelectionMatchesFilter'
  <2>1. station' = st /\ selectedId' = None /\ byRow' = FALSE
    BY <1>3, ReconCache DEF Recon!Choose, Recon!Turn
  <2>. QED
    BY <1>1, <1>2, <2>1 DEF ReconInv, ReconPageInv, Recon!SelectionMatchesFilter,
       RunExists
<1>4. ASSUME NEW r \in Runs, Recon!Select(r)
      PROVE  ReconPageInv' /\ Recon!SelectionMatchesFilter'
  <2>1. station' = station /\ selectedId' = r /\ byRow' = TRUE /\ r # selectedId
        /\ run[r] # None /\ station \in {None, run[r].station}
    BY <1>4, ReconCache DEF Recon!Select, Recon!Turn
  <2>2. run[r] \in Recon!RunRecords
    BY <2>1 DEF ReconInv, ReconPageInv
  <2>3. RunExists(selectedId)'
    BY <1>1, <2>1, <2>2 DEF RunExists
  <2>. QED
    BY <1>1, <1>2, <2>1, <2>3 DEF ReconInv, ReconPageInv, Recon!SelectionMatchesFilter
<1>. QED
  BY <1>3, <1>4

\* A mutation is sent, or refused, or the query is answered.
LEMMA ReconQuietSteps ==
  ASSUME ReconInv,
         \/ Recon!Create \/ Recon!Refuse \/ Recon!AnswerQuery \/ Recon!SettleQuery
         \/ Recon!HearSale \/ Recon!Grow
         \/ \E a \in Recon!Actions : Recon!Act(a)
  PROVE  ReconInv'
<1>. DEFINE Good == {n \in Nat : told <= n}
<1>1. UNCHANGED <<run, version, station, selectedId, byRow, told>>
  BY ReconCache DEF Recon!Create, Recon!Refuse, Recon!AnswerQuery, Recon!SettleQuery,
     Recon!HearSale, Recon!Grow, Recon!Act, Recon!server, Recon!choice, Recon!query
<1>2. ReconCreates' = ReconCreates /\ ReconActs' = ReconActs
        /\ (\A r : RunExists(r)' = RunExists(r))
      /\ version \in Nat /\ told \in 0..version /\ Sound(entry, Good)
  BY <1>1 DEF ReconCreates, ReconActs, RunExists, ReconInv, ReconPageInv, ReconQueryInv
<1>3. create' # None => create' \in ReconCreates /\ create'.station \in Stations
                        /\ (create'.id # None => RunExists(create'.id))
  <2>1. CASE Recon!Create
    <3>1. create' = [station |-> station, id |-> None, as |-> 0] /\ station \in Stations
      BY <2>1 DEF Recon!Create, ReconInv, ReconPageInv
    <3>. QED
      BY <1>2, <3>1 DEF ReconCreates
  <2>2. CASE create' = create
    BY <2>2 DEF ReconInv, ReconPageInv
  <2>. QED
    BY <2>1, <2>2, ReconCache DEF Recon!Refuse, Recon!AnswerQuery, Recon!SettleQuery,
       Recon!HearSale, Recon!Grow, Recon!Act, Recon!query
<1>4. action' # None => action' \in ReconActs /\ RunExists(action'.id)
  <2>1. ASSUME NEW a \in Recon!Actions, Recon!Act(a)
        PROVE  action' \in ReconActs /\ RunExists(action'.id)
    <3>1. action' = [of |-> a, id |-> selectedId, as |-> 0] /\ RunExists(selectedId)
      BY <2>1 DEF Recon!Act, ReconInv, ReconPageInv
    <3>. QED
      BY <1>2, <3>1 DEF ReconActs, RunExists
  <2>2. CASE action' = action \/ action' = None
    BY <2>2 DEF ReconInv, ReconPageInv
  <2>. QED
    BY <2>1, <2>2, ReconCache DEF Recon!Create, Recon!Refuse, Recon!AnswerQuery,
       Recon!SettleQuery, Recon!HearSale, Recon!Grow
<1>5. ReconPageInv'
  BY <1>1, <1>2, <1>3, <1>4 DEF ReconInv, ReconPageInv, RunExists
<1>6. Sound(entry', Good)
  <2>1. CASE Recon!AnswerQuery
    BY <1>2, <2>1, AnswerSound, ReconCache DEF Recon!AnswerQuery
  <2>2. CASE Recon!SettleQuery
    BY <1>2, <2>2, SettleSound, ReconCache DEF Recon!SettleQuery
  <2>3. CASE Recon!Grow
    BY <1>2, <2>3, AgeSound, ReconCache DEF Recon!Grow
  <2>4. CASE Recon!HearSale
    <3>1. entry' = Cache!Invalidate(entry, Recon!Mounted)
      BY <2>4, ReconCache DEF Recon!HearSale, Recon!invalidate
    <3>2. Recon!Mounted \in BOOLEAN
      BY DEF Recon!Mounted
    <3>. QED
      BY <1>2, <3>1, <3>2, InvalidateSound
  <2>5. CASE UNCHANGED entry
    BY <1>2, <2>5
  <2>. QED
    BY <2>1, <2>2, <2>3, <2>4, <2>5 DEF Recon!Create, Recon!Refuse, Recon!Act, Recon!query
<1>. QED
  BY <1>1, <1>2, <1>5, <1>6 DEF ReconInv, ReconQueryInv, Recon!SelectionMatchesFilter

\* The answer of a mutation invalidates the query; if the query heeds that, what it
\* will show is answered at the version the mutation made, or later.
LEMMA ReconAnsweredQuery ==
  ASSUME ReconInv, NEW v \in 0..version, told' = Recon!Told(v), UNCHANGED version,
         entry' = Recon!invalidate \/ entry' = Cache!Mount(Recon!invalidate)
  PROVE  ReconQueryInv'
<1>. DEFINE Good == {n \in Nat : told <= n}
            GoodNow == {n \in Nat : told' <= n}
<1>1. told \in 0..version /\ version \in Nat /\ Sound(entry, Good)
  BY DEF ReconInv, ReconPageInv, ReconQueryInv
<1>2. told' \in 0..version /\ Recon!Mounted \in BOOLEAN
  BY <1>1, ReconCache DEF Recon!Told, Recon!Mounted
<1>3. Sound(Recon!invalidate, GoodNow)
  <2>1. CASE Cache!Heeds(entry, Recon!Mounted)
    BY <1>1, <1>2, <2>1, HeededSound, ReconCache DEF Recon!invalidate
  <2>2. CASE ~Cache!Heeds(entry, Recon!Mounted)
    <3>1. told' = told
      BY <2>2, ReconCache DEF Recon!Told
    <3>. QED
      BY <1>1, <1>2, <3>1, InvalidateSound, ReconCache DEF Recon!invalidate
  <2>. QED
    BY <2>1, <2>2
<1>. HIDE DEF GoodNow
<1>4. Sound(entry', GoodNow)
  BY <1>3, MountSound
<1>. QED
  BY <1>2, <1>4 DEF ReconQueryInv, GoodNow

LEMMA ReconAnsweredSteps ==
  ASSUME ReconInv, Recon!Created \/ Recon!Succeed
  PROVE  ReconInv'
<1>1. version \in Nat /\ UNCHANGED <<run, version, station>>
  BY ReconCache DEF ReconInv, ReconPageInv, Recon!Created, Recon!Succeed, Recon!server,
     Recon!choice
<1>2. ReconCreates' = ReconCreates /\ ReconActs' = ReconActs
        /\ (\A r : RunExists(r)' = RunExists(r))
  BY <1>1 DEF ReconCreates, ReconActs, RunExists
<1>3. CASE Recon!Created
  <2>1. create \in ReconCreates /\ RunExists(create.id)
    BY <1>3, ReconCache DEF Recon!Created, ReconInv, ReconPageInv
  <2>2. create' = None /\ selectedId' = create.id /\ byRow' = FALSE /\ action' = action
    BY <1>3, ReconCache DEF Recon!Created
  <2>3. RunExists(selectedId)'
    BY <1>1, <2>1, <2>2 DEF RunExists
  <2>4. ReconPageInv' /\ Recon!SelectionMatchesFilter'
    BY <1>1, <1>2, <2>2, <2>3 DEF ReconInv, ReconPageInv, Recon!SelectionMatchesFilter
  <2>5. create.as \in 0..version
    BY <2>1 DEF ReconCreates
  <2>6. told' = Recon!Told(create.as) /\ (entry' = Recon!invalidate \/ entry' = Cache!Mount(Recon!invalidate))
    BY <1>3, ReconCache DEF Recon!Created
  <2>. QED
    BY <1>1, <2>4, <2>5, <2>6, ReconAnsweredQuery DEF ReconInv
<1>4. CASE Recon!Succeed
  <2>1. action \in ReconActs
    BY <1>4 DEF Recon!Succeed, ReconInv, ReconPageInv
  <2>2. action' = None /\ UNCHANGED <<selectedId, byRow, create>>
    BY <1>4 DEF Recon!Succeed, Recon!choice
  <2>3. ReconPageInv' /\ Recon!SelectionMatchesFilter'
    BY <1>1, <1>2, <2>2 DEF ReconInv, ReconPageInv, Recon!SelectionMatchesFilter,
       RunExists
  <2>4. action.as \in 0..version
    BY <2>1 DEF ReconActs
  <2>5. told' = Recon!Told(action.as) /\ entry' = Recon!invalidate
    BY <1>4 DEF Recon!Succeed
  <2>. QED
    BY <1>1, <2>3, <2>4, <2>5, ReconAnsweredQuery DEF ReconInv
<1>. QED
  BY <1>3, <1>4

LEMMA ReconNext == Recon!NoneAssumption /\ ReconInv /\ [Recon!Next]_(Recon!vars) => ReconInv'
<1>. SUFFICES ASSUME Recon!NoneAssumption, ReconInv, [Recon!Next]_(Recon!vars)
     PROVE  ReconInv'
  OBVIOUS
<1>1. CASE Recon!Next
  BY <1>1, ReconHandleSteps, ReconChoiceSteps, ReconChoiceKeepsPage, ReconQuietSteps,
     ReconAnsweredSteps DEF Recon!Next, ReconInv
<1>2. CASE UNCHANGED Recon!vars
  BY <1>2 DEF Recon!vars, Recon!server, Recon!choice, Recon!query, Recon!bounds, ReconInv,
     ReconPageInv, ReconQueryInv, Recon!SelectionMatchesFilter, ReconCreates, ReconActs,
     RunExists
<1>. QED
  BY <1>1, <1>2

LEMMA ReconInit == Recon!Init => ReconInv
<1>. SUFFICES ASSUME Recon!Init PROVE ReconInv
  OBVIOUS
<1>1. run \in [Runs -> {None} \cup Recon!RunRecords]
  BY ReconCache DEF Recon!Init, Recon!RunRecords, Recon!Statuses
<1>2. Sound(Cache!Entry(None), {n \in Nat : told <= n})
        /\ Sound(Cache!Entry(0), {n \in Nat : told <= n})
  BY EntrySound, ReconCache DEF Recon!Init
<1>3. Sound(entry, {n \in Nat : told <= n})
  BY <1>2, MountSound, ReconCache DEF Recon!Init
<1>. QED
  BY <1>1, <1>3, ReconCache DEF Recon!Init, ReconInv, ReconPageInv, ReconQueryInv,
     Recon!SelectionMatchesFilter

LEMMA ReconInvariance == ASSUME Recon!NoneAssumption PROVE Recon!Spec => []ReconInv
BY ReconInit, ReconNext, PTL DEF Recon!Spec

\* The run selected in the list is one of the station chosen (ReconciliationsPage.tsx).
THEOREM SelectionCorrect ==
  ASSUME Recon!NoneAssumption
  PROVE  Recon!Spec => []Recon!SelectionMatchesFilter
<1>1. ReconInv => Recon!SelectionMatchesFilter
  BY DEF ReconInv
<1>. QED
  BY <1>1, ReconInvariance, PTL

\* The list, the detail and the items show what the page did (ReconciliationsPage.tsx).
THEOREM RunActionsCorrect ==
  ASSUME Recon!NoneAssumption
  PROVE  Recon!Spec => []Recon!PageShowsOwnActions
<1>1. ReconInv => Recon!PageShowsOwnActions
  BY DEF ReconInv, ReconQueryInv, Sound, Recon!PageShowsOwnActions
<1>. QED
  BY <1>1, ReconInvariance, PTL

-----------------------------------------------------------------------------
(***************************************************************************)
(* The pages: each takes its own steps while it is open.                   *)
(***************************************************************************)

\* A page that is open takes its own steps, and stays open.
LEMMA PageSteps ==
  /\ Init /\ page = "admin" => Admin!Init
  /\ Init /\ page = "dashboards" => Live!Init
  /\ Init /\ page = "alerts" => AlertList!Init
  /\ Init /\ page = "reconciliations" => Recon!Init
  /\ [Next]_vars => page' = page
  /\ [Next]_vars /\ page = "admin" => [Admin!Next]_(Admin!vars)
  /\ [Next]_vars /\ page = "dashboards" => [Live!Next]_(Live!vars)
  /\ [Next]_vars /\ page = "alerts" => [AlertList!Next]_(AlertList!vars)
  /\ [Next]_vars /\ page = "reconciliations" => [Recon!Next]_(Recon!vars)
<1>1. ASSUME Init
      PROVE  /\ (page = "admin" => Admin!Init)
             /\ (page = "dashboards" => Live!Init)
             /\ (page = "alerts" => AlertList!Init)
             /\ (page = "reconciliations" => Recon!Init)
  <2>1. page \in DOMAIN Cases => page \in {"layout", "pipes", "hours", "display", "totals"}
    BY DEF Cases
  <2>. QED
    BY <1>1, <2>1 DEF Init, OpenSales, OpenForm, OpenAdmin, OpenLive, OpenAlerts,
       OpenRecon, OpenCase
<1>2. ASSUME Next
      PROVE  /\ page' = page
             /\ (page = "admin" => Admin!Next)
             /\ (page = "dashboards" => Live!Next)
             /\ (page = "alerts" => AlertList!Next)
             /\ (page = "reconciliations" => Recon!Next)
  BY <1>2 DEF Next, SalesStep, FormStep, AdminStep, LiveStep, AlertsStep, ReconStep
<1>3. ASSUME UNCHANGED vars
      PROVE  /\ page' = page
             /\ UNCHANGED Admin!vars
             /\ UNCHANGED Live!vars
             /\ UNCHANGED AlertList!vars
             /\ UNCHANGED Recon!vars
  BY <1>3 DEF vars, salesState, readingsState, adminState, liveState, alertsState,
     reconState, Admin!vars, Live!vars, AlertList!vars, Recon!vars, Live!bounds,
     AlertList!bounds, Recon!server, Recon!choice, Recon!query, Recon!bounds
<1>. QED
  BY <1>1, <1>2, <1>3

\* A form saves the item it was filled from, through every order of opening, cancelling
\* and saving, and of late answers (AdminStationPumpsPage.tsx and the others).
THEOREM AdminFormsCorrect == Spec => []FormSavesItsOwn
<1>. DEFINE Inv == page = "admin" => AdminInv
<1>1. Init => Inv
  BY PageSteps, AdminInit
<1>2. Inv /\ [Next]_vars => Inv'
  BY PageSteps, AdminNext
<1>3. Inv => FormSavesItsOwn
  BY DEF FormSavesItsOwn, Admin!FormSavesItsOwn, AdminInv, AdminCallInv
<1>. HIDE DEF Inv
<1>. QED
  BY <1>1, <1>2, <1>3, PTL DEF Spec

\* The queries show the administrator's own changes, whichever pages were visited
\* meanwhile (AdminStation*.tsx, TanksPage.tsx, UsersPage.tsx).
THEOREM AdminChangesCorrect == Spec => []OwnChangesAreShown
<1>. DEFINE Inv == page = "admin" => AdminInv
<1>1. Init => Inv
  BY PageSteps, AdminInit
<1>2. Inv /\ [Next]_vars => Inv'
  BY PageSteps, AdminNext
<1>3. Inv => OwnChangesAreShown
  BY DEF OwnChangesAreShown, Admin!OwnChangesAreShown, AdminInv, AdminCacheInv, Sound,
     RecentTables
<1>. HIDE DEF Inv
<1>. QED
  BY <1>1, <1>2, <1>3, PTL DEF Spec

\* Nothing a page was told is forgotten, however fetches, events and visits
\* overlapped (useLiveEvents.ts, SettingsPage.tsx).
THEOREM LivePagesCorrect == Spec => []ToldIsShown
<1>. DEFINE Inv == page = "dashboards" => LiveInv
<1>1. Init => Inv
  BY PageSteps, LiveInit
<1>2. Inv /\ [Next]_vars => Inv'
  BY PageSteps, LiveNext
<1>3. Inv => ToldIsShown
  BY DEF ToldIsShown, Live!ToldIsShown, LiveInv, LiveQueryInv, Sound, RecentOfWatched
<1>. HIDE DEF Inv
<1>. QED
  BY <1>1, <1>2, <1>3, PTL DEF Spec

\* Every list shows the user's own actions (AlertsPage.tsx).
THEOREM AlertsPageCorrect == Spec => []ListsShowOwnActions
<1>. DEFINE Inv == page = "alerts" => AlertsInv
<1>1. Init => Inv
  BY PageSteps, AlertsInit
<1>2. Inv /\ [Next]_vars => Inv'
  BY PageSteps, AlertsNext
<1>3. Inv => ListsShowOwnActions
  BY DEF ListsShowOwnActions, AlertList!ListsShowOwnActions, AlertsInv, AlertListInv,
     Sound, RecentLists
<1>. HIDE DEF Inv
<1>. QED
  BY <1>1, <1>2, <1>3, PTL DEF Spec

\* The run selected in the list is one of the station chosen (ReconciliationsPage.tsx).
THEOREM SelectedRunsCorrect == Spec => []SelectionMatchesFilter
<1>. DEFINE Inv == page = "reconciliations" => ReconInv
<1>1. Init => Inv
  BY PageSteps, ReconInit
<1>2. Inv /\ [Next]_vars => Inv'
  BY PageSteps, ReconNext, NoneAssumption
<1>3. Inv => SelectionMatchesFilter
  BY DEF SelectionMatchesFilter, Recon!SelectionMatchesFilter, ReconInv
<1>. HIDE DEF Inv
<1>. QED
  BY <1>1, <1>2, <1>3, PTL DEF Spec

\* The list, the detail and the items show what the page did (ReconciliationsPage.tsx).
THEOREM ReconPageCorrect == Spec => []PageShowsOwnActions
<1>. DEFINE Inv == page = "reconciliations" => ReconInv
<1>1. Init => Inv
  BY PageSteps, ReconInit
<1>2. Inv /\ [Next]_vars => Inv'
  BY PageSteps, ReconNext, NoneAssumption
<1>3. Inv => PageShowsOwnActions
  BY DEF PageShowsOwnActions, Recon!PageShowsOwnActions, ReconInv, ReconQueryInv, Sound
<1>. HIDE DEF Inv
<1>. QED
  BY <1>1, <1>2, <1>3, PTL DEF Spec
===============================================================================
