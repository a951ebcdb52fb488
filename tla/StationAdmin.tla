----------------------------- MODULE StationAdmin -----------------------------
(***************************************************************************)
(* The pages that configure stations and users (ui/src/pages/admin, and    *)
(* the tank catalog and user pages): the form in which a pump, a tank or a *)
(* user's stations are edited, the calls that change the catalogue, and    *)
(* the cached queries that show it.  A change is told from another by  *)
(* the tables it writes; the content of a table is its version.            *)
(***************************************************************************)
EXTENDS Naturals, FiniteSets, QueryCache

\* None is also the id of what is not saved yet.
CONSTANTS
  Pumps,       \* the pumps of the station
  Tanks,       \* its tanks
  Users,       \* the users of the dashboard
  MaxChanges,  \* bound: calls sent
  MaxVisits    \* bound: changes of page

VARIABLES
  at,          \* the page shown
  editor,      \* showForm, editing, and the item the fields were filled from
  calls,       \* calls under way
  version,     \* server: the version of each table
  cache,       \* the cache entry of each query; its data are versions
  told,        \* history: the version of each table a query must show
  changes, visits  \* counters for the bounds

vars == <<at, editor, calls, version, cache, told, changes, visits>>

-----------------------------------------------------------------------------
(* Queries and what they show                                              *)

\* "nozzle" is the nozzles of the pump that is unfolded, "cascade" the
\* connections that the database deletes with a pump.
Tables == {"pump", "nozzle", "tank", "connection", "cascade", "device", "station", "user"}

Shows ==
  [pumps       |-> {"pump", "nozzle", "device"},
   nozzles     |-> {"nozzle"},
   tanks       |-> {"tank"},
   connections |-> {"connection", "cascade", "tank", "pump"},
   devices     |-> {"device"},
   station     |-> {"station", "pump", "tank", "connection", "cascade", "device"},
   list        |-> {"station", "pump", "tank", "connection", "cascade"},
   catalog     |-> {"tank"},
   users       |-> {"user"},
   twin        |-> Tables \ {"user"}]
Queries == DOMAIN Shows

PumpsPage       == {"pumps", "devices", "connections"}
NozzleEditor    == {"nozzles"}
TanksPage       == {"tanks"}
ConnectionsPage == {"connections", "tanks", "pumps"}
EditPage        == {"devices"}
HubPage         == {}               \* counts of the station, from the layout
StationsPage    == {"list"}         \* counts of every station
CatalogPage     == {"catalog"}
UsersPage       == {"users"}
Layout          == {"station"}

MountedOn ==
  [pumps       |-> Layout \cup PumpsPage \cup NozzleEditor,
   tanks       |-> Layout \cup TanksPage,
   connections |-> Layout \cup ConnectionsPage,
   edit        |-> Layout \cup EditPage,
   hub         |-> Layout \cup HubPage,
   stations    |-> StationsPage,
   catalog     |-> CatalogPage,
   users       |-> UsersPage,
   twin        |-> {"twin"}]
Pages == DOMAIN MountedOn

-----------------------------------------------------------------------------
(* Calls: the page, the tables written, the queries invalidated or         *)
(* fetched again once the call has succeeded                               *)

Change(p, w, r) == [page |-> p, writes |-> w, refreshes |-> r]

\* Mutant: the pumps page forgets the twin.
PumpsInvalidateLess == {"pumps", "station"}

PumpsInvalidate       == {"pumps", "station", "twin"}
TanksInvalidate       == {"tanks", "station", "catalog", "twin"}
ConnectionsInvalidate == {"connections", "station", "twin"}

SavePump       == Change("pumps", {"pump"}, PumpsInvalidate)
SaveTank       == Change("tanks", {"tank"}, TanksInvalidate)
ChangePumps    == {Change("pumps", w, PumpsInvalidate) : w \in {{"pump"}, {"pump", "cascade"}}}
AddNozzle      == Change("pumps", {"nozzle"}, {"nozzles", "pumps", "twin"})
ChangeNozzle   == Change("pumps", {"nozzle"}, {"nozzles"})
SwitchTank     == Change("tanks", {"tank"}, TanksInvalidate)
SaveConnection == Change("connections", {"connection"}, ConnectionsInvalidate)
ChangeConnection == Change("connections", {"connection"}, ConnectionsInvalidate)
SaveStation    == Change("edit", {"station"}, {"list", "station", "twin"})
AddDevice      == Change("edit", {"device"}, {"devices", "station"})
SwitchDevice   == Change("edit", {"device"}, {"devices"})
SaveCatalogTank   == Change("catalog", {"tank"}, {"catalog", "twin"})
SwitchCatalogTank == Change("catalog", {"tank"}, {"catalog", "twin"})
CreateUser     == Change("users", {"user"}, {"users"})
AssignRole     == Change("users", {"user"}, {"users"})
AssignStations == Change("users", {"user"}, {"users"})

RowCalls == ChangePumps \cup {AddNozzle, ChangeNozzle, SwitchTank, SaveConnection,
              ChangeConnection, SaveStation, AddDevice, SwitchDevice, SwitchCatalogTank,
              CreateUser, AssignRole}

\* What each screen promises to show of the administrator's own changes.  A
\* nozzle changed in its row reaches neither the list of pumps nor the twin, and
\* a device the twin; the connections deleted with a pump stay in their list, the
\* counts in the list of stations as they were.
Promised ==
  {<<"pumps", "pump">>, <<"nozzles", "nozzle">>, <<"tanks", "tank">>,
   <<"connections", "connection">>, <<"devices", "device">>,
   <<"users", "user">>, <<"list", "station">>,
   <<"station", "pump">>, <<"station", "tank">>, <<"station", "connection">>,
   <<"station", "station">>, <<"station", "cascade">>,
   <<"catalog", "tank">>, <<"twin", "pump">>, <<"twin", "tank">>, <<"twin", "connection">>, <<"twin", "station">>}

\* Nor does a tank changed in the catalog change on the pages of its station.
Unaware == {<<"catalog", "tanks">>, <<"catalog", "station">>}

Later(a, b) == IF a < b THEN b ELSE a

-----------------------------------------------------------------------------
(* Sending a call, its effect and its answer                               *)

NoForm == [shown |-> FALSE, editing |-> None, from |-> None]

\* A save names the item edited and holds the values in the form.
Send(change, saves, id, from) ==
  /\ changes < MaxChanges /\ changes' = changes + 1
  /\ calls' = calls \cup {[n |-> changes, of |-> change, saves |-> saves, id |-> id,
                          from |-> from, done |-> FALSE, made |-> version]}
  /\ UNCHANGED <<at, editor, version, cache, told, visits>>

\* The buttons of a row, and the forms that only create.
Press(change) == at = change.page /\ Send(change, FALSE, None, None)

\* The save button of a form is disabled while its mutation is pending.
Saving == \E c \in calls : c.saves
Save(change) ==
  /\ at = change.page /\ editor.shown /\ ~Saving
  /\ Send(change, TRUE, editor.editing, editor.from)

\* The answer carries the versions the change made.
Handle(c) ==
  /\ c \in calls /\ ~c.done
  /\ version' = [t \in Tables |-> IF t \in c.of.writes THEN version[t] + 1 ELSE version[t]]
  /\ calls' = (calls \ {c}) \cup {[c EXCEPT !.done = TRUE, !.made = version']}
  /\ UNCHANGED <<at, editor, cache, told, changes, visits>>

\* onSuccess: the queries are invalidated, the form that is open then is closed.
Succeed(c) ==
  /\ c \in calls /\ c.done
  /\ calls' = calls \ {c}
  /\ cache' = [q \in Queries |-> IF q \in c.of.refreshes
                                 THEN Invalidate(cache[q], q \in MountedOn[at]) ELSE cache[q]]
  /\ told' = [q \in Queries |-> [t \in Shows[q] |->
               IF /\ t \in c.of.writes /\ <<q, t>> \in Promised /\ <<c.of.page, q>> \notin Unaware
                  /\ Heeds(cache[q], q \in MountedOn[at])
               THEN Later(told[q][t], c.made[t]) ELSE told[q][t]]]
  /\ editor' = IF c.saves THEN NoForm ELSE editor
  /\ UNCHANGED <<at, version, changes, visits>>

\* A refused call shows a message.
Refuse(c) ==
  /\ c \in calls /\ ~c.done
  /\ calls' = calls \ {c}
  /\ UNCHANGED <<at, editor, version, cache, told, changes, visits>>

-----------------------------------------------------------------------------
(* The forms                                                               *)

ShowForm(editing, from) ==
  /\ editor' = [shown |-> TRUE, editing |-> editing, from |-> from]
  /\ UNCHANGED <<at, calls, version, cache, told, changes, visits>>

\* Mutant: the new pump's form keeps the pump that was being edited.
AddPumpKeepingEdited == at = "pumps" /\ ShowForm(editor.editing, None)

AddPump == at = "pumps" /\ ShowForm(None, None)
EditPump(p) == at = "pumps" /\ ShowForm(p, p)
AddTank == at = "tanks" /\ ShowForm(None, None)
EditTank(t) == at = "tanks" /\ ShowForm(t, t)
AddCatalogTank == at = "catalog" /\ ShowForm(None, None)
EditCatalogTank(t) == at = "catalog" /\ ShowForm(t, t)

\* The stations of the user are ticked in the form; it stays open when they are saved,
\* and nothing disables its button.
ChooseStations(u) == at = "users" /\ ShowForm(u, u)
SaveStations ==
  /\ at = "users" /\ editor.shown
  /\ Send(AssignStations, FALSE, editor.editing, editor.from)

\* Hides the form; what was typed stays in it.
Cancel ==
  /\ editor.shown
  /\ editor' = [editor EXCEPT !.shown = FALSE, !.editing = None]
  /\ UNCHANGED <<at, calls, version, cache, told, changes, visits>>

-----------------------------------------------------------------------------
(* Queries                                                                 *)

\* The queries of the page are mounted, one of them perhaps older than staleTime;
\* the form of the page left is gone, and the answer of its save finds none to close.
Visit(p) ==
  /\ p # at /\ visits < MaxVisits /\ visits' = visits + 1
  /\ at' = p /\ editor' = NoForm /\ calls' = {[c EXCEPT !.saves = FALSE] : c \in calls}
  /\ \E aged \in {None} \cup MountedOn[p] :
       cache' = [q \in Queries |->
                   LET e == IF q = aged THEN Age(cache[q]) ELSE cache[q]
                   IN  IF q \in MountedOn[p] THEN Mount(e) ELSE e]
  /\ UNCHANGED <<version, told, changes>>

AnswerQuery(q) ==
  /\ cache[q].fetch = "asked"
  /\ cache' = [cache EXCEPT ![q] = Answer(@, [t \in Shows[q] |-> version[t]])]
  /\ UNCHANGED <<at, editor, calls, version, told, changes, visits>>

SettleQuery(q) ==
  /\ cache[q].fetch = "answered"
  /\ cache' = [cache EXCEPT ![q] = Settle(@)]
  /\ UNCHANGED <<at, editor, calls, version, told, changes, visits>>

-----------------------------------------------------------------------------
\* The administrator comes from another page: what this one shows is in the cache,
\* but for one query, which is old or was never fetched.
Init ==
  /\ at \in Pages /\ editor = NoForm /\ calls = {}
  /\ version = [t \in Tables |-> 0]
  /\ \E q0 \in MountedOn[at], how \in {"fresh", "aged", "new"} :
       cache = [q \in Queries |->
                  IF q = q0 /\ how = "new" THEN Mount(Entry(None))
                  ELSE LET e == Entry([t \in Shows[q] |-> 0])
                       IN  IF q = q0 /\ how = "aged" THEN Mount(Age(e)) ELSE e]
  /\ told = [q \in Queries |-> [t \in Shows[q] |-> 0]]
  /\ changes = 0 /\ visits = 0

Next ==
  \/ \E c \in RowCalls : Press(c)
  \/ Save(SavePump) \/ Save(SaveTank) \/ Save(SaveCatalogTank) \/ SaveStations
  \/ AddPump \/ AddTank \/ AddCatalogTank \/ Cancel
  \/ \E p \in Pumps : EditPump(p)
  \/ \E t \in Tanks : EditTank(t) \/ EditCatalogTank(t)
  \/ \E u \in Users : ChooseStations(u)
  \/ \E c \in calls : Handle(c) \/ Succeed(c) \/ Refuse(c)
  \/ \E p \in Pages : Visit(p)
  \/ \E q \in Queries : AnswerQuery(q) \/ SettleQuery(q)

Spec == Init /\ [][Next]_vars

-----------------------------------------------------------------------------
(* Correctness                                                             *)

\* A query that is fresh and not being fetched shows every change of the
\* administrator whose answer its page has seen, wherever the change was made and
\* however answers of earlier fetches overlapped it; but not one seen while its
\* first fetch was under way, or any fetch of a page already left.
OwnChangesAreShown ==
  \A q \in Queries : LET e == cache[q] IN
    e.fetch = "idle" /\ ~e.stale /\ e.data # None =>
      \A t \in Shows[q] : e.data[t] >= told[q][t]

\* The values in a form are saved to the pump, tank or user they were loaded from;
\* those typed for a new one never replace another, through every order of opening,
\* cancelling and saving, and of late answers that close the form.
FormSavesItsOwn == \A c \in calls : c.id = c.from
=============================================================================
