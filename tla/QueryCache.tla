------------------------------ MODULE QueryCache ------------------------------
(***************************************************************************)
(* One entry of the query cache that the pages share (@tanstack/react-     *)
(* query, as ui/src/App.tsx configures it: fresh for 15 seconds, one       *)
(* retry).  An entry holds the data last fetched, whether it is stale, and *)
(* its fetch: idle, asked of the server, or answered and on its way.       *)
(***************************************************************************)
CONSTANT None   \* no data, no answer

Entry(data) == [data |-> data, stale |-> FALSE, fetch |-> "idle", answer |-> None]

\* A page that uses the query is opened.
Mount(e) ==
  IF e.fetch = "idle" /\ (e.stale \/ e.data = None) THEN [e EXCEPT !.fetch = "asked"] ELSE e

Age(e) == [e EXCEPT !.stale = TRUE]

\* invalidateQueries: a mounted query is fetched again, and a fetch under way is
\* dropped for it, unless it is the first one; a query that is not mounted is only
\* marked.
Refetched(e, mounted) == mounted /\ (e.data # None \/ e.fetch = "idle")

Invalidate(e, mounted) ==
  IF Refetched(e, mounted) THEN [Age(e) EXCEPT !.fetch = "asked", !.answer = None] ELSE Age(e)

\* Whether what is fetched next is certain to be asked after the invalidation: the
\* fetch that is left alone makes the entry fresh with what it was answered before.
Heeds(e, mounted) == e.fetch = "idle" \/ Refetched(e, mounted)

Answer(e, shown) == [e EXCEPT !.fetch = "answered", !.answer = shown]

Settle(e) == Entry(e.answer)

\* The request and its retry failed; the data stays.
Fail(e) == [e EXCEPT !.fetch = "idle", !.answer = None]
=============================================================================
