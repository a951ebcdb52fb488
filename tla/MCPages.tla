-------------------------------- MODULE MCPages --------------------------------
(***************************************************************************)
(* Model checking the pages of the user interface: the values of their     *)
(* constants, and the cases of what they compute.                          *)
(***************************************************************************)
EXTENDS Pages, TLC, SequencesExt

CONSTANTS
  s1, s2, stA, stB, p1, f1, f2, al, r1   \* sales, stations, a pump, fetches, an alert, a run

\* stB sells nothing; the pump of stA is not configured.
MCStationOf == [s \in Sales |-> stA]
MCPumpOf    == [s \in Sales |-> [name |-> p1, sep |-> "/"]]
Symmetry    == Permutations(Fetches) \cup Permutations(Sales)

-----------------------------------------------------------------------------
\* Up to six pumps, four of which may have a card: in a cell of the grid, between
\* cells, beside them, and over the whole grid.
MCScenes ==
  LET catalogue == <<[id |-> 1, order |-> 1, code |-> 5], [id |-> 2, order |-> 1, code |-> 4],
                     [id |-> 3, order |-> 0, code |-> 3], [id |-> 4, order |-> 2, code |-> 2],
                     [id |-> 5, order |-> 0, code |-> 1], [id |-> 6, order |-> 2, code |-> 6]>>
      card(i) == <<[asset |-> 1, x |-> 353, y |-> 220, w |-> 100, h |-> 108],
                   [asset |-> 2, x |-> 400, y |-> 300, w |-> 60, h |-> 60],
                   [asset |-> 3, x |-> 900, y |-> 500, w |-> 140, h |-> 120],
                   [asset |-> 4, x |-> 130, y |-> 360, w |-> 900, h |-> 800]>>[i]
      items(ids) == LET s == SetToSortSeq(ids, LAMBDA i, j : i > j)
                    IN  [i \in DOMAIN s |-> card(s[i])]
  IN  {[pumps |-> {catalogue[i] : i \in 1..n}, mode |-> m, items |-> items(ids), canvas |-> w] :
         n \in 0..6, m \in {"AUTO", "CUSTOM"}, ids \in SUBSET (1..4), w \in {600, 1200}}

\* The tank of each pump: one tank, three in turn, or none for some.
MCFeedings == {[p \in 1..6 |-> 1], [p \in 1..6 |-> p % 3], [p \in 1..6 |-> IF p > 4 THEN None ELSE p % 2]}

\* Up to three connections of two pumps and two tanks.
MCConnections ==
  LET product(t) == IF t = 1 THEN "PMS" ELSE "AGO"
      one == {[pump |-> p, tank |-> t, product |-> product(t), primary |-> f, order |-> o] :
                p \in {1, 2}, t \in {1, 2}, f \in BOOLEAN, o \in {0, 1}}
  IN  UNION {[1..n -> one] : n \in 0..3}

MCSchedules ==
  LET times == {None, 6 * 3600, 21 * 3600 + 59 * 60, 22 * 3600, 21 * 3600 + 1830} IN
  [opens : times, closes : times, days : {{}, {0}, {0, 6}}, zone : {None, -1, 0, 1}]

MCInstants ==
  {d * 24 * 3600 + t : d \in {0, 5, 6},
     t \in {0, 5 * 3600 - 1, 5 * 3600, 6 * 3600, 21 * 3600, 21 * 3600 + 1800,
            21 * 3600 + 59 * 60 + 30, 22 * 3600 - 1, 22 * 3600, 23 * 3600}}

MCDisplays ==
  LET cards == [status : {"IDLE", "POWERED_OFF", "FAULT"}, last : {None}] IN
  {d \in [pumps : [{1, 2} -> cards], latest : [{1, 2} -> {None, 1}], lit : SUBSET {1, 2},
          playing : [{1, 2} -> {None, "DISPENSING", "COMPLETED"}]] :
     \A p \in d.lit : d.latest[p] # None}

MCStationSet ==
  {[id |-> "A", code |-> "a", mqtt |-> "m", org |-> "o1"],
   [id |-> "B", code |-> "b", mqtt |-> None, org |-> None],
   [id |-> "C", code |-> "c", mqtt |-> None, org |-> "o2"]}

\* Up to three sales; 23:00 UTC is tomorrow in Lagos, not in London.
MCTakings ==
  LET keys == {k \in SUBSET ({"a", "m", "b", "c", "x"} \X {0, 23}) : Cardinality(k) <= 3}
  IN  [sales : UNION {[k -> 0..2] : k \in keys}, now : {12}, zone : {0, 1},
       org : {None, "o1"}]
=============================================================================
