------------------------------- MODULE PumpGrid -------------------------------
(***************************************************************************)
(* Where the twin draws pumps: rows of at most four cards, each row        *)
(* centred, and free cells for pumps a saved layout does not have          *)
(* (ui/src/components/twin/pumpGridLayout.ts).  Coordinates are pixels,    *)
(* rounded down.                                                           *)
(***************************************************************************)
EXTENDS Integers, SequencesExt

PUMP_CARD_W == 100
PUMP_CARD_H == 108
PUMP_MAX_COLS == 4
PUMP_H_GAP == 28
PUMP_V_GAP == 40
MANIFOLD_ZONE_H == 56
TANK_TO_MANIFOLD_GAP == 24
SlotCells == 20      \* cells findNextFreePumpSlots looks at

AtLeast(low, n) == IF n < low THEN low ELSE n
AtMost(high, n) == IF n > high THEN high ELSE n

\* The width n cards take side by side.
RowWidth(n) == n * PUMP_CARD_W + (n - 1) * PUMP_H_GAP
fullRowWidth == RowWidth(PUMP_MAX_COLS)

\* Card i of a row of n, within bounds [left, top, width].
RowX(i, n, bounds) ==
  LET startFull == bounds.left + AtLeast(0, bounds.width - fullRowWidth) \div 2
  IN  startFull + AtLeast(0, fullRowWidth - RowWidth(n)) \div 2
        + i * (PUMP_CARD_W + PUMP_H_GAP)

RowY(row, top) == top + row * (PUMP_CARD_H + PUMP_V_GAP)

\* The pumps in row `row` of count.
InRow(row, count) == AtMost(PUMP_MAX_COLS, count - row * PUMP_MAX_COLS)

\* Card i (from 0) of count pumps in display order.
Cell(i, count, bounds) ==
  LET row == i \div PUMP_MAX_COLS
  IN  [x |-> RowX(i % PUMP_MAX_COLS, InRow(row, count), bounds),
       y |-> RowY(row, bounds.top), w |-> PUMP_CARD_W, h |-> PUMP_CARD_H]

rectsOverlap(a, b, pad) ==
  /\ b.x < a.x + a.w + pad /\ a.x < b.x + b.w + pad
  /\ b.y < a.y + a.h + pad /\ a.y < b.y + b.h + pad

\* Mutant: cards that are already placed are not looked at.
FreeOfSlots(occupied, slots, c) == \A i \in DOMAIN slots : ~rectsOverlap(slots[i], c, 8)

\* The first `count` of the 20 cells that touch neither an occupied card nor a
\* cell already taken; when they run out, a column below the last one.
Free(occupied, slots, c) ==
  /\ \A i \in DOMAIN occupied : ~rectsOverlap(occupied[i], c, 8)
  /\ \A i \in DOMAIN slots : ~rectsOverlap(slots[i], c, 8)

Taken(count, occupied, bounds) ==
  LET Take(slots, k) ==
        LET c == Cell(k - 1, SlotCells, bounds)
        IN  IF Len(slots) < count /\ Free(occupied, slots, c) THEN Append(slots, c) ELSE slots
  IN  FoldLeft(Take, <<>>, [k \in 1..SlotCells |-> k])

Below(slots, occupied, bounds) ==
  LET y == IF slots # <<>> THEN slots[Len(slots)].y
           ELSE IF occupied # <<>> THEN occupied[Len(occupied)].y
           ELSE bounds.top
  IN  [x |-> RowX(0, 1, bounds), y |-> y + PUMP_CARD_H + PUMP_V_GAP,
       w |-> PUMP_CARD_W, h |-> PUMP_CARD_H]

findNextFreePumpSlots(count, occupied, bounds) ==
  LET taken == Taken(count, occupied, bounds)
  IN  FoldLeft(LAMBDA slots, k : Append(slots, Below(slots, occupied, bounds)),
               taken, [k \in 1..(count - Len(taken)) |-> k])

computePumpZoneTop(tankBottom) == tankBottom + TANK_TO_MANIFOLD_GAP + MANIFOLD_ZONE_H

\* The rail of the index-th tank between tanks and pumps, kept inside the zone.
computePipeManifoldY(tankBottom, pumpZoneTop, index) ==
  LET zoneTop == tankBottom + TANK_TO_MANIFOLD_GAP
      zoneBottom == pumpZoneTop - 12
  IN  AtMost(zoneBottom - 4, AtLeast(zoneTop + 4,
        (zoneTop + zoneBottom) \div 2 + index * 18))

=============================================================================
