------------------------------- MODULE Forecourt -------------------------------
(***************************************************************************)
(* The map of one station as the twin draws it: which pump cards are where *)
(* (ui/src/components/twin/forecourtLayout.ts), which tank feeds a pump    *)
(* and where its pipe runs (pipe/pipeRouting.ts), and which tank a sale is *)
(* played from (hooks/useDispensingPlayback.ts).  Decoration and the pipe  *)
(* path's text are left out.                                               *)
(***************************************************************************)
EXTENDS PumpGrid, FiniteSets

CONSTANT None

MARGIN == 40
TANK_BAND_Y == 70
TANK_H == 70

-----------------------------------------------------------------------------
(* Layout.  A scene is [pumps, tanks, mode, items, canvas]: the catalogue's *)
(* pumps as [id, order, code], the number of tanks, and the saved items as  *)
(* [asset, x, y, w, h] for pumps.                                           *)

\* A set in an order: an element stands behind those that come before it.
Ordered(S, Less(_, _)) ==
  [i \in 1..Cardinality(S) |->
     CHOOSE x \in S : Cardinality({y \in S : Less(y, x)}) = i - 1]

Before(a, b) == a.order < b.order \/ (a.order = b.order /\ a.code < b.code)
sortPumpsForLayout(pumps) == Ordered(pumps, Before)

pumpBounds(canvas, tankBottom) ==
  [left |-> MARGIN + 90, top |-> computePumpZoneTop(tankBottom),
   width |-> AtLeast(200, canvas - 2 * MARGIN - 190)]

\* Tanks stand side by side in one band.
TankBottom == TANK_BAND_Y + TANK_H

Node(pump, r) == [id |-> pump.id, at |-> r]

pumpNodesFromGrid(pumps, bounds) ==
  LET ordered == sortPumpsForLayout(pumps)
  IN  [i \in DOMAIN ordered |-> Node(ordered[i], Cell(i - 1, Len(ordered), bounds))]

\* Saved cards are at least as large as a pump card.
parseLayoutItems(items) ==
  [i \in DOMAIN items |->
     [id |-> items[i].asset,
      at |-> [x |-> items[i].x, y |-> items[i].y,
              w |-> AtLeast(PUMP_CARD_W, items[i].w), h |-> AtLeast(PUMP_CARD_H, items[i].h)]]]

placeMissingPumpsCustom(existing, pumps, canvas) ==
  LET placed == {existing[i].id : i \in DOMAIN existing}
      missing == sortPumpsForLayout({p \in pumps : p.id \notin placed})
      slots == findNextFreePumpSlots(Len(missing),
                 [i \in DOMAIN existing |-> existing[i].at], pumpBounds(canvas, TankBottom))
  IN  existing \o [i \in DOMAIN missing |-> Node(missing[i], slots[i])]

\* The pump cards; a layout without items is an automatic one.
buildForecourtNodes(scene) ==
  IF scene.mode = "AUTO" \/ scene.items = <<>>
    THEN pumpNodesFromGrid(scene.pumps, pumpBounds(scene.canvas, TankBottom))
    ELSE placeMissingPumpsCustom(parseLayoutItems(scene.items), scene.pumps, scene.canvas)

-----------------------------------------------------------------------------
(* Pipes.  A connection is [id, tank, pump, primary, order].               *)

Matching(connections, pump) == SelectSeq(connections, LAMBDA c : c.pump = pump)
Primaries(connections) == SelectSeq(connections, LAMBDA c : c.primary)

\* The first of a sequence in an order on its elements; ties by position.
FirstBy(s, Less(_, _)) ==
  s[CHOOSE i \in DOMAIN s : \A j \in DOMAIN s :
      ~Less(s[j], s[i]) /\ (j < i => Less(s[i], s[j]))]

ByDisplayOrder(a, b) == IF a.order # b.order THEN a.order < b.order ELSE a.tank < b.tank
\* Mutant: the last tank instead of the first.
ByTankDescending(a, b) == a.tank > b.tank

ByTank(a, b) == a.tank < b.tank

pickConnectionForPump(connections, pump) ==
  LET matches == Matching(connections, pump)
  IN  IF matches = <<>> THEN None
      ELSE IF Primaries(matches) # <<>> THEN Head(Primaries(matches))
      ELSE FirstBy(matches, ByDisplayOrder)

\* The tank a sale is played from; without a connection of the pump, one that
\* carries the product.
resolveConnection(connections, pump, product) ==
  LET matches == Matching(connections, pump)
      byProduct == SelectSeq(connections, LAMBDA c : c.product = product)
      pool == IF matches # <<>> THEN matches ELSE byProduct
  IN  IF pool = <<>> THEN None
      ELSE IF Primaries(pool) # <<>> THEN Head(Primaries(pool))
      ELSE IF matches # <<>> THEN FirstBy(matches, ByTank)
      ELSE Head(pool)

\* A branch that would run through an obstacle, or closer than 14 to another
\* branch, is moved aside, right and left in turn, at most eight times.
Blocked(x, top, bottom, obstacles, used) ==
  \/ \E o \in obstacles : o.x <= x /\ x <= o.x + o.w /\ top < o.y + o.h /\ bottom > o.y
  \/ \E u \in used : x - u < 14 /\ u - x < 14

\* Mutant: always to the right.
NudgeRight(k) == 12 + k * 2

Nudge(k) == IF k % 2 = 0 THEN 12 + k * 2 ELSE -(12 + k * 2)

nudgeBranchX(x, top, bottom, obstacles, used) ==
  FoldLeft(LAMBDA at, k : IF Blocked(at, top, bottom, obstacles, used) THEN at + Nudge(k) ELSE at,
           x, <<0, 1, 2, 3, 4, 5, 6, 7>>)

getPumpInletAnchor(r) == r.x + r.w \div 2

Inflated(r) == [x |-> r.x - 4, y |-> r.y - 4, w |-> r.w + 8, h |-> r.h + 8]

\* The cards without the one at the same place as the pump's own; as cards are
\* inflated first, the pump's own card stays in its way.
Obstacles(nodes, own) ==
  {o \in {Inflated(nodes[i].at) : i \in DOMAIN nodes} : o.x # own.x \/ o.y # own.y}

PumpTop(nodes) ==
  LET tops == {nodes[i].at.y : i \in DOMAIN nodes}
  IN  CHOOSE y \in tops : \A z \in tops : y <= z

\* The branches of the pumps that have a tank, tank by tank and from left to right;
\* each tank has a rail.  The rest of the forecourt is never in the way of a branch
\* that its own card is not.
buildManifoldRoutes(nodes, tankOf) ==
  LET fed == {i \in DOMAIN nodes : tankOf[nodes[i].id] # None}
      tank(i) == tankOf[nodes[i].id]
      inlet(i) == getPumpInletAnchor(nodes[i].at)
      rail(i) == computePipeManifoldY(TankBottom, PumpTop(nodes),
                   Cardinality({tank(j) : j \in {k \in fed : tank(k) < tank(i)}}))
      order == Ordered(fed, LAMBDA i, j :
                 \/ tank(i) < tank(j)
                 \/ tank(i) = tank(j) /\ inlet(i) < inlet(j)
                 \/ tank(i) = tank(j) /\ inlet(i) = inlet(j) /\ i < j)
      Branch(routes, i) ==
        LET n == nodes[i]
            x == nudgeBranchX(inlet(i), rail(i), n.at.y, Obstacles(nodes, n.at),
                              {routes[k].x : k \in DOMAIN routes})
        IN  Append(routes, [pump |-> n, x |-> x, rail |-> rail(i)])
  IN  FoldLeft(Branch, <<>>, order)

-----------------------------------------------------------------------------
\* The cards of a scene that have their place from the layout.
Saved(scene) == IF scene.mode = "AUTO" THEN {} ELSE DOMAIN scene.items

\* The grid has a free cell for every card that has no place.
HasRoom(scene) ==
  LET nodes == buildForecourtNodes(scene)
      cards == [i \in Saved(scene) |-> nodes[i].at]
      cell(k) == Cell(k - 1, SlotCells, pumpBounds(scene.canvas, TankBottom))
  IN  Cardinality(DOMAIN nodes \ Saved(scene))
        <= Cardinality({k \in 1..SlotCells : Free(cards, <<>>, cell(k))})

\* A pump has the cards the layout saved of it, or else one; a saved card keeps its
\* place, the others never touch each other, and where the grid has room for them
\* they touch no saved card either (forecourtLayout.ts, pumpGridLayout.ts).
CardsArePlaced(scene) ==
  LET nodes == buildForecourtNodes(scene)
      saved == Saved(scene)
      cards(p, among) == Cardinality({i \in among : nodes[i].id = p.id})
  IN  /\ \A p \in scene.pumps : cards(p, DOMAIN nodes) = AtLeast(1, cards(p, saved))
      /\ \A i \in saved : /\ nodes[i].id = scene.items[i].asset
                          /\ nodes[i].at.x = scene.items[i].x
                          /\ nodes[i].at.y = scene.items[i].y
      /\ \A i \in DOMAIN nodes \ saved, j \in DOMAIN nodes :
           i # j /\ (j \in saved => HasRoom(scene)) =>
             ~rectsOverlap(nodes[i].at, nodes[j].at, 0)

\* In the AUTO layout, a branch that was moved aside still ends on the card of its
\* pump, and the rail runs below the tanks and above the pumps.
BranchesReachTheirPumps(scene, tankOf) ==
  LET nodes == buildForecourtNodes(scene)
  IN  scene.mode = "AUTO" /\ nodes # <<>> =>
        \A r \in ToSet(buildManifoldRoutes(nodes, tankOf)) :
           /\ r.pump.at.x < r.x /\ r.x < r.pump.at.x + r.pump.at.w
           /\ TankBottom < r.rail /\ r.rail < r.pump.at.y

\* A sale is played from the tank its pump's pipe is drawn to, when the pump has a
\* primary connection or its connections share one display order.
PlayedFromDrawnTank(connections, pump, product) ==
  LET matches == Matching(connections, pump)
  IN  (matches # <<>> /\ (Primaries(matches) # <<>> \/
         \A i, j \in DOMAIN matches : matches[i].order = matches[j].order)) =>
        resolveConnection(connections, pump, product).tank
          = pickConnectionForPump(connections, pump).tank
=============================================================================
