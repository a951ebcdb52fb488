--------------------------- MODULE LiveSalesProofs ----------------------------
(***************************************************************************)
(* Theorems about the page of live sales, for every set of sales, stations, *)
(* pumps and fetches and every bound: the summary and the pumps count a    *)
(* sale once, and a lit pump has a timer.  They are proved of the steps of *)
(* LiveSales, and carried over to the page.                                *)
(***************************************************************************)
EXTENDS Pages, Sequences, FiniteSetTheorems, WellFoundedInduction, TLAPS

\* How much of the ledger there can be in a snapshot.
Positions == 0..Len(ledger)

-----------------------------------------------------------------------------
(***************************************************************************)
(* The duplicate filter: what is remembered is there until it is dropped   *)
(* for its age or for the newer ids that fill the filter.                  *)
(***************************************************************************)

Ids(f) == LiveSales!ToSet(f)
IsFilter(f) == f \in Seq(Ids(f))

\* A set of natural numbers has a least one.
LEMMA LeastNat ==
  ASSUME NEW T, T \subseteq Nat, T # {}
  PROVE  \E n \in T : \A m \in T : n <= m
<1>1. PICK n \in T : \A m \in T : ~ (<<m, n>> \in OpToRel(<, Nat))
  BY WFMin, NatLessThanWellFounded
<1>2. ASSUME NEW m \in T PROVE n <= m
  <2>1. m \in Nat /\ n \in Nat
    OBVIOUS
  <2>2. m < n => <<m, n>> \in OpToRel(<, Nat)
    BY <2>1, Zenon DEF OpToRel
  <2>3. ~(m < n)
    BY <1>1, <2>2
  <2>. QED
    BY <2>1, <2>3
<1>. QED
  BY <1>2

\* A set with 0 and every successor has every natural number.
LEMMA NatSet ==
  ASSUME NEW T, 0 \in T, \A n \in Nat : n \in T => n + 1 \in T
  PROVE  Nat \subseteq T
<1>. SUFFICES ASSUME Nat \ T # {} PROVE FALSE
  OBVIOUS
<1>1. PICK n \in Nat \ T : \A m \in Nat \ T : n <= m
  BY LeastNat
<1>. QED
  BY <1>1

\* A sequence of anything is one of its own elements.
LEMMA SetOf == ASSUME NEW X, NEW f \in Seq(X)
  PROVE /\ IsFilter(f) /\ Ids(f) = {f[i] : i \in 1..Len(f)} /\ Ids(f) \subseteq X
<1>1. DOMAIN f = 1..Len(f) /\ Len(f) \in Nat /\ \A i \in 1..Len(f) : f[i] \in X
  OBVIOUS
<1>2. Ids(f) = {f[i] : i \in 1..Len(f)}
  BY <1>1 DEF LiveSales!ToSet, Ids
<1>3. f \in Seq(Ids(f))
  BY <1>1, <1>2
<1>. QED
  BY <1>1, <1>2, <1>3 DEF IsFilter

LEMMA EmptyFilter == IsFilter(<<>>)
<1>1. <<>> \in Seq({})
  OBVIOUS
<1>. QED
  BY <1>1, SetOf

\* Pruning leaves a full filter full.
LEMMA PrunedFilter ==
  ASSUME NEW f, IsFilter(f), NEW max \in Nat
  PROVE  LET p == LiveSales!Pruned(f, max) IN
         /\ IsFilter(p) /\ Ids(p) \subseteq Ids(f)
         /\ p = f \/ Len(p) = max
         /\ Len(f) >= max => Len(p) >= max
<1>. DEFINE n == Len(f)
            q == SubSeq(f, n - max + 1, n)
<1>1. f \in Seq(Ids(f)) /\ n \in Nat
  BY DEF IsFilter
<1>2. CASE n > max
  <2>1. q \in Seq(Ids(f)) /\ Len(q) = max
    BY <1>1, <1>2
  <2>2. LiveSales!Pruned(f, max) = q
    BY <1>2 DEF LiveSales!Pruned
  <2>. HIDE DEF q
  <2>3. IsFilter(q) /\ Ids(q) \subseteq Ids(f) /\ Len(q) >= max
    BY <2>1, SetOf
  <2>. QED
    BY <2>1, <2>2, <2>3
<1>3. CASE ~ n > max
  BY <1>1, <1>3 DEF LiveSales!Pruned
<1>. QED
  BY <1>2, <1>3

\* What is remembered is there, beside what pruning left.
LEMMA RememberedFilter ==
  ASSUME NEW f, IsFilter(f), NEW max \in Nat, NEW s
  PROVE  LET r == LiveSales!Remember(f, max, s)
             p == LiveSales!Pruned(f, max) IN
         /\ IsFilter(r) /\ Ids(r) = Ids(p) \cup {s} 
         /\ Len(p) >= max => Len(r) >= max
<1>. DEFINE p == LiveSales!Pruned(f, max)
            q == Append(p, s)
<1>0. IsFilter(p)
  BY PrunedFilter
<1>. HIDE DEF p
<1>1. IsFilter(p) /\ p \in Seq(Ids(p)) /\ Len(p) \in Nat
  BY <1>0 DEF IsFilter
<1>2. q \in Seq(Ids(p) \cup {s}) /\ Len(q) = Len(p) + 1
  BY <1>1
<1>3. IsFilter(q) /\ Ids(q) = {q[i] : i \in 1..Len(q)}
  BY <1>2, SetOf
<1>4. \A i \in 1..Len(p) : q[i] = p[i] /\ i \in 1..Len(q)
  BY <1>1
<1>5. q[Len(q)] = s /\ Len(q) \in 1..Len(q)
  BY <1>1, <1>2
<1>6. Ids(p) = {p[i] : i \in 1..Len(p)}
  BY <1>1, SetOf
<1>7. Ids(q) = Ids(p) \cup {s}
  <2>1. Ids(q) \subseteq Ids(p) \cup {s}
    BY <1>2, SetOf
  <2>2. Ids(p) \cup {s} \subseteq Ids(q)
    BY <1>3, <1>4, <1>5, <1>6
  <2>. QED
    BY <2>1, <2>2
<1>8. LiveSales!Remember(f, max, s) = IF s \in Ids(p) THEN p ELSE q
  BY DEF LiveSales!Remember, LiveSales!Has, Ids, p
<1>. HIDE DEF q
<1>. QED
  BY <1>1, <1>2, <1>3, <1>7, <1>8 DEF p

\* The rows of a snapshot are remembered, unless newer ones have filled the filter.  The
\* recursion of RememberRows is unfolded by induction over a set of numbers.
LEMMA RowsRemembered ==
  ASSUME LiveSales!LimitsAssumption, IsFilter(seen), NEW listing, IsFilter(listing)
  PROVE  LET r == LiveSales!RememberRows(listing) IN
         /\ IsFilter(r)
         /\ Ids(listing) \subseteq Ids(r) \/ Len(r) >= SeenMax
<1>. DEFINE n == Len(listing)
            row(k) == listing[n + 1 - k]
            Body(f, m) == [k \in 0..m |-> IF k = 0 THEN seen ELSE LiveSales!Remember(f[k - 1], SeenMax, row(k))]
            after == CHOOSE f : f = [k \in 0..n |-> IF k = 0 THEN seen ELSE LiveSales!Remember(f[k - 1], SeenMax, listing[Len(listing) + 1 - k])]
            T == {m \in Nat : \E f : f = Body(f, m)}
            Kept(f, m) == (\A k \in 1..m : row(k) \in Ids(f[m])) \/ Len(f[m]) >= SeenMax
<1>0. n \in Nat /\ SeenMax \in Nat
  BY DEF IsFilter, LiveSales!LimitsAssumption
<1>1. \A m \in Nat : m \in T
  <2>1. 0 \in T
    <3>. DEFINE f == [k \in 0..0 |-> seen]
    <3>1. f = Body(f, 0)
      OBVIOUS
    <3>. QED
      BY <3>1
  <2>2. ASSUME NEW m \in Nat, m \in T PROVE m + 1 \in T
    <3>1. PICK f : f = Body(f, m)
      BY <2>2
    <3>. DEFINE g == [k \in 0..(m + 1) |-> IF k = m + 1 THEN LiveSales!Remember(f[m], SeenMax, row(m + 1)) ELSE f[k]]
    <3>2. \A k \in 0..m : g[k] = f[k] /\ f[k] = IF k = 0 THEN seen ELSE LiveSales!Remember(f[k - 1], SeenMax, row(k))
      BY <3>1
    <3>3. ASSUME NEW k \in 0..(m + 1)
          PROVE g[k] = IF k = 0 THEN seen ELSE LiveSales!Remember(g[k - 1], SeenMax, row(k))
      <4>1. CASE k = m + 1
        BY <4>1, <3>2
      <4>2. CASE k # m + 1
        <5>1. k \in 0..m /\ (k # 0 => k - 1 \in 0..m)
          BY <4>2
        <5>. QED
          BY <5>1, <3>2
      <4>. QED
        BY <4>1, <4>2
    <3>4. g = Body(g, m + 1)
      <4>1. g = [k \in 0..(m + 1) |-> g[k]]
        OBVIOUS
      <4>. HIDE DEF g
      <4>. QED
        BY <3>3, <4>1
    <3>. HIDE DEF g, Body
    <3>. QED
      BY <3>4
  <2>3. Nat \subseteq T
    <3>. HIDE DEF T
    <3>. QED
      BY <2>1, <2>2, NatSet
  <2>. QED
    BY <2>3
<1>2. after = Body(after, n)
  BY <1>0, <1>1
<1>3. LiveSales!RememberRows(listing) = after[n]
  BY DEF LiveSales!RememberRows
<1>4. \A k \in 0..n : after[k] = IF k = 0 THEN seen ELSE LiveSales!Remember(after[k - 1], SeenMax, row(k))
  BY <1>2
<1>. HIDE DEF after, T, Body, row
<1>. DEFINE Good(m) == /\ IsFilter(after[m])
                       /\ (\A k \in 1..m : row(k) \in Ids(after[m])) \/ Len(after[m]) >= SeenMax
            Q == {m \in Nat : m <= n => Good(m)}
<1>5. 0 \in Q
  BY <1>0, <1>4
<1>6. ASSUME NEW m \in Nat, m \in Q PROVE m + 1 \in Q
  <2>. SUFFICES ASSUME m + 1 <= n
       PROVE /\ IsFilter(after[m + 1])
             /\ (\A k \in 1..(m + 1) : row(k) \in Ids(after[m + 1])) \/ Len(after[m + 1]) >= SeenMax
    OBVIOUS
  <2>. DEFINE f == after[m]
              p == LiveSales!Pruned(f, SeenMax)
              r == LiveSales!Remember(f, SeenMax, row(m + 1))
  <2>1. after[m + 1] = r
    BY <1>0, <1>4
  <2>2. /\ IsFilter(f)
        /\ (\A k \in 1..m : row(k) \in Ids(f)) \/ Len(f) >= SeenMax
    BY <1>0, <1>6
  <2>3. /\ p = f \/ Len(p) = SeenMax
        /\ Len(f) >= SeenMax => Len(p) >= SeenMax
    BY <1>0, <2>2, PrunedFilter
  <2>4. /\ IsFilter(r) /\ Ids(r) = Ids(p) \cup {row(m + 1)}
        /\ Len(p) >= SeenMax => Len(r) >= SeenMax
    BY <1>0, <2>2, RememberedFilter
  <2>. HIDE DEF f, p, r
  <2>5. Len(p) = SeenMax => Len(p) >= SeenMax
    BY <1>0
  <2>6. \A k \in 1..(m + 1) : k \in 1..m \/ k = m + 1
    OBVIOUS
  <2>. QED
    BY <2>1, <2>2, <2>3, <2>4, <2>5, <2>6
<1>7. n \in Q
  <2>. HIDE DEF Q
  <2>. QED
    BY <1>0, <1>5, <1>6, NatSet
<1>8. /\ IsFilter(after[n])
      /\ (\A k \in 1..n : row(k) \in Ids(after[n])) \/ Len(after[n]) >= SeenMax
  BY <1>0, <1>7
<1>9. ASSUME \A k \in 1..n : row(k) \in Ids(after[n]) PROVE Ids(listing) \subseteq Ids(after[n])
  <2>1. Ids(listing) = {listing[i] : i \in 1..n}
    BY SetOf DEF IsFilter
  <2>2. ASSUME NEW i \in 1..n PROVE listing[i] \in Ids(after[n])
    <3>1. n + 1 - i \in 1..n /\ n + 1 - (n + 1 - i) = i
      BY <1>0
    <3>2. row(n + 1 - i) \in Ids(after[n])
      BY <1>9, <3>1
    <3>. QED
      BY <3>1, <3>2 DEF row
  <2>. HIDE DEF n
  <2>. QED
    BY <2>1, <2>2
<1>. QED
  BY <1>3, <1>8, <1>9

\* What an id that ages leaves is a filter.
LEMMA AgedFilter ==
  ASSUME NEW f, IsFilter(f), NEW s, NEW g \in {f} \cup LiveSales!Without(f, s)
  PROVE  IsFilter(g)
<1>1. CASE g = f
  BY <1>1
<1>2. CASE g \in LiveSales!Without(f, s)
  <2>1. PICK k \in DOMAIN f : g = SubSeq(f, 1, k - 1) \o SubSeq(f, k + 1, Len(f))
    BY <1>2 DEF LiveSales!Without, LiveSales!RemoveAt
  <2>2. f \in Seq(Ids(f)) /\ k \in 1..Len(f)
    BY DEF IsFilter
  <2>3. SubSeq(f, 1, k - 1) \in Seq(Ids(f)) /\ SubSeq(f, k + 1, Len(f)) \in Seq(Ids(f))
    BY <2>2
  <2>4. g \in Seq(Ids(f))
    BY <2>1, <2>3
  <2>. QED
    BY <2>4, SetOf
<1>. QED
  BY <1>1, <1>2

\* The cardinality that LiveSales uses is that of the library.
LEMMA SameCardinality == ASSUME NEW S PROVE LiveSales!Cardinality(S) = Cardinality(S)
BY Zenon DEF LiveSales!Cardinality, Cardinality

\* A listing has a length.
LEMMA ListedFilter ==
  ASSUME LiveSales!LimitsAssumption, NEW seq \in Seq(Sales), NEW st
  PROVE  IsFilter(LiveSales!Newest(seq, st))
<1>. DEFINE own == {k \in DOMAIN seq : StationOf[seq[k]] = st}
            len == IF LiveSales!Cardinality(own) > RecentLimit THEN RecentLimit
                   ELSE LiveSales!Cardinality(own)
            place(j) == CHOOSE k \in own : LiveSales!Cardinality({l \in own : l > k}) = j - 1
            listing == [j \in 1..len |-> seq[place(j)]]
<1>1. IsFiniteSet(1..Len(seq)) /\ own \subseteq 1..Len(seq)
  BY FS_Interval
<1>2. IsFiniteSet(own)
  BY <1>1, FS_Subset
<1>3. LiveSales!Cardinality(own) \in Nat
  BY <1>2, FS_CardinalityType, SameCardinality
<1>. HIDE DEF own
<1>4. len \in Nat
  BY <1>3 DEF LiveSales!LimitsAssumption
<1>5. LiveSales!Newest(seq, st) = listing
  BY DEF LiveSales!Newest, own
<1>. DEFINE row(j) == seq[place(j)]
<1>6. listing = [j \in 1..len |-> row(j)]
  OBVIOUS
<1>. HIDE DEF len, row, listing
<1>7. listing \in Seq({row(j) : j \in 1..len})
  BY <1>4, <1>6
<1>. QED
  BY <1>5, <1>7, SetOf

-----------------------------------------------------------------------------
(***************************************************************************)
(* What a pump counts is in the duplicate filter or was dropped by it, so  *)
(* no later event of a remembered sale counts again.                       *)
(***************************************************************************)

PumpInv ==
  /\ pumped \in [Sales -> Nat]
  /\ ledger \in Seq(Sales)
  /\ IsFilter(seen)
  /\ aged \in Nat
  /\ LiveSales!PumpsCountOnce

LEMMA CountType ==
  ASSUME NEW set
  PROVE  /\ LiveSales!Count(set) \in [Sales -> Nat]
         /\ \A s \in Sales : LiveSales!Count(set)[s] = IF s \in set THEN 1 ELSE 0
BY DEF LiveSales!Count

\* The filter is pruned, or an id ages: what leaves it is forgotten.
LEMMA FilterShrinks ==
  ASSUME LiveSales!LimitsAssumption, PumpInv, IsFilter(seen'), aged' \in Nat,
         UNCHANGED <<pumped, ledger>>, LiveSales!Forgets(seen'), aged' >= aged,
         \/ aged' > 0
         \/ seen' = seen \/ (Len(seen) >= SeenMax /\ Len(seen') >= SeenMax)
  PROVE  PumpInv'
<1>1. forgotten' = forgotten \cup (Ids(seen) \ Ids(seen'))
  BY DEF LiveSales!Forgets, Ids
<1>2. ASSUME NEW s \in Sales \ forgotten'
      PROVE  pumped'[s] <= 1 /\ (pumped'[s] = 1 => s \in LiveSales!ToSet(seen'))
  BY <1>1 DEF PumpInv, LiveSales!PumpsCountOnce, Ids
<1>3. seen' = seen => forgotten' = forgotten
  BY <1>1
<1>4. forgotten' = {} \/ aged' > 0 \/ Len(seen') >= SeenMax
  BY <1>1, <1>3 DEF PumpInv, LiveSales!PumpsCountOnce
<1>. QED
  BY <1>2, <1>4 DEF PumpInv, LiveSales!PumpsCountOnce

LEMMA PumpNext == LiveSales!LimitsAssumption /\ PumpInv /\ [LiveSales!Next]_(LiveSales!vars)
  => PumpInv'
<1>. SUFFICES ASSUME LiveSales!LimitsAssumption, PumpInv, [LiveSales!Next]_(LiveSales!vars)
     PROVE  PumpInv'
  OBVIOUS
<1>0. SeenMax \in Nat /\ aged \in Nat /\ IsFilter(seen) /\ Len(seen) \in Nat
  BY DEF PumpInv, LiveSales!LimitsAssumption, IsFilter
<1>1. CASE UNCHANGED <<ledger, pumped, seen, forgotten, aged>>
  BY <1>1 DEF PumpInv, LiveSales!PumpsCountOnce, IsFilter, Ids
<1>2. CASE LiveSales!Clear /\ UNCHANGED <<ledger, aged>>
  <2>1. pumped' = LiveSales!Count({}) /\ seen' = <<>> /\ forgotten' = {}
    BY <1>2 DEF LiveSales!Clear
  <2>2. IsFilter(seen')
    BY <2>1, EmptyFilter
  <2>. QED
    BY <1>2, <2>1, <2>2, CountType DEF PumpInv, LiveSales!PumpsCountOnce
<1>3. ASSUME NEW i \in Fetches, NEW n \in Positions, NEW m \in Positions, LiveSales!Apply(i, n, m)
      PROVE  PumpInv'
  <2>. DEFINE listing == LiveSales!RecentOf(fetch[i].at, m)
  <2>1. /\ pumped' = LiveSales!Count(Ids(listing))
        /\ seen' = LiveSales!RememberRows(listing)
        /\ forgotten' = Ids(listing) \ Ids(seen')
        /\ UNCHANGED <<ledger, aged>>
    BY <1>3 DEF LiveSales!Apply, Ids
  <2>2. IsFilter(listing)
    <3>1. m \in 0..Len(ledger) /\ ledger \in Seq(Sales)
      BY DEF PumpInv, Positions
    <3>2. SubSeq(ledger, 1, m) \in Seq(Sales)
      BY <3>1
    <3>. QED
      BY <3>2, ListedFilter DEF LiveSales!RecentOf
  <2>3. IsFilter(seen') /\ (Ids(listing) \subseteq Ids(seen') \/ Len(seen') >= SeenMax)
    BY <1>0, <2>1, <2>2, RowsRemembered
  <2>. HIDE DEF listing
  <2>. QED
    BY <2>1, <2>3, CountType DEF PumpInv, LiveSales!PumpsCountOnce, Ids
<1>4. CASE LiveSales!HandleSale
  <2>. DEFINE s == Head(wire).sale
              left == LiveSales!Pruned(seen, SeenMax)
  <2>0. UNCHANGED <<ledger, aged>>
    BY <1>4 DEF LiveSales!HandleSale
  <2>1. CASE UNCHANGED LiveSales!hook
    BY <1>1, <2>0, <2>1 DEF LiveSales!hook
  <2>2. /\ IsFilter(left) /\ Ids(left) \subseteq Ids(seen)
        /\ left = seen \/ Len(left) = SeenMax
        /\ Len(seen) >= SeenMax => Len(left) >= SeenMax
    BY <1>0, PrunedFilter
  <2>3. left = seen \/ (Len(seen) >= SeenMax /\ Len(left) >= SeenMax)
    BY <1>0 DEF LiveSales!Pruned
  <2>4. CASE seen' = left /\ LiveSales!Forgets(left) /\ UNCHANGED pumped
    BY <1>0, <2>0, <2>2, <2>3, <2>4, FilterShrinks
  <2>5. CASE s \notin Ids(left) /\ LiveSales!Ingest(s) /\ LiveSales!Forgets(left)
    <3>1. /\ seen' = LiveSales!Remember(seen, SeenMax, s)
          /\ pumped' = [pumped EXCEPT ![s] = @ + 1]
          /\ forgotten' = forgotten \cup (Ids(seen) \ Ids(left))
      BY <2>5 DEF LiveSales!Ingest, LiveSales!Forgets, Ids
    <3>2. /\ IsFilter(seen') /\ Ids(seen') = Ids(left) \cup {s}
          /\ Len(left) >= SeenMax => Len(seen') >= SeenMax
      BY <1>0, <3>1, RememberedFilter
    <3>3. pumped \in [Sales -> Nat]
      BY DEF PumpInv
    <3>. HIDE DEF s, left
    <3>4. pumped' \in [Sales -> Nat]
      <4>1. s \in Sales => pumped[s] + 1 \in Nat
        BY <3>3
      <4>. QED
        BY <3>1, <3>3, <4>1
    <3>5. ASSUME NEW r \in Sales \ forgotten'
          PROVE  pumped'[r] <= 1 /\ (pumped'[r] = 1 => r \in Ids(seen'))
      <4>1. pumped'[r] = IF r = s THEN pumped[r] + 1 ELSE pumped[r]
        BY <3>1, <3>3
      <4>2. /\ pumped[r] \in Nat /\ pumped[r] <= 1 /\ (pumped[r] = 1 => r \in Ids(seen))
            /\ r \in Ids(seen) => r \in Ids(left)
        BY <3>1, <3>3 DEF PumpInv, LiveSales!PumpsCountOnce, Ids
      <4>3. r = s => pumped[r] = 0
        BY <2>5, <4>2
      <4>. QED
        BY <3>2, <4>1, <4>2, <4>3
    <3>6. forgotten' = {} \/ aged' > 0 \/ Len(seen') >= SeenMax
      <4>1. left = seen => forgotten' = forgotten
        BY <3>1
      <4>. QED
        BY <2>0, <2>2, <2>3, <3>1, <3>2, <4>1 DEF PumpInv, LiveSales!PumpsCountOnce
    <3>. QED
      BY <2>0, <3>2, <3>4, <3>5, <3>6 DEF PumpInv, LiveSales!PumpsCountOnce, Ids
  <2>. QED
    BY <1>4, <2>1, <2>4, <2>5 DEF LiveSales!HandleSale, LiveSales!Has, Ids
<1>5. ASSUME NEW s \in Sales, LiveSales!Age(s) PROVE PumpInv'
  <2>1. /\ seen' \in {seen} \cup LiveSales!Without(seen, s)
        /\ aged' = aged + 1 /\ LiveSales!Forgets(seen')
        /\ UNCHANGED <<pumped, ledger>>
    BY <1>5 DEF LiveSales!Age
  <2>2. IsFilter(seen')
    BY <1>0, <2>1, AgedFilter
  <2>3. aged' \in Nat /\ aged' > 0 /\ aged' >= aged
    BY <1>0, <2>1
  <2>. QED
    BY <2>1, <2>2, <2>3, FilterShrinks
<1>6. ASSUME NEW s \in Sales, LiveSales!Sell(s) PROVE PumpInv'
  <2>1. /\ ledger' = Append(ledger, s) /\ ledger' \in Seq(Sales)
        /\ UNCHANGED <<pumped, seen, forgotten, aged>>
    BY <1>6 DEF LiveSales!Sell, LiveSales!hook, PumpInv
  <2>. QED
    BY <2>1 DEF PumpInv, LiveSales!PumpsCountOnce, IsFilter, Ids
<1>7. LiveSales!Next =>
              \/ UNCHANGED <<ledger, pumped, seen, forgotten, aged>>
              \/ LiveSales!Clear /\ UNCHANGED <<ledger, aged>>
              \/ LiveSales!HandleSale
              \/ \E s \in Sales : LiveSales!Sell(s) \/ LiveSales!Age(s)
              \/ \E i \in Fetches, n, m \in Positions : LiveSales!Apply(i, n, m)
  BY DEF LiveSales!Next, Positions, LiveSales!Select, LiveSales!Refresh, LiveSales!hook,
     LiveSales!Reconfigure, LiveSales!HandleConnected, LiveSales!FetchFails,
     LiveSales!Establish, LiveSales!Break, LiveSales!HandleMalformed, LiveSales!Dim
<1>. QED
  BY <1>1, <1>2, <1>3, <1>4, <1>5, <1>6, <1>7 DEF LiveSales!vars, LiveSales!hook

LEMMA PumpInit == LiveSales!Init => PumpInv
<1>. SUFFICES ASSUME LiveSales!Init PROVE PumpInv
  OBVIOUS
<1>1. /\ pumped = LiveSales!Count({}) /\ seen = <<>> /\ forgotten = {} /\ aged = 0
      /\ ledger = <<>>
  BY DEF LiveSales!Init
<1>2. IsFilter(seen) /\ ledger \in Seq(Sales)
  BY <1>1, EmptyFilter
<1>. QED
  BY <1>1, <1>2, CountType DEF PumpInv, LiveSales!PumpsCountOnce

\* No pump counts a sale twice while its filter remembers it, whatever the stream
\* repeats and whichever snapshots are applied meanwhile (useStationLiveSales.ts).
THEOREM PumpsCorrect ==
  ASSUME LiveSales!LimitsAssumption
  PROVE  LiveSales!Spec => []LiveSales!PumpsCountOnce
<1>1. LiveSales!Init => PumpInv
  BY PumpInit
<1>2. PumpInv => LiveSales!PumpsCountOnce
  BY DEF PumpInv
<1>. QED
  BY <1>1, <1>2, PumpNext, PTL DEF LiveSales!Spec

-----------------------------------------------------------------------------
(***************************************************************************)
(* A pump is lit together with its timer, and what clears the timers       *)
(* clears the lights unless no station is shown.                           *)
(***************************************************************************)

LEMMA LitNext == LiveSales!LitPumpsHaveTimer /\ [LiveSales!Next]_(LiveSales!vars)
  => LiveSales!LitPumpsHaveTimer'
<1>. SUFFICES ASSUME LiveSales!LitPumpsHaveTimer, [LiveSales!Next]_(LiveSales!vars)
     PROVE  LiveSales!LitPumpsHaveTimer'
  OBVIOUS
<1>1. CASE UNCHANGED <<station, lit, timers>>
  BY <1>1 DEF LiveSales!LitPumpsHaveTimer
<1>2. ASSUME NEW st, NEW i \in Fetches, LiveSales!Select(st, i)
      PROVE  LiveSales!LitPumpsHaveTimer'
  BY <1>2 DEF LiveSales!Select, LiveSales!Clear, LiveSales!LitPumpsHaveTimer
<1>3. ASSUME NEW i \in Fetches, LiveSales!Reconfigure(i)
      PROVE  LiveSales!LitPumpsHaveTimer'
  BY <1>3 DEF LiveSales!Reconfigure, LiveSales!Clear, LiveSales!LitPumpsHaveTimer
<1>4. ASSUME NEW i \in Fetches, NEW n \in Positions, NEW m \in Positions, LiveSales!Apply(i, n, m)
      PROVE  LiveSales!LitPumpsHaveTimer'
  BY <1>4 DEF LiveSales!Apply, LiveSales!LitPumpsHaveTimer
<1>5. CASE LiveSales!HandleSale
  BY <1>5 DEF LiveSales!HandleSale, LiveSales!Ingest, LiveSales!LitPumpsHaveTimer,
     LiveSales!hook
<1>6. ASSUME NEW k \in LiveSales!Keys, LiveSales!Dim(k) PROVE LiveSales!LitPumpsHaveTimer'
  BY <1>6 DEF LiveSales!Dim, LiveSales!LitPumpsHaveTimer
<1>7. LiveSales!Next =>
              \/ UNCHANGED <<station, lit, timers>> \/ LiveSales!HandleSale
              \/ \E st \in Stations \cup {None}, i \in Fetches : LiveSales!Select(st, i)
              \/ \E i \in Fetches : LiveSales!Reconfigure(i)
              \/ \E i \in Fetches, n, m \in Positions : LiveSales!Apply(i, n, m)
              \/ \E k \in LiveSales!Keys : LiveSales!Dim(k)
  BY DEF LiveSales!Next, Positions, LiveSales!Sell, LiveSales!Refresh,
     LiveSales!HandleConnected, LiveSales!FetchFails, LiveSales!Establish,
     LiveSales!Break, LiveSales!HandleMalformed, LiveSales!Age, LiveSales!hook
<1>. QED
  BY <1>1, <1>2, <1>3, <1>4, <1>5, <1>6, <1>7 DEF LiveSales!vars, LiveSales!hook

LEMMA LitInit == LiveSales!Init => LiveSales!LitPumpsHaveTimer
BY DEF LiveSales!Init, LiveSales!LitPumpsHaveTimer

\* While a station is shown, a lit pump has a timer that ends it
\* (useStationLiveSales.ts).
THEOREM LightsCorrect == LiveSales!Spec => []LiveSales!LitPumpsHaveTimer
BY LitInit, LitNext, PTL DEF LiveSales!Spec

-----------------------------------------------------------------------------
(***************************************************************************)
(* The snapshot on the screen.  A snapshot is asked for before it is       *)
(* answered and the ledger only grows, so its summary counts every sale    *)
(* stored before it was asked for; the sales of its listing are in the     *)
(* duplicate filter or were dropped by it until the screen is cleared, so  *)
(* no event adds to those that are remembered.                             *)
(***************************************************************************)

\* A loadRest under way began at a position of the ledger.
Fetching == [at : Stations \cup {None}, began : Nat]

FetchInv ==
  \A i \in Fetches : fetch[i] # LiveSales!Idle
        => fetch[i] \in Fetching /\ fetch[i].began \in Positions

\* What is counted and what is listed of a snapshot.
Settled == LiveSales!AllOf(applied.of, applied.began)
ListedSales  == LiveSales!ToSet(LiveSales!RecentOf(applied.of, applied.recent))

Summaries == [of : Stations \cup {None}, n : [Sales -> Nat]]

ScreenInv ==
  applied # None =>
    /\ applied.began \in Positions /\ applied.recent \in Positions
    /\ summary \in Summaries
    /\ ListedSales \subseteq LiveSales!ToSet(seen) \cup forgotten
    /\ Settled \subseteq Sales
    /\ \A s \in Settled : summary.n[s] >= 1 /\ (s \in ListedSales \ forgotten => summary.n[s] = 1)

SnapshotInv ==
  /\ ledger \in Seq(Sales)
  /\ station \in Stations \cup {None}
  /\ DOMAIN fetch = Fetches
  /\ FetchInv
  /\ ScreenInv

\* A prefix of the ledger stays what it is when a sale is stored.
LEMMA PrefixStays ==
  ASSUME NEW S, NEW seq \in Seq(S), NEW e \in S, NEW n \in 0..Len(seq)
  PROVE  /\ SubSeq(Append(seq, e), 1, n) = SubSeq(seq, 1, n)
         /\ n \in 0..Len(Append(seq, e))
OBVIOUS

\* A longer prefix has the sales of a shorter one, and they are sales.
LEMMA LongerPrefix ==
  ASSUME NEW seq \in Seq(Sales), NEW m \in 0..Len(seq), NEW n \in 0..Len(seq), m <= n
  PROVE  /\ LiveSales!ToSet(SubSeq(seq, 1, m)) \subseteq LiveSales!ToSet(SubSeq(seq, 1, n))
         /\ LiveSales!ToSet(SubSeq(seq, 1, m)) \subseteq Sales
<1>1. /\ Len(SubSeq(seq, 1, m)) = m /\ \A k \in 1..m : SubSeq(seq, 1, m)[k] = seq[k]
      /\ Len(SubSeq(seq, 1, n)) = n /\ \A k \in 1..n : SubSeq(seq, 1, n)[k] = seq[k]
  OBVIOUS
<1>2. DOMAIN SubSeq(seq, 1, m) = 1..m /\ DOMAIN SubSeq(seq, 1, n) = 1..n
  BY <1>1
<1>3. \A k \in 1..m : k \in 1..n /\ seq[k] \in Sales
  OBVIOUS
<1>. QED
  BY <1>1, <1>2, <1>3 DEF LiveSales!ToSet

\* What a request is answered does not depend on the sales stored later.
LEMMA AnswersStay ==
  ASSUME ledger \in Seq(Sales), NEW s \in Sales, ledger' = Append(ledger, s),
         NEW n \in Positions, NEW st
  PROVE  /\ LiveSales!AllOf(st, n)' = LiveSales!AllOf(st, n)
         /\ LiveSales!RecentOf(st, n)' = LiveSales!RecentOf(st, n)
         /\ n \in Positions'
<1>1. SubSeq(ledger', 1, n) = SubSeq(ledger, 1, n) /\ n \in 0..Len(ledger')
  BY PrefixStays DEF Positions
<1>. QED
  BY <1>1 DEF LiveSales!AllOf, LiveSales!RecentOf, Positions

LEMMA SellKeepsSnapshots ==
  ASSUME SnapshotInv, NEW s \in Sales, LiveSales!Sell(s)
  PROVE  SnapshotInv'
<1>1. ledger \in Seq(Sales) /\ ledger' = Append(ledger, s)
      /\ UNCHANGED <<station, fetch, summary, seen, applied, forgotten>>
  BY DEF LiveSales!Sell, LiveSales!hook, SnapshotInv
<1>2. ledger' \in Seq(Sales)
  BY <1>1
<1>3. \A n \in Positions : n \in Positions'
  BY <1>1, AnswersStay
<1>4. FetchInv'
  BY <1>1, <1>3 DEF SnapshotInv, FetchInv
<1>5. ASSUME applied # None PROVE Settled' = Settled /\ ListedSales' = ListedSales
  <2>1. applied.began \in Positions /\ applied.recent \in Positions
    BY <1>5 DEF SnapshotInv, ScreenInv
  <2>. QED
    BY <1>1, <2>1, AnswersStay DEF Settled, ListedSales
<1>6. ScreenInv'
  BY <1>1, <1>3, <1>5 DEF SnapshotInv, ScreenInv
<1>. QED
  BY <1>1, <1>2, <1>4, <1>6 DEF SnapshotInv

\* A loadRest begins or fails: the screen and the ledger are what they were.
LEMMA ScreenStays ==
  ASSUME SnapshotInv, UNCHANGED <<ledger, station, summary, seen, applied, forgotten>>,
         DOMAIN fetch' = Fetches, FetchInv'
  PROVE  SnapshotInv'
<1>1. Settled' = Settled /\ ListedSales' = ListedSales /\ Positions' = Positions
  BY DEF Settled, ListedSales, LiveSales!AllOf, LiveSales!RecentOf,
     Positions
<1>2. ScreenInv'
  BY <1>1 DEF SnapshotInv, ScreenInv
<1>. QED
  BY <1>2 DEF SnapshotInv

LEMMA BeginKeepsFetches ==
  ASSUME SnapshotInv, NEW i \in Fetches, NEW st \in Stations \cup {None}, LiveSales!Begin(i, st),
         UNCHANGED ledger
  PROVE  DOMAIN fetch' = Fetches /\ FetchInv'
<1>. DEFINE new == LiveSales!NewFetch(st)
<1>1. fetch' = [fetch EXCEPT ![i] = new]
  BY DEF LiveSales!Begin
<1>2. DOMAIN fetch = Fetches /\ ledger \in Seq(Sales) /\ Positions' = Positions
  BY DEF SnapshotInv, Positions
<1>3. DOMAIN fetch' = Fetches /\ \A j \in Fetches : fetch'[j] = IF j = i THEN new ELSE fetch[j]
  BY <1>1, <1>2
<1>4. Len(ledger) \in Nat /\ Len(ledger) \in Positions
  BY <1>2 DEF Positions
<1>5. new \in Fetching /\ new.began = Len(ledger)
  BY <1>4 DEF Fetching, LiveSales!NewFetch
<1>. HIDE DEF new
<1>6. FetchInv'
  BY <1>2, <1>3, <1>4, <1>5 DEF SnapshotInv, FetchInv
<1>. QED
  BY <1>3, <1>6

LEMMA FailureKeepsFetches ==
  ASSUME SnapshotInv, NEW i \in Fetches, LiveSales!FetchFails(i)
  PROVE  DOMAIN fetch' = Fetches /\ FetchInv'
BY DEF LiveSales!FetchFails, SnapshotInv, FetchInv, Positions

LEMMA ApplyKeepsSnapshots ==
  ASSUME SnapshotInv, NEW i \in Fetches, NEW n \in Positions, NEW m \in Positions,
         LiveSales!Apply(i, n, m)
  PROVE  SnapshotInv'
<1>. DEFINE f == fetch[i]
            counted == LiveSales!AllOf(f.at, n)
            listing == LiveSales!RecentOf(f.at, m)
<1>1. /\ DOMAIN fetch = Fetches /\ ledger \in Seq(Sales) /\ UNCHANGED <<ledger, station>>
      /\ Positions' = Positions
  BY DEF SnapshotInv, Positions, LiveSales!Apply
<1>2. f # LiveSales!Idle /\ f \in Fetching /\ f.began \in Positions /\ f.began <= n
  BY DEF LiveSales!Apply, SnapshotInv, FetchInv
<1>3. fetch' = [fetch EXCEPT ![i] = LiveSales!Idle]
  BY DEF LiveSales!Apply
<1>4. DOMAIN fetch' = Fetches /\ FetchInv'
  BY <1>1, <1>3 DEF SnapshotInv, FetchInv
<1>5. /\ summary' = [of |-> f.at, n |-> LiveSales!Count(counted)]
      /\ applied' = [of |-> f.at, began |-> f.began, recent |-> m]
      /\ forgotten' = LiveSales!ToSet(listing) \ LiveSales!ToSet(seen')
  BY DEF LiveSales!Apply, LiveSales!SummaryOf
<1>6. ListedSales' = LiveSales!ToSet(listing) /\ Settled' = LiveSales!AllOf(f.at, f.began)
  BY <1>1, <1>5 DEF ListedSales, Settled, LiveSales!AllOf, LiveSales!RecentOf
<1>7. LiveSales!AllOf(f.at, f.began) \subseteq counted
        /\ LiveSales!AllOf(f.at, f.began) \subseteq Sales
  <2>1. f.began \in 0..Len(ledger) /\ n \in 0..Len(ledger)
    BY <1>2 DEF Positions
  <2>2. /\ LiveSales!ToSet(SubSeq(ledger, 1, f.began)) \subseteq LiveSales!ToSet(SubSeq(ledger, 1, n))
        /\ LiveSales!ToSet(SubSeq(ledger, 1, f.began)) \subseteq Sales
    BY <1>1, <1>2, <2>1, LongerPrefix
  <2>. QED
    BY <2>2 DEF LiveSales!AllOf
<1>8. /\ LiveSales!Count(counted) \in [Sales -> Nat]
      /\ \A s \in Sales : LiveSales!Count(counted)[s] = IF s \in counted THEN 1 ELSE 0
  BY CountType
<1>9. /\ summary'.n = LiveSales!Count(counted)
      /\ applied'.began = f.began /\ applied'.recent = m
  BY <1>5
<1>10. summary' \in Summaries
  BY <1>2, <1>5, <1>8 DEF Summaries, Fetching
<1>. HIDE DEF f, counted, listing
<1>11. \A s \in Settled' : summary'.n[s] >= 1 /\ (s \in ListedSales' \ forgotten' => summary'.n[s] = 1)
  BY <1>6, <1>7, <1>8, <1>9
<1>12. ScreenInv'
  BY <1>1, <1>2, <1>5, <1>6, <1>7, <1>9, <1>10, <1>11 DEF ScreenInv
<1>. QED
  BY <1>1, <1>4, <1>12 DEF SnapshotInv

\* The filter drops ids: what was listed is still there or forgotten.
LEMMA FilterKeepsSnapshots ==
  ASSUME SnapshotInv, UNCHANGED <<ledger, station, fetch, summary, applied>>,
         LiveSales!Forgets(seen')
  PROVE  SnapshotInv'
<1>1. Settled' = Settled /\ ListedSales' = ListedSales /\ Positions' = Positions
  BY DEF Settled, ListedSales, LiveSales!AllOf, LiveSales!RecentOf,
     Positions
<1>2. FetchInv'
  BY <1>1 DEF SnapshotInv, FetchInv
<1>3. forgotten' = forgotten \cup (LiveSales!ToSet(seen) \ LiveSales!ToSet(seen'))
  BY DEF LiveSales!Forgets
<1>4. ScreenInv'
  BY <1>1, <1>3 DEF SnapshotInv, ScreenInv
<1>. QED
  BY <1>2, <1>4 DEF SnapshotInv

\* A sale that enters the summary is not one of the listing that the filter remembers.
LEMMA SaleKeepsSnapshots ==
  ASSUME LiveSales!NoneAssumption, LiveSales!LimitsAssumption, IsFilter(seen), SnapshotInv,
         LiveSales!HandleSale
  PROVE  SnapshotInv'
<1>. DEFINE s == Head(wire).sale
            left == LiveSales!Pruned(seen, SeenMax)
<1>1. UNCHANGED <<ledger, station, fetch>>
  BY DEF LiveSales!HandleSale
<1>2. DOMAIN fetch' = Fetches /\ FetchInv'
  BY <1>1 DEF SnapshotInv, FetchInv, Positions
<1>3. CASE UNCHANGED LiveSales!hook
  BY <1>1, <1>2, <1>3, ScreenStays DEF LiveSales!hook
<1>5. CASE /\ seen' = left /\ LiveSales!Forgets(left)
           /\ UNCHANGED <<summary, sales, pumped, lit, unmapped, applied, timers>>
  BY <1>1, <1>5, FilterKeepsSnapshots
<1>4. CASE s \notin Ids(left) /\ LiveSales!Ingest(s) /\ LiveSales!Forgets(left)
  <2>0. /\ seen' = LiveSales!Remember(seen, SeenMax, s)
        /\ forgotten' = forgotten \cup (Ids(seen) \ Ids(left))
    BY <1>4 DEF LiveSales!Ingest, LiveSales!Forgets, Ids
  <2>1. /\ Ids(left) \subseteq Ids(seen') /\ applied' = applied
        /\ summary' = IF summary = None THEN None ELSE [summary EXCEPT !.n[s] = @ + 1]
    BY <1>4, <2>0, RememberedFilter DEF LiveSales!Ingest, LiveSales!LimitsAssumption
  <2>2. Settled' = Settled /\ ListedSales' = ListedSales /\ Positions' = Positions
    BY <1>1, <2>1 DEF Settled, ListedSales, LiveSales!AllOf, LiveSales!RecentOf,
       Positions
  <2>3. ASSUME applied # None
        PROVE  /\ summary' \in Summaries /\ summary.n \in [Sales -> Nat]
               /\ \A r \in Sales : summary'.n[r] = IF r = s THEN summary.n[r] + 1 ELSE summary.n[r]
    <3>1. summary \in Summaries /\ summary # None
      BY <2>3 DEF SnapshotInv, ScreenInv, LiveSales!NoneAssumption, Summaries
    <3>. DEFINE n == summary.n
                added == [n EXCEPT ![s] = n[s] + 1]
    <3>2. n \in [Sales -> Nat] /\ (s \in Sales => n[s] + 1 \in Nat)
      BY <3>1 DEF Summaries
    <3>. HIDE DEF s
    <3>3. added \in [Sales -> Nat]
      BY <3>2
    <3>4. \A r \in Sales : added[r] = IF r = s THEN n[r] + 1 ELSE n[r]
      BY <3>2
    <3>5. summary' \in Summaries /\ summary'.n = added
      BY <2>1, <3>1, <3>3 DEF Summaries
    <3>. QED
      BY <3>2, <3>4, <3>5
  <2>4. ASSUME applied # None, NEW r \in Settled
        PROVE  summary'.n[r] >= 1 /\ (r \in ListedSales \ forgotten' => summary'.n[r] = 1)
    <3>0. r \in ListedSales \ forgotten' => r \in Ids(left) /\ r \notin forgotten
      BY <2>0, <2>4 DEF SnapshotInv, ScreenInv, Ids
    <3>1. /\ r \in Sales /\ summary.n[r] >= 1
          /\ r \in ListedSales \ forgotten' => summary.n[r] = 1 /\ r # s
      BY <1>4, <2>4, <3>0 DEF SnapshotInv, ScreenInv
    <3>2. summary.n[r] \in Nat
      BY <2>3, <2>4, <3>1
    <3>. QED
      BY <2>3, <2>4, <3>1, <3>2
  <2>5. ListedSales' \subseteq LiveSales!ToSet(seen') \cup forgotten' \/ applied = None
    BY <2>0, <2>1, <2>2 DEF SnapshotInv, ScreenInv, Ids
  <2>6. ScreenInv'
    BY <2>1, <2>2, <2>3, <2>4, <2>5 DEF SnapshotInv, ScreenInv
  <2>. QED
    BY <1>1, <1>2, <2>6 DEF SnapshotInv
<1>. QED
  BY <1>3, <1>4, <1>5 DEF LiveSales!HandleSale, LiveSales!Has, Ids

\* The screen is cleared and a loadRest begins.
LEMMA ClearKeepsSnapshots ==
  ASSUME SnapshotInv, NEW i \in Fetches, NEW st \in Stations \cup {None},
         LiveSales!Begin(i, st), LiveSales!Clear,
         station' = st, UNCHANGED ledger
  PROVE  SnapshotInv'
<1>1. DOMAIN fetch' = Fetches /\ FetchInv'
  BY BeginKeepsFetches
<1>2. applied' = None
  BY DEF LiveSales!Clear
<1>. QED
  BY <1>1, <1>2 DEF SnapshotInv, ScreenInv

LEMMA SnapshotNext == LiveSales!NoneAssumption /\ LiveSales!LimitsAssumption /\ PumpInv
  /\ SnapshotInv /\ [LiveSales!Next]_(LiveSales!vars) => SnapshotInv'
<1>. SUFFICES ASSUME LiveSales!NoneAssumption, LiveSales!LimitsAssumption, PumpInv,
              SnapshotInv, [LiveSales!Next]_(LiveSales!vars)
     PROVE  SnapshotInv'
  OBVIOUS
<1>. USE DEF LiveSales!hook
<1>1. ASSUME NEW s \in Sales, LiveSales!Sell(s) PROVE SnapshotInv'
  BY <1>1, SellKeepsSnapshots
<1>2. ASSUME NEW st \in Stations \cup {None}, NEW i \in Fetches, LiveSales!Select(st, i)
      PROVE  SnapshotInv'
  <2>1. CASE st = None
    <3>1. UNCHANGED <<ledger, fetch, summary, seen, applied, forgotten>>
      BY <1>2, <2>1 DEF LiveSales!Select
    <3>2. Settled' = Settled /\ ListedSales' = ListedSales /\ Positions' = Positions
      BY <3>1 DEF Settled, ListedSales, LiveSales!AllOf, LiveSales!RecentOf, Positions
    <3>3. station' = st
      BY <1>2 DEF LiveSales!Select
    <3>. QED
      BY <3>1, <3>2, <3>3 DEF SnapshotInv, FetchInv, ScreenInv
  <2>2. CASE st # None
    BY <1>2, <2>2, ClearKeepsSnapshots DEF LiveSales!Select
  <2>. QED
    BY <2>1, <2>2
<1>3. ASSUME NEW i \in Fetches, LiveSales!Refresh(i) \/ LiveSales!HandleConnected(i)
      PROVE  SnapshotInv'
  <2>1. station \in Stations \cup {None} /\ UNCHANGED <<ledger, station, LiveSales!hook>>
    BY <1>3 DEF LiveSales!Refresh, LiveSales!HandleConnected, SnapshotInv
  <2>2. CASE LiveSales!Begin(i, station)
    BY <2>1, <2>2, BeginKeepsFetches, ScreenStays
  <2>3. CASE UNCHANGED fetch
    BY <2>1, <2>3, ScreenStays DEF SnapshotInv, FetchInv, Positions
  <2>. QED
    BY <1>3, <2>2, <2>3 DEF LiveSales!Refresh, LiveSales!HandleConnected
<1>4. ASSUME NEW i \in Fetches, LiveSales!Reconfigure(i) PROVE SnapshotInv'
  BY <1>4, ClearKeepsSnapshots DEF LiveSales!Reconfigure, SnapshotInv
<1>5. ASSUME NEW i \in Fetches, LiveSales!FetchFails(i) PROVE SnapshotInv'
  BY <1>5, FailureKeepsFetches, ScreenStays DEF LiveSales!FetchFails
<1>6. ASSUME NEW i \in Fetches, NEW n \in Positions, NEW m \in Positions, LiveSales!Apply(i, n, m)
      PROVE  SnapshotInv'
  BY <1>6, ApplyKeepsSnapshots
<1>7. CASE LiveSales!HandleSale
  BY <1>7, SaleKeepsSnapshots DEF PumpInv
<1>10. ASSUME NEW s \in Sales, LiveSales!Age(s) PROVE SnapshotInv'
  BY <1>10, FilterKeepsSnapshots DEF LiveSales!Age
<1>8. CASE UNCHANGED <<ledger, station, fetch, summary, seen, applied, forgotten>>
  BY <1>8, ScreenStays DEF SnapshotInv, FetchInv, Positions
<1>9. LiveSales!Next =>
              \/ UNCHANGED <<ledger, station, fetch, summary, seen, applied, forgotten>>
              \/ \E s \in Sales : LiveSales!Sell(s) \/ LiveSales!Age(s)
              \/ \E st \in Stations \cup {None}, i \in Fetches : LiveSales!Select(st, i)
              \/ \E i \in Fetches : \/ LiveSales!Refresh(i) \/ LiveSales!Reconfigure(i)
                   \/ LiveSales!HandleConnected(i)
                                    \/ LiveSales!FetchFails(i)
              \/ \E i \in Fetches, n, m \in Positions : LiveSales!Apply(i, n, m)
              \/ LiveSales!HandleSale
  BY DEF LiveSales!Next, Positions, LiveSales!Establish, LiveSales!Break,
     LiveSales!HandleMalformed, LiveSales!Dim
<1>. QED
  BY <1>1, <1>2, <1>3, <1>4, <1>5, <1>6, <1>7, <1>8, <1>9, <1>10 DEF LiveSales!vars

LEMMA SnapshotInit == LiveSales!Init => SnapshotInv
<1>. SUFFICES ASSUME LiveSales!Init PROVE SnapshotInv
  OBVIOUS
<1>1. ledger = <<>> /\ applied = None /\ station \in Stations \cup {None}
  BY DEF LiveSales!Init
<1>2. DOMAIN fetch = Fetches
      /\ \A i \in Fetches : fetch[i] # LiveSales!Idle => fetch[i] = LiveSales!NewFetch(station)
  BY DEF LiveSales!Init
<1>3. Len(ledger) = 0 /\ 0 \in Positions
  BY <1>1 DEF Positions
<1>4. LiveSales!NewFetch(station) \in Fetching
  BY <1>1, <1>3 DEF LiveSales!NewFetch, Fetching
<1>5. FetchInv
  BY <1>2, <1>3, <1>4 DEF FetchInv, LiveSales!NewFetch
<1>. QED
  BY <1>1, <1>2, <1>5 DEF SnapshotInv, ScreenInv

\* The summary on the screen counts every sale stored before its snapshot was asked
\* for, and once if its listing had the sale and the filter has not dropped it
\* (useStationLiveSales.ts).
THEOREM SnapshotsCorrect ==
  ASSUME LiveSales!NoneAssumption, LiveSales!LimitsAssumption
  PROVE  LiveSales!Spec => []LiveSales!SettledSalesCountedOnce
<1>1. SnapshotInv => LiveSales!SettledSalesCountedOnce
  BY DEF SnapshotInv, ScreenInv, LiveSales!SettledSalesCountedOnce, Settled, ListedSales
<1>2. PumpInv /\ SnapshotInv /\ [LiveSales!Next]_(LiveSales!vars) => PumpInv' /\ SnapshotInv'
  BY PumpNext, SnapshotNext
<1>. QED
  BY <1>1, <1>2, PumpInit, SnapshotInit, PTL DEF LiveSales!Spec

-----------------------------------------------------------------------------
(***************************************************************************)
(* The page that shows the live sales.                                     *)
(***************************************************************************)

\* A page that is open takes its own steps, and stays open.
LEMMA PageSteps ==
  /\ Init /\ page = "sales" => LiveSales!Init
  /\ [Next]_vars => page' = page
  /\ [Next]_vars /\ page = "sales" => [LiveSales!Next]_(LiveSales!vars)
<1>1. ASSUME Init PROVE (page = "sales" => LiveSales!Init)
  <2>1. page \in DOMAIN Cases => page \in {"layout", "pipes", "hours", "display", "totals"}
    BY DEF Cases
  <2>. QED
    BY <1>1, <2>1 DEF Init, OpenSales, OpenForm, OpenAdmin, OpenLive, OpenAlerts,
       OpenRecon, OpenCase
<1>2. ASSUME Next PROVE page' = page /\ (page = "sales" => LiveSales!Next)
  BY <1>2 DEF Next, SalesStep, FormStep, AdminStep, LiveStep, AlertsStep, ReconStep
<1>3. ASSUME UNCHANGED vars PROVE page' = page /\ UNCHANGED LiveSales!vars
  BY <1>3 DEF vars, salesState, readingsState, adminState, liveState, alertsState,
     reconState, LiveSales!vars, LiveSales!hook, LiveSales!stream
<1>. QED
  BY <1>1, <1>2, <1>3

\* The summary that the page shows counts a stored sale once, unless the filter has
\* dropped it (useStationLiveSales.ts).
THEOREM SalesSnapshotsCorrect == Spec => []SettledSalesCountedOnce
<1>. DEFINE Inv == page = "sales" => PumpInv /\ SnapshotInv
<1>1. Init => Inv
  BY PageSteps, PumpInit, SnapshotInit
<1>2. Inv /\ [Next]_vars => Inv'
  BY PageSteps, PumpNext, SnapshotNext, NoneAssumption, LimitsAssumption
<1>3. Inv => SettledSalesCountedOnce
  BY DEF SettledSalesCountedOnce, LiveSales!SettledSalesCountedOnce, SnapshotInv, ScreenInv,
     Settled, ListedSales
<1>. HIDE DEF Inv
<1>. QED
  BY <1>1, <1>2, <1>3, PTL DEF Spec

\* No pump of the page counts a sale twice while its filter remembers it, and the filter
\* drops no sale but for its age or for newer ones (useStationLiveSales.ts).
THEOREM SalesPumpsCorrect == Spec => []PumpsCountOnce
<1>. DEFINE Inv == page = "sales" => PumpInv
<1>1. Init => Inv
  BY PageSteps, PumpInit
<1>2. Inv /\ [Next]_vars => Inv'
  BY PageSteps, PumpNext, LimitsAssumption
<1>3. Inv => PumpsCountOnce
  BY DEF PumpsCountOnce, LiveSales!PumpsCountOnce, PumpInv
<1>. HIDE DEF Inv
<1>. QED
  BY <1>1, <1>2, <1>3, PTL DEF Spec

\* A lit pump of the page has a timer that ends it (useStationLiveSales.ts).
THEOREM SalesLightsCorrect == Spec => []LitPumpsHaveTimer
<1>. DEFINE Inv == page = "sales" => LiveSales!LitPumpsHaveTimer
<1>1. Init => Inv
  BY PageSteps, LitInit
<1>2. Inv /\ [Next]_vars => Inv'
  BY PageSteps, LitNext
<1>3. Inv => LitPumpsHaveTimer
  BY DEF LitPumpsHaveTimer, LiveSales!LitPumpsHaveTimer
<1>. HIDE DEF Inv
<1>. QED
  BY <1>1, <1>2, <1>3, PTL DEF Spec
===============================================================================
