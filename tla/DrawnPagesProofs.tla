--------------------------- MODULE DrawnPagesProofs ---------------------------
(***************************************************************************)
(* Theorems about what the pages draw, for every scene, every feeding and  *)
(* all takings: the cards of the forecourt, the branches of its pipes, and *)
(* the day's sales on two pages.  What the code computes item by item is a *)
(* fold; each fold is shown to exist, and to have its invariant after      *)
(* every item, by induction over a set of numbers.                         *)
(***************************************************************************)
EXTENDS StationPagesProofs, FiniteSetTheorems, SequenceTheorems

-----------------------------------------------------------------------------
(***************************************************************************)
(* Induction, folds and orders.  Sets of numbers stand for what holds of   *)
(* them, so that the facts about them are first-order.                     *)
(***************************************************************************)

\* A set of natural numbers has a least one.
LEMMA LeastNat ==
  ASSUME NEW T, T \subseteq Nat, T # {}
  PROVE  \E n \in T : \A m \in T : n <= m
<1>1. PICK n \in T : \A m \in T : ~ (<<m, n>> \in OpToRel(<, Nat))
  BY WFMin, NatLessThanWellFounded
<1>2. ASSUME NEW m \in T PROVE n <= m
  <2>1. m \in Nat /\ n \in Nat
    OBVIOUS
  <2>2. m < n => <<m, n>> \in OpToRel(<, Nat)
    BY <2>1, Zenon DEF OpToRel
  <2>3. ~(m < n)
    BY <1>1, <2>2
  <2>. QED
    BY <2>1, <2>3
<1>. QED
  BY <1>2

\* A set with 0 and every successor has every natural number.
LEMMA NatSet ==
  ASSUME NEW T, 0 \in T, \A n \in Nat : n \in T => n + 1 \in T
  PROVE  Nat \subseteq T
<1>. SUFFICES ASSUME Nat \ T # {} PROVE FALSE
  OBVIOUS
<1>1. PICK n \in Nat \ T : \A m \in Nat \ T : n <= m
  BY LeastNat
<1>. QED
  BY <1>1

\* The largest of a set, as the folds of the community modules choose it.
MaxOf(s) == CHOOSE x \in s : \A y \in s : x >= y

\* A set of numbers up to n has a largest.
LEMMA MaxElement ==
  ASSUME NEW n \in Nat, NEW s \in SUBSET (1..n), s # {}
  PROVE  MaxOf(s) \in s /\ MaxOf(s) \in 1..n
<1>. DEFINE T == {n - m : m \in s}
<1>0. \A m \in s : n - m \in Nat
  OBVIOUS
<1>1. T \subseteq Nat /\ T # {}
  BY <1>0
<1>2. PICK k \in T : \A l \in T : k <= l
  BY <1>1, LeastNat
<1>3. PICK m \in s : k = n - m
  OBVIOUS
<1>4. ASSUME NEW y \in s PROVE m >= y
  <2>1. n - m <= n - y
    BY <1>2, <1>3
  <2>. QED
    BY <2>1
<1>5. MaxOf(s) \in s
  BY <1>4, Zenon DEF MaxOf
<1>. QED
  BY <1>5

\* The bound is the largest, where it is in the set.
LEMMA MaxInterval ==
  ASSUME NEW n \in Nat, NEW s \in SUBSET (1..(n + 1)), n + 1 \in s
  PROVE  MaxOf(s) = n + 1
<1>1. \A y \in s : y \in Int /\ n + 1 >= y
  OBVIOUS
<1>2. MaxOf(s) \in s /\ \A y \in s : MaxOf(s) >= y
  BY <1>1, Zenon DEF MaxOf
<1>3. MaxOf(s) \in Int /\ MaxOf(s) >= n + 1 /\ n + 1 >= MaxOf(s)
  BY <1>1, <1>2
<1>. QED
  BY <1>3

\* What folds over 1..n from left to right, as FoldLeft does.
IsFold(g, n, base, step) ==
  g = [s \in SUBSET (1..n) |-> IF s = {} THEN base ELSE step[<<g[s \ {MaxOf(s)}], MaxOf(s)>>]]

\* Such a fold exists, with its values in S.
HasFold(S, n, base, step) == \E g \in [SUBSET (1..n) -> S] : IsFold(g, n, base, step)

\* A step that stays in S has a fold.
LEMMA Folding ==
  ASSUME NEW S, NEW base \in S, NEW n \in Nat, NEW step \in [S \X (1..n) -> S]
  PROVE  HasFold(S, n, base, step)
<1>. DEFINE T == {m \in Nat : m <= n => HasFold(S, m, base, step)}
<1>1. 0 \in T
  <2>. DEFINE g == [s \in SUBSET (1..0) |-> base]
  <2>1. \A s \in SUBSET (1..0) : s = {}
    OBVIOUS
  <2>2. g \in [SUBSET (1..0) -> S] /\ IsFold(g, 0, base, step)
    BY <2>1 DEF IsFold
  <2>. QED
    BY <2>2 DEF HasFold
<1>2. ASSUME NEW m \in Nat, m \in T PROVE m + 1 \in T
  <2>. SUFFICES ASSUME m + 1 <= n
                PROVE  HasFold(S, m + 1, base, step)
    OBVIOUS
  <2>0. HasFold(S, m, base, step)
    <3>1. m <= n
      OBVIOUS
    <3>. QED
      BY <1>2, <3>1
  <2>1. PICK f \in [SUBSET (1..m) -> S] : IsFold(f, m, base, step)
    BY <2>0 DEF HasFold
  <2>. DEFINE g == [s \in SUBSET (1..(m + 1)) |->
                      IF m + 1 \in s THEN step[<<f[s \ {m + 1}], m + 1>>] ELSE f[s]]
  <2>2. ASSUME NEW s \in SUBSET (1..(m + 1))
        PROVE  /\ m + 1 \in s => s \ {m + 1} \in SUBSET (1..m)
               /\ m + 1 \notin s => s \in SUBSET (1..m)
    OBVIOUS
  <2>3. ASSUME NEW s \in SUBSET (1..m) PROVE g[s] = f[s]
    <3>1. s \in SUBSET (1..(m + 1)) /\ m + 1 \notin s
      OBVIOUS
    <3>. QED
      BY <3>1
  <2>4. g \in [SUBSET (1..(m + 1)) -> S]
    <3>1. ASSUME NEW s \in SUBSET (1..(m + 1)) PROVE g[s] \in S
      <4>1. CASE m + 1 \in s
        <5>1. f[s \ {m + 1}] \in S /\ m + 1 \in 1..n
          BY <2>2, <4>1
        <5>. QED
          BY <4>1, <5>1
      <4>2. CASE m + 1 \notin s
        BY <2>2, <4>2
      <4>. QED
        BY <4>1, <4>2
    <3>. QED
      BY <3>1
  <2>5. ASSUME NEW s \in SUBSET (1..(m + 1)), s # {}
        PROVE  g[s] = step[<<g[s \ {MaxOf(s)}], MaxOf(s)>>]
    <3>1. CASE m + 1 \in s
      <4>1. MaxOf(s) = m + 1
        BY <3>1, MaxInterval
      <4>2. g[s \ {m + 1}] = f[s \ {m + 1}]
        BY <2>2, <2>3, <3>1
      <4>. QED
        BY <3>1, <4>1, <4>2
    <3>2. CASE m + 1 \notin s
      <4>1. s \in SUBSET (1..m) /\ s \ {MaxOf(s)} \in SUBSET (1..m)
        BY <2>2, <3>2
      <4>2. g[s] = f[s] /\ g[s \ {MaxOf(s)}] = f[s \ {MaxOf(s)}]
        BY <2>3, <4>1
      <4>3. f[s] = step[<<f[s \ {MaxOf(s)}], MaxOf(s)>>]
        BY <2>1, <2>5, <4>1 DEF IsFold
      <4>. QED
        BY <4>2, <4>3
    <3>. QED
      BY <3>1, <3>2
  <2>6. g[{}] = base
    <3>1. f[{}] = base
      BY <2>1 DEF IsFold
    <3>. QED
      BY <2>3, <3>1
  <2>7. IsFold(g, m + 1, base, step)
    <3>1. g = [s \in SUBSET (1..(m + 1)) |-> g[s]]
      OBVIOUS
    <3>. HIDE DEF g
    <3>. QED
      BY <2>5, <2>6, <3>1 DEF IsFold
  <2>. QED
    BY <2>4, <2>7 DEF HasFold
<1>3. n \in T
  <2>. HIDE DEF T
  <2>. QED
    BY <1>1, <1>2, NatSet
<1>. QED
  BY <1>3

\* R is a strict total order of S.
StrictOrder(S, R) ==
  /\ \A x \in S : <<x, x>> \notin R
  /\ \A x, y, z \in S : <<x, y>> \in R /\ <<y, z>> \in R => <<x, z>> \in R
  /\ \A x, y \in S : x # y => <<x, y>> \in R \/ <<y, x>> \in R

\* s has each element of S once, in the order R.
IsOrdered(s, S, R) ==
  LET n == Cardinality(S) IN
  /\ s \in [1..n -> S]
  /\ \A i, j \in 1..n : i < j => <<s[i], s[j]>> \in R
  /\ \A i, j \in 1..n : i # j => s[i] # s[j]
  /\ \A x \in S : \E i \in 1..n : s[i] = x

\* The numbers of elements before each element are those from 0 on.
LEMMA Places ==
  ASSUME NEW S, IsFiniteSet(S), NEW R, StrictOrder(S, R),
         NEW place, place = [x \in S |-> Cardinality({y \in S : <<y, x>> \in R})]
  PROVE  /\ Cardinality(S) \in Nat
         /\ place \in [S -> 0..(Cardinality(S) - 1)]
         /\ \A x, y \in S : <<x, y>> \in R => place[x] < place[y]
         /\ \A i \in 1..Cardinality(S) : \E x \in S : place[x] = i - 1
<1>. DEFINE n == Cardinality(S)
            below(x) == {y \in S : <<y, x>> \in R}
<1>0. n \in Nat
  BY FS_CardinalityType
<1>1. ASSUME NEW x \in S
      PROVE  /\ IsFiniteSet(below(x)) /\ place[x] = Cardinality(below(x))
             /\ place[x] \in Nat /\ place[x] < n
  <2>1. below(x) \subseteq S /\ below(x) # S
    BY DEF StrictOrder
  <2>2. IsFiniteSet(below(x)) /\ Cardinality(below(x)) <= Cardinality(S)
        /\ Cardinality(below(x)) # Cardinality(S)
    BY <2>1, FS_Subset
  <2>3. place[x] = Cardinality(below(x))
    OBVIOUS
  <2>. QED
    BY <2>2, <2>3, <1>0, FS_CardinalityType
<1>. HIDE DEF below
<1>2. ASSUME NEW x \in S, NEW y \in S, <<x, y>> \in R
      PROVE  place[x] < place[y]
  <2>1. below(x) \subseteq below(y) /\ x \in below(y) /\ x \notin below(x)
    BY <1>2 DEF StrictOrder, below
  <2>2. /\ Cardinality(below(x)) <= Cardinality(below(y))
        /\ Cardinality(below(x)) # Cardinality(below(y))
    BY <2>1, <1>1, FS_Subset
  <2>3. /\ place[x] \in Nat /\ place[y] \in Nat
        /\ place[x] = Cardinality(below(x)) /\ place[y] = Cardinality(below(y))
    BY <1>1
  <2>. QED
    BY <2>2, <2>3
<1>3. ASSUME NEW x \in S, NEW y \in S, x # y
      PROVE  place[x] # place[y]
  <2>1. place[x] \in Nat /\ place[y] \in Nat
    BY <1>1
  <2>2. place[x] < place[y] \/ place[y] < place[x]
    BY <1>2, <1>3 DEF StrictOrder
  <2>. QED
    BY <2>1, <2>2
<1>. HIDE DEF n
<1>4. place \in [S -> 0..(n - 1)]
  <2>1. \A x \in S : place[x] \in 0..(n - 1)
    BY <1>0, <1>1
  <2>. QED
    BY <2>1
<1>5. \A k \in 0..(n - 1) : \E x \in S : place[x] = k
  <2>1. IsFiniteSet(0..(n - 1)) /\ Cardinality(0..(n - 1)) = n
    BY <1>0, FS_Interval
  <2>2. place \in Injection(S, 0..(n - 1))
    BY <1>3, <1>4 DEF Injection, IsInjective
  <2>3. place \in Surjection(S, 0..(n - 1))
    BY <2>1, <2>2, FS_Injection DEF n
  <2>. QED
    BY <2>3 DEF Surjection
<1>6. \A i \in 1..n : \E x \in S : place[x] = i - 1
  <2>1. ASSUME NEW i \in 1..n PROVE i - 1 \in 0..(n - 1)
    BY <1>0
  <2>. QED
    BY <1>5, <2>1
<1>. QED
  BY <1>0, <1>2, <1>4, <1>6 DEF n

\* Elements that stand behind as many as come before them are in order.
LEMMA Ordering ==
  ASSUME NEW S, IsFiniteSet(S), NEW R, StrictOrder(S, R),
         NEW place, place = [x \in S |-> Cardinality({y \in S : <<y, x>> \in R})],
         NEW s, s = [i \in 1..Cardinality(S) |-> s[i]],
         \A i \in 1..Cardinality(S) : s[i] \in S /\ place[s[i]] = i - 1
  PROVE  IsOrdered(s, S, R)
<1>. DEFINE n == Cardinality(S)
<1>0. /\ n \in Nat /\ place \in [S -> 0..(n - 1)]
      /\ \A x, y \in S : <<x, y>> \in R => place[x] < place[y]
  BY Places
<1>1. \A i \in 1..n : s[i] \in S /\ place[s[i]] = i - 1
  OBVIOUS
<1>2. s \in [1..n -> S]
  BY <1>1
<1>. HIDE DEF n
<1>3. ASSUME NEW i \in 1..n, NEW j \in 1..n, i # j
      PROVE  s[i] # s[j] /\ (i < j => ~(place[s[j]] < place[s[i]]))
  <2>. DEFINE a == place[s[i]]
              b == place[s[j]]
  <2>1. a = i - 1 /\ b = j - 1
    BY <1>1, Zenon
  <2>2. i \in Int /\ j \in Int
    BY <1>0
  <2>3. s[i] = s[j] => a = b
    OBVIOUS
  <2>. HIDE DEF a, b
  <2>4. a # b /\ (i < j => ~(b < a))
    BY <1>3, <2>1, <2>2
  <2>. QED
    BY <2>3, <2>4 DEF a, b
<1>4. ASSUME NEW i \in 1..n, NEW j \in 1..n, i < j
      PROVE  <<s[i], s[j]>> \in R
  <2>1. i \in Int /\ j \in Int /\ i # j
    BY <1>0, <1>4
  <2>2. s[i] # s[j] /\ ~(place[s[j]] < place[s[i]])
    BY <1>3, <1>4, <2>1
  <2>. QED
    BY <1>0, <1>1, <2>2 DEF StrictOrder
<1>5. ASSUME NEW x \in S PROVE \E i \in 1..n : s[i] = x
  <2>0. place[x] \in 0..(n - 1) /\ place[x] \in Int
    BY <1>0
  <2>1. place[x] + 1 \in 1..n /\ place[s[place[x] + 1]] = place[x]
    <3>1. place[x] + 1 \in 1..n /\ (place[x] + 1) - 1 = place[x]
      BY <1>0, <2>0
    <3>. QED
      BY <1>1, <3>1
  <2>2. ASSUME NEW y \in S, place[y] = place[x] PROVE y = x
    <3>1. ~(place[x] < place[y]) /\ ~(place[y] < place[x])
      BY <2>0, <2>2
    <3>. QED
      BY <1>0, <3>1 DEF StrictOrder
  <2>3. s[place[x] + 1] = x
    BY <1>1, <2>1, <2>2
  <2>. QED
    BY <2>1, <2>3
<1>. QED
  BY <1>2, <1>3, <1>4, <1>5 DEF IsOrdered, n

\* The map folds with that choice.
LEMMA SameMax ==
  ASSUME NEW s
  PROVE  Map!Max(s) = MaxOf(s)
BY Zenon DEF Map!Max, MaxOf

\* A fold over 1..n goes one by one.
LEMMA Interval ==
  ASSUME NEW n \in Nat, NEW k \in 1..n
  PROVE  /\ k \in 0..n /\ k - 1 \in 0..n /\ 1..k \in SUBSET (1..n) /\ 1..k # {}
         /\ (1..k) \ {k} = 1..(k - 1) /\ Map!Max(1..k) = k
<1>1. k - 1 \in Nat /\ 1..k \in SUBSET (1..((k - 1) + 1)) /\ (k - 1) + 1 \in 1..k /\ (k - 1) + 1 = k
  OBVIOUS
<1>2. MaxOf(1..k) = (k - 1) + 1
  BY <1>1, MaxInterval
<1>3. Map!Max(1..k) = k
  BY <1>1, <1>2, SameMax
<1>4. /\ k \in 0..n /\ k - 1 \in 0..n /\ 1..k \in SUBSET (1..n) /\ 1..k # {}
      /\ (1..k) \ {k} = 1..(k - 1)
  OBVIOUS
<1>. QED
  BY <1>3, <1>4

-----------------------------------------------------------------------------
(***************************************************************************)
(* Pipes: a branch that is moved aside from card after card ends on the    *)
(* card of its pump.                                                       *)
(***************************************************************************)

\* A branch is moved aside by at most 18.
LEMMA NudgedNear ==
  ASSUME NEW x \in Int, NEW top, NEW bottom, NEW obstacles, NEW used
  PROVE  LET r == Map!nudgeBranchX(x, top, bottom, obstacles, used)
         IN  r \in Int /\ x - 18 <= r /\ r <= x + 18
<1>. DEFINE B == {z \in Int : Map!Blocked(z, top, bottom, obstacles, used)}
            seq == <<0, 1, 2, 3, 4, 5, 6, 7>>
            step == [p \in Int \X (1..8) |->
                       IF p[1] \in B THEN p[1] + Map!Nudge(p[2] - 1) ELSE p[1]]
            Folds(g) == g = [s \in SUBSET DOMAIN seq |->
                      IF s = {} THEN x
                      ELSE IF Map!Blocked(g[s \ {Map!Max(s)}], top, bottom, obstacles, used)
                           THEN g[s \ {Map!Max(s)}] + Map!Nudge(seq[Map!Max(s)])
                           ELSE g[s \ {Map!Max(s)}]]
            g == CHOOSE g : Folds(g)
<1>1. DOMAIN seq = 1..8 /\ \A k \in 1..8 : seq[k] = k - 1
  OBVIOUS
<1>2. Map!nudgeBranchX(x, top, bottom, obstacles, used) = g[1..8]
  BY <1>1, Zenon DEF Map!nudgeBranchX, Map!FoldLeft, Map!MapThenFoldSet
<1>3. \E h : Folds(h)
  <2>1. \A k \in 1..8 : Map!Nudge(k - 1) \in Int
    BY DEF Map!Nudge
  <2>2. step \in [Int \X (1..8) -> Int]
    BY <2>1
  <2>3. HasFold(Int, 8, x, step)
    BY <2>2, Folding
  <2>4. PICK h \in [SUBSET (1..8) -> Int] : IsFold(h, 8, x, step)
    BY <2>3 DEF HasFold
  <2>5. ASSUME NEW s \in SUBSET (1..8), s # {}
        PROVE  step[<<h[s \ {MaxOf(s)}], MaxOf(s)>>]
                 = IF Map!Blocked(h[s \ {Map!Max(s)}], top, bottom, obstacles, used)
                           THEN h[s \ {Map!Max(s)}] + Map!Nudge(seq[Map!Max(s)])
                           ELSE h[s \ {Map!Max(s)}]
    <3>1. MaxOf(s) = Map!Max(s) /\ MaxOf(s) \in 1..8
      BY <2>5, MaxElement DEF Map!Max, MaxOf
    <3>2. h[s \ {MaxOf(s)}] \in Int
      OBVIOUS
    <3>3. seq[MaxOf(s)] = MaxOf(s) - 1
      BY <1>1, <3>1
    <3>. HIDE DEF seq
    <3>. QED
      BY <3>1, <3>2, <3>3
  <2>6. h = [s \in SUBSET (1..8) |-> IF s = {} THEN x ELSE step[<<h[s \ {MaxOf(s)}], MaxOf(s)>>]]
    BY <2>4 DEF IsFold
  <2>. HIDE DEF step, seq
  <2>7. Folds(h)
    BY <1>1, <2>5, <2>6
  <2>. QED
    BY <2>7
<1>4. Folds(g)
  BY <1>3, Zenon
<1>. DEFINE f(k) == g[1..k]
            offset(k) == IF k % 2 = 1 THEN 11 + k ELSE -k
            Good(k) == /\ f(k) \in Int /\ x - 18 <= f(k) /\ f(k) <= x + 18
                       /\ f(k) = x + offset(k) \/ f(k) \notin B
<1>. HIDE DEF g
<1>5. \A s \in SUBSET (1..8) :
        g[s] = IF s = {} THEN x
               ELSE IF Map!Blocked(g[s \ {Map!Max(s)}], top, bottom, obstacles, used)
                    THEN g[s \ {Map!Max(s)}] + Map!Nudge(seq[Map!Max(s)])
                    ELSE g[s \ {Map!Max(s)}]
  <2>. HIDE DEF seq
  <2>. QED
    BY <1>1, <1>4
<1>. HIDE DEF Folds, seq
<1>5a. f(0) = x
  <2>1. 1..0 = {}
    OBVIOUS
  <2>. QED
    BY <1>5, <2>1
<1>6. ASSUME NEW k \in 1..8
      PROVE  f(k) = IF Map!Blocked(f(k - 1), top, bottom, obstacles, used)
                      THEN f(k - 1) + Map!Nudge(k - 1) ELSE f(k - 1)
  <2>1. /\ 1..k \in SUBSET (1..8) /\ 1..k # {}
        /\ (1..k) \ {k} = 1..(k - 1) /\ Map!Max(1..k) = k
    BY Interval
  <2>2. seq[k] = k - 1
    BY <1>1
  <2>. QED
    BY <1>5, <2>1, <2>2
<1>. HIDE DEF step
<1>7. Good(0)
  BY <1>5a
<1>8. ASSUME NEW k \in 0..7, Good(k) PROVE Good(k + 1)
  <2>1. f(k + 1) = IF f(k) \in B THEN f(k) + Map!Nudge(k) ELSE f(k)
    <3>1. k + 1 \in 1..8 /\ (k + 1) - 1 = k
      OBVIOUS
    <3>. HIDE DEF f
    <3>2. f(k + 1) = IF Map!Blocked(f(k), top, bottom, obstacles, used)
                      THEN f(k) + Map!Nudge(k) ELSE f(k)
      BY <1>6, <3>1
    <3>. QED
      BY <1>8, <3>2
  <2>. DEFINE a == f(k)
              b == f(k + 1)
  <2>2. CASE a \in B
    <3>1. b = x + offset(k) + Map!Nudge(k)
      BY <1>8, <2>1, <2>2
    <3>2. offset(k) + Map!Nudge(k) = offset(k + 1) /\ offset(k + 1) \in -18..18
      BY DEF Map!Nudge
    <3>3. offset(k) \in Int /\ Map!Nudge(k) \in Int
      BY DEF Map!Nudge
    <3>. HIDE DEF f, offset
    <3>. QED
      BY <3>1, <3>2, <3>3
  <2>3. CASE a \notin B
    BY <1>8, <2>1, <2>3
  <2>. QED
    BY <2>2, <2>3
<1>9. Good(8)
  <2>. HIDE DEF Good
  <2>1. Good(1) /\ Good(2) /\ Good(3) /\ Good(4)
    BY <1>7, <1>8
  <2>. QED
    BY <1>8, <2>1
<1>. QED
  BY <1>2, <1>9

\* The pages count with one Cardinality.
LEMMA SameCardinality ==
  ASSUME NEW S
  PROVE  Map!Cardinality(S) = Cardinality(S) /\ Totals!Cardinality(S) = Cardinality(S)
BY Zenon DEF Map!Cardinality, Totals!Cardinality, Cardinality

\* Sorting keeps every pump, once.
LEMMA SortedPumps ==
  ASSUME NEW pumps, IsFiniteSet(pumps),
         \A p \in pumps : p.order \in Int /\ p.code \in Int,
         \A p, q \in pumps : p.order = q.order /\ p.code = q.code => p = q
  PROVE  LET n == Cardinality(pumps)
             s == Map!sortPumpsForLayout(pumps)
         IN  /\ n \in Nat /\ s \in [1..n -> pumps] /\ Len(s) = n
             /\ \A i, j \in 1..n : i # j => s[i] # s[j]
             /\ \A p \in pumps : \E i \in 1..n : s[i] = p
<1>. DEFINE R == {p \in pumps \X pumps : Map!Before(p[1], p[2])}
            place == [x \in pumps |-> Cardinality({y \in pumps : <<y, x>> \in R})]
            n == Cardinality(pumps)
            s == Map!sortPumpsForLayout(pumps)
<1>1. \A x, y \in pumps : <<x, y>> \in R <=> Map!Before(x, y)
  OBVIOUS
<1>. HIDE DEF R
<1>2. StrictOrder(pumps, R)
  BY <1>1 DEF StrictOrder, Map!Before
<1>3. \A x \in pumps : place[x] = Map!Cardinality({y \in pumps : Map!Before(y, x)})
  <2>. TAKE x \in pumps
  <2>1. {y \in pumps : <<y, x>> \in R} = {y \in pumps : Map!Before(y, x)}
    BY <1>1
  <2>. QED
    BY <2>1, SameCardinality
<1>4. n \in Nat /\ \A i \in 1..n : \E x \in pumps : place[x] = i - 1
  <2>1. place = [x \in pumps |-> Cardinality({y \in pumps : <<y, x>> \in R})]
    OBVIOUS
  <2>. HIDE DEF place
  <2>. QED
    BY <1>2, <2>1, Places
<1>. HIDE DEF place, n
<1>5. s = [i \in 1..n |-> CHOOSE x \in pumps :
                            Map!Cardinality({y \in pumps : Map!Before(y, x)}) = i - 1]
  BY SameCardinality, Zenon DEF Map!sortPumpsForLayout, Map!Ordered, n
<1>6. \A i \in 1..n : s[i] \in pumps /\ place[s[i]] = i - 1
  <2>. TAKE i \in 1..n
  <2>1. s[i] = CHOOSE x \in pumps : Map!Cardinality({y \in pumps : Map!Before(y, x)}) = i - 1
    BY <1>5
  <2>2. \E x \in pumps : Map!Cardinality({y \in pumps : Map!Before(y, x)}) = i - 1
    BY <1>3, <1>4
  <2>. HIDE DEF s
  <2>3. s[i] \in pumps /\ Map!Cardinality({y \in pumps : Map!Before(y, s[i])}) = i - 1
    BY <2>1, <2>2, Zenon
  <2>. QED
    BY <1>3, <2>3
<1>7. s = [i \in 1..n |-> s[i]]
  BY <1>5
<1>. HIDE DEF s
<1>8. IsOrdered(s, pumps, R)
  BY <1>2, <1>6, <1>7, Ordering DEF n, place
<1>9. s \in [1..n -> pumps] /\ Len(s) = n
  <2>1. s \in [1..n -> pumps]
    BY <1>8 DEF IsOrdered, n
  <2>. QED
    BY <1>4, <2>1
<1>. QED
  BY <1>4, <1>8, <1>9 DEF IsOrdered, s, n

\* Induction along 0..n: P is the set of the numbers something holds of.
LEMMA Chain ==
  ASSUME NEW n \in Nat, NEW P, 0 \in P, \A k \in 1..n : k - 1 \in P => k \in P
  PROVE  \A k \in 0..n : k \in P
<1>. DEFINE T == {k \in Nat : k <= n => k \in P}
<1>1. 0 \in T
  OBVIOUS
<1>2. ASSUME NEW k \in Nat, k \in T PROVE k + 1 \in T
  <2>1. ASSUME k + 1 <= n PROVE k + 1 \in P
    <3>1. k + 1 \in 1..n /\ (k + 1) - 1 = k /\ k <= n
      BY <2>1
    <3>. QED
      BY <1>2, <3>1
  <2>. QED
    BY <2>1
<1>3. Nat \subseteq T
  <2>. HIDE DEF T
  <2>. QED
    BY <1>1, <1>2, NatSet
<1>. QED
  BY <1>3

\* Where a branch may run, beside its pump n.
Reaches(r) ==
  /\ r.pump.at.x < r.x /\ r.x < r.pump.at.x + r.pump.at.w
  /\ Map!TankBottom < r.rail /\ r.rail < r.pump.at.y

\* Branches of cards of the pump size, on a rail above them, reach their pumps.
LEMMA RoutesReach ==
  ASSUME NEW n \in Nat, NEW nodes, nodes = [i \in 1..n |-> nodes[i]],
         NEW tankOf, None \notin Int,
         \A i \in 1..n : /\ tankOf[nodes[i].id] \in Int \cup {None}
                         /\ nodes[i].at.x \in Int /\ nodes[i].at.w = 100
                         /\ nodes[i].at.y \in Int /\ Map!PumpTop(nodes) <= nodes[i].at.y,
         Map!PumpTop(nodes) = Map!computePumpZoneTop(Map!TankBottom)
  PROVE  \A r \in Map!ToSet(Map!buildManifoldRoutes(nodes, tankOf)) : Reaches(r)
<1>. DEFINE tank(i) == tankOf[nodes[i].id]
            fed == {i \in DOMAIN nodes : tank(i) # None}
            inlet(i) == Map!getPumpInletAnchor(nodes[i].at)
            rail(i) == Map!computePipeManifoldY(Map!TankBottom, Map!PumpTop(nodes),
                         Map!Cardinality({tank(j) : j \in {k \in fed : tank(k) < tank(i)}}))
            Less(i, j) ==
              \/ tank(i) < tank(j)
              \/ tank(i) = tank(j) /\ inlet(i) < inlet(j)
              \/ tank(i) = tank(j) /\ inlet(i) = inlet(j) /\ i < j
            order == Map!Ordered(fed, Less)
            nx(routes, i) == Map!nudgeBranchX(inlet(i), rail(i), nodes[i].at.y,
                               Map!Obstacles(nodes, nodes[i].at),
                               {routes[k].x : k \in DOMAIN routes})
            Branch(routes, i) ==
              Append(routes, [pump |-> nodes[i], x |-> nx(routes, i), rail |-> rail(i)])
            Folds(g) == g = [s \in SUBSET DOMAIN order |->
                      IF s = {} THEN <<>>
                      ELSE Branch(g[s \ {Map!Max(s)}], order[Map!Max(s)])]
            g == CHOOSE g : Folds(g)
<1>1. Map!buildManifoldRoutes(nodes, tankOf) = g[DOMAIN order]
  BY Zenon DEF Map!buildManifoldRoutes, Map!FoldLeft, Map!MapThenFoldSet
<1>2. IsFiniteSet(fed) /\ fed \subseteq 1..n
  <2>1. IsFiniteSet(1..n) /\ fed \subseteq 1..n
    BY FS_Interval
  <2>. QED
    BY <2>1, FS_Subset
<1>3. ASSUME NEW i \in fed
      PROVE  /\ tank(i) \in Int /\ inlet(i) = nodes[i].at.x + 50 /\ inlet(i) \in Int
             /\ Map!TankBottom < rail(i) /\ rail(i) < Map!PumpTop(nodes) /\ rail(i) \in Int
  <2>1. tank(i) \in Int /\ inlet(i) = nodes[i].at.x + 50 /\ inlet(i) \in Int
    BY <1>2 DEF Map!getPumpInletAnchor
  <2>. HIDE DEF tank, fed
  <2>2. Map!Cardinality({tank(j) : j \in {k \in fed : tank(k) < tank(i)}}) \in Nat
    <3>. DEFINE D == {k \in fed : tank(k) < tank(i)}
                T == {tank(j) : j \in D}
                f == [j \in D |-> tank(j)]
    <3>1. D \in SUBSET fed /\ f \in Surjection(D, T)
      BY DEF Surjection
    <3>. HIDE DEF D, T, f
    <3>2. IsFiniteSet(D)
      BY <1>2, <3>1, FS_Subset
    <3>3. IsFiniteSet(T)
      BY <3>1, <3>2, FS_Surjection
    <3>. QED
      BY <3>3, FS_CardinalityType, SameCardinality DEF T, D
  <2>3. Map!TankBottom < rail(i) /\ rail(i) < Map!PumpTop(nodes) /\ rail(i) \in Int
    <3>. DEFINE index == Map!Cardinality({tank(j) : j \in {k \in fed : tank(k) < tank(i)}})
    <3>1. index \in Nat
      BY <2>2
    <3>. HIDE DEF index
    <3>2. Map!TankBottom \in Int /\ Map!PumpTop(nodes) \in Int
      BY DEF Map!TankBottom, Map!TANK_BAND_Y, Map!TANK_H, Map!computePumpZoneTop,
         Map!TANK_TO_MANIFOLD_GAP, Map!MANIFOLD_ZONE_H
    <3>3. LET y == Map!computePipeManifoldY(Map!TankBottom, Map!PumpTop(nodes), index)
          IN  Map!TankBottom < y /\ y < Map!PumpTop(nodes)
      BY <3>1, <3>2, RailsBetween
    <3>4. Map!computePipeManifoldY(Map!TankBottom, Map!PumpTop(nodes), index) \in Int
      BY <3>1, <3>2 DEF Map!computePipeManifoldY, Map!AtMost, Map!AtLeast, Map!TANK_TO_MANIFOLD_GAP
    <3>. QED
      BY <3>3, <3>4 DEF index
  <2>. QED
    BY <2>1, <2>3
<1>. HIDE DEF tank, inlet, rail
<1>. DEFINE m == Cardinality(fed)
            R == {p \in fed \X fed : Less(p[1], p[2])}
            place == [i \in fed |-> Cardinality({j \in fed : <<j, i>> \in R})]
<1>4. \A i, j \in fed : <<i, j>> \in R <=> Less(i, j)
  OBVIOUS
<1>5. StrictOrder(fed, R)
  <2>. HIDE DEF fed, R
  <2>1. ASSUME NEW i \in fed PROVE i \in Int /\ tank(i) \in Int /\ inlet(i) \in Int
    <3>1. i \in 1..n /\ tank(i) \in Int /\ inlet(i) \in Int
      BY <1>2, <1>3, Zenon
    <3>. QED
      BY <3>1
  <2>. QED
    BY <1>4, <2>1 DEF StrictOrder
<1>. HIDE DEF R
<1>6. \A i \in fed : place[i] = Map!Cardinality({j \in fed : Less(j, i)})
  <2>. TAKE i \in fed
  <2>1. {j \in fed : <<j, i>> \in R} = {j \in fed : Less(j, i)}
    BY <1>4
  <2>. QED
    BY <2>1, SameCardinality
<1>7. m \in Nat /\ \A k \in 1..m : \E i \in fed : place[i] = k - 1
  <2>1. place = [i \in fed |-> Cardinality({j \in fed : <<j, i>> \in R})]
    OBVIOUS
  <2>. HIDE DEF place, fed
  <2>. QED
    BY <1>2, <1>5, <2>1, Places
<1>. HIDE DEF place
<1>8. order = [k \in 1..m |-> CHOOSE i \in fed : Map!Cardinality({j \in fed : Less(j, i)}) = k - 1]
  BY SameCardinality, Zenon DEF Map!Ordered
<1>. HIDE DEF fed, m
<1>9. \A k \in 1..m : order[k] \in fed
  <2>. TAKE k \in 1..m
  <2>1. order[k] = CHOOSE i \in fed : Map!Cardinality({j \in fed : Less(j, i)}) = k - 1
    BY <1>8
  <2>2. \E i \in fed : Map!Cardinality({j \in fed : Less(j, i)}) = k - 1
    BY <1>6, <1>7
  <2>. HIDE DEF order
  <2>. QED
    BY <2>1, <2>2, Zenon
<1>10. DOMAIN order = 1..m
  BY <1>8
<1>. HIDE DEF order, Less
<1>. DEFINE Routes == {r \in [pump : {nodes[i] : i \in 1..n}, x : Int, rail : Int] : Reaches(r)}
            S == Seq(Routes)
            step == [p \in S \X (1..m) |-> Branch(p[1], order[p[2]])]
<1>11. ASSUME NEW routes \in S, NEW i \in fed PROVE Branch(routes, i) \in S
  <2>. DEFINE r == [pump |-> nodes[i], x |-> nx(routes, i), rail |-> rail(i)]
  <2>1. i \in 1..n /\ inlet(i) \in Int
    BY <1>2, <1>3
  <2>2. /\ nx(routes, i) \in Int
        /\ inlet(i) - 18 <= nx(routes, i) /\ nx(routes, i) <= inlet(i) + 18
    BY <2>1, NudgedNear
  <2>. HIDE DEF nx
  <2>3. r \in [pump : {nodes[j] : j \in 1..n}, x : Int, rail : Int]
    BY <1>3, <2>1, <2>2
  <2>4. Reaches(r)
    <3>1. /\ r.pump = nodes[i] /\ r.x = nx(routes, i) /\ r.rail = rail(i)
          /\ nodes[i].at.x \in Int /\ nodes[i].at.w = 100 /\ nodes[i].at.y \in Int
          /\ Map!PumpTop(nodes) <= nodes[i].at.y
      BY <2>1
    <3>. DEFINE a == nodes[i].at.x
                b == inlet(i)
                y == nodes[i].at.y
    <3>2. /\ b = a + 50 /\ Map!TankBottom < rail(i) /\ rail(i) < Map!PumpTop(nodes)
          /\ rail(i) \in Int
      BY <1>3, Zenon
    <3>3. Map!PumpTop(nodes) \in Int
      BY DEF Map!TankBottom, Map!TANK_BAND_Y, Map!TANK_H, Map!computePumpZoneTop,
         Map!TANK_TO_MANIFOLD_GAP, Map!MANIFOLD_ZONE_H
    <3>4. /\ a \in Int /\ nodes[i].at.w = 100 /\ y \in Int /\ Map!PumpTop(nodes) <= y
      BY <3>1
    <3>. HIDE DEF a, b, y
    <3>5. a < nx(routes, i) /\ nx(routes, i) < a + 100
      BY <2>2, <3>2, <3>4 DEF b
    <3>6. Map!TankBottom < rail(i) /\ rail(i) < y
      BY <3>2, <3>3, <3>4
    <3>. HIDE DEF r
    <3>. QED
      BY <3>1, <3>4, <3>5, <3>6 DEF Reaches, a, y
  <2>. HIDE DEF r
  <2>5. r \in Routes
    BY <2>3, <2>4
  <2>. HIDE DEF Routes
  <2>. QED
    BY <2>5, AppendProperties DEF r
<1>. HIDE DEF nx, rail
<1>12. <<>> \in S
  OBVIOUS
<1>. HIDE DEF S, Routes
<1>13. step \in [S \X (1..m) -> S]
  <2>1. ASSUME NEW routes \in S, NEW k \in 1..m PROVE Branch(routes, order[k]) \in S
    BY <1>9, <1>11
  <2>. HIDE DEF Branch
  <2>. QED
    BY <2>1
<1>. HIDE DEF Branch
<1>14. \E h : Folds(h)
  <2>1. HasFold(S, m, <<>>, step)
    BY <1>7, <1>12, <1>13, Folding
  <2>2. PICK h \in [SUBSET (1..m) -> S] : IsFold(h, m, <<>>, step)
    BY <2>1 DEF HasFold
  <2>3. ASSUME NEW s \in SUBSET (1..m), s # {}
        PROVE  step[<<h[s \ {MaxOf(s)}], MaxOf(s)>>]
                 = Branch(h[s \ {Map!Max(s)}], order[Map!Max(s)])
    <3>1. MaxOf(s) = Map!Max(s) /\ MaxOf(s) \in 1..m
      BY <1>7, <2>3, MaxElement, SameMax
    <3>2. h[s \ {MaxOf(s)}] \in S
      OBVIOUS
    <3>. QED
      BY <3>1, <3>2
  <2>4. h = [s \in SUBSET (1..m) |-> IF s = {} THEN <<>> ELSE step[<<h[s \ {MaxOf(s)}], MaxOf(s)>>]]
    BY <2>2 DEF IsFold
  <2>. HIDE DEF step
  <2>5. Folds(h)
    BY <1>10, <2>3, <2>4
  <2>. QED
    BY <2>5
<1>15. Folds(g)
  BY <1>14, Zenon
<1>. HIDE DEF g
<1>16. \A s \in SUBSET (1..m) :
         g[s] = IF s = {} THEN <<>> ELSE Branch(g[s \ {Map!Max(s)}], order[Map!Max(s)])
  BY <1>10, <1>15
<1>. DEFINE P == {k \in 0..m : g[1..k] \in S}
<1>17. 0 \in P
  <2>1. 1..0 = {} /\ 0 \in 0..m
    BY <1>7
  <2>. QED
    BY <1>12, <1>16, <2>1
<1>18. ASSUME NEW k \in 1..m, k - 1 \in P PROVE k \in P
  <2>1. /\ k \in 0..m /\ k - 1 \in 0..m /\ 1..k \in SUBSET (1..m) /\ 1..k # {}
        /\ (1..k) \ {k} = 1..(k - 1) /\ Map!Max(1..k) = k
    BY <1>7, Interval
  <2>2. g[1..k] = Branch(g[1..(k - 1)], order[k])
    <3>1. g[1..k] = IF 1..k = {} THEN <<>>
                    ELSE Branch(g[(1..k) \ {Map!Max(1..k)}], order[Map!Max(1..k)])
      BY <1>16, <2>1, Zenon
    <3>. QED
      BY <2>1, <3>1, Zenon
  <2>3. g[1..(k - 1)] \in S
    BY <1>18, <2>1
  <2>4. Branch(g[1..(k - 1)], order[k]) \in S
    BY <1>9, <1>11, <2>3 DEF Branch
  <2>. QED
    BY <2>1, <2>2, <2>4
<1>19. Map!buildManifoldRoutes(nodes, tankOf) \in S
  <2>1. m \in P
    <3>. HIDE DEF P
    <3>. QED
      BY <1>7, <1>17, <1>18, Chain
  <2>. QED
    BY <1>1, <1>7, <1>10, <2>1
<1>20. ASSUME NEW routes \in S, NEW r \in Map!ToSet(routes) PROVE Reaches(r)
  <2>1. PICK k \in DOMAIN routes : r = routes[k]
    BY DEF Map!ToSet
  <2>2. r \in Routes
    BY <2>1 DEF S
  <2>. QED
    BY <2>2 DEF Routes
<1>. QED
  BY <1>19, <1>20

\* Where a grid is laid.
Bounds == [left : Int, top : Int, width : Int]

\* Rectangles of the size of a pump card.
Rects == [x : Int, y : Int, w : {100}, h : {108}]

\* A cell is as large as a card and in its row.
LEMMA CellShape ==
  ASSUME NEW bounds \in Bounds, NEW count \in Nat, NEW i \in 0..(count - 1)
  PROVE  /\ Map!Cell(i, count, bounds) \in Rects
         /\ Map!Cell(i, count, bounds).y = bounds.top + (i \div 4) * 148
<1>. DEFINE c == Map!Cell(i, count, bounds)
            n == Map!InRow(i \div 4, count)
            x == Map!RowX(i % 4, n, bounds)
            y == Map!RowY(i \div 4, bounds.top)
<1>1. c = [x |-> x, y |-> y, w |-> 100, h |-> 108]
  BY DEF Map!Cell, Map!PUMP_MAX_COLS, Map!PUMP_CARD_W, Map!PUMP_CARD_H
<1>2. bounds.left \in Int /\ bounds.top \in Int /\ bounds.width \in Int
  BY DEF Bounds
<1>3. n \in Int
  BY DEF Map!InRow, Map!AtMost, Map!PUMP_MAX_COLS
<1>4. x \in Int
  <2>. HIDE DEF n
  <2>. QED
    BY <1>2, <1>3 DEF Map!RowX, Map!AtLeast, Map!fullRowWidth, Map!RowWidth, Map!PUMP_CARD_W,
       Map!PUMP_H_GAP, Map!PUMP_MAX_COLS
<1>5. y \in Int /\ y = bounds.top + (i \div 4) * 148
  BY <1>2 DEF Map!RowY, Map!PUMP_CARD_H, Map!PUMP_V_GAP
<1>. HIDE DEF c, x, y
<1>6. c \in Rects /\ c.y = y
  BY <1>1, <1>4, <1>5 DEF Rects
<1>. QED
  BY <1>5, <1>6 DEF c

\* The bounds of the pumps are whole and below the rails.
LEMMA BoundsShape ==
  ASSUME NEW canvas \in Int
  PROVE  LET b == Map!pumpBounds(canvas, Map!TankBottom)
         IN  b \in Bounds /\ b.top = Map!computePumpZoneTop(Map!TankBottom)
BY DEF Map!pumpBounds, Bounds, Map!MARGIN, Map!TankBottom, Map!TANK_BAND_Y, Map!TANK_H,
   Map!computePumpZoneTop, Map!TANK_TO_MANIFOLD_GAP, Map!MANIFOLD_ZONE_H, Map!AtLeast

\* Every pump has one card of its own in a grid.
IsGrid(nodes, n, pumps, bounds) ==
  /\ n \in Nat /\ nodes = [i \in 1..n |-> nodes[i]]
  /\ \A i \in 1..n : /\ nodes[i].at = Map!Cell(i - 1, n, bounds)
                     /\ \E p \in pumps : nodes[i].id = p.id
  /\ \A i, j \in 1..n : nodes[i].id = nodes[j].id => i = j
  /\ \A p \in pumps : \E i \in 1..n : nodes[i].id = p.id

\* The automatic layout is a grid of all pumps.
LEMMA GridNodes ==
  ASSUME NEW scene, IsScene(scene), NEW bounds
  PROVE  IsGrid(Map!pumpNodesFromGrid(scene.pumps, bounds), Cardinality(scene.pumps),
                scene.pumps, bounds)
<1>. DEFINE pumps == scene.pumps
            n == Cardinality(pumps)
            ordered == Map!sortPumpsForLayout(pumps)
            nodes == Map!pumpNodesFromGrid(pumps, bounds)
<1>1. /\ n \in Nat /\ ordered \in [1..n -> pumps] /\ Len(ordered) = n
      /\ \A i, j \in 1..n : i # j => ordered[i] # ordered[j]
      /\ \A p \in pumps : \E i \in 1..n : ordered[i] = p
  BY SortedPumps DEF IsScene
<1>2. nodes = [i \in DOMAIN ordered |->
                 Map!Node(ordered[i], Map!Cell(i - 1, Len(ordered), bounds))]
  BY Zenon DEF Map!pumpNodesFromGrid
<1>. HIDE DEF ordered, n, nodes
<1>3. nodes = [i \in 1..n |-> nodes[i]]
  BY <1>1, <1>2
<1>4. \A i \in 1..n : nodes[i].id = ordered[i].id /\ nodes[i].at = Map!Cell(i - 1, n, bounds)
  BY <1>1, <1>2 DEF Map!Node
<1>5. \A i, j \in 1..n : nodes[i].id = nodes[j].id => i = j
  BY <1>1, <1>4 DEF IsScene
<1>. QED
  BY <1>1, <1>3, <1>4, <1>5 DEF IsGrid, n, nodes

\* A branch ends on the card of its pump, whichever tanks feed the pumps.
LEMMA BranchesCorrect ==
  ASSUME NEW scene, IsScene(scene), NEW tankOf, None \notin Int,
         \A p \in scene.pumps : tankOf[p.id] \in Int \cup {None}
  PROVE  Map!BranchesReachTheirPumps(scene, tankOf)
<1>. DEFINE nodes == Map!buildForecourtNodes(scene)
            bounds == Map!pumpBounds(scene.canvas, Map!TankBottom)
            n == Cardinality(scene.pumps)
<1>. SUFFICES ASSUME scene.mode = "AUTO", nodes # <<>>
              PROVE  \A r \in Map!ToSet(Map!buildManifoldRoutes(nodes, tankOf)) : Reaches(r)
  BY Zenon DEF Map!BranchesReachTheirPumps, Reaches
<1>1. nodes = Map!pumpNodesFromGrid(scene.pumps, bounds)
  BY Zenon DEF Map!buildForecourtNodes
<1>2. bounds \in Bounds /\ bounds.top = Map!computePumpZoneTop(Map!TankBottom)
  BY BoundsShape DEF IsScene
<1>. HIDE DEF bounds, nodes
<1>3. /\ n \in Nat /\ nodes = [i \in 1..n |-> nodes[i]]
      /\ \A i \in 1..n : /\ nodes[i].at = Map!Cell(i - 1, n, bounds)
                         /\ \E p \in scene.pumps : nodes[i].id = p.id
  <2>1. IsGrid(nodes, n, scene.pumps, bounds)
    BY <1>1, GridNodes
  <2>. QED
    BY <2>1 DEF IsGrid
<1>. HIDE DEF n
<1>4. n # 0
  <2>. SUFFICES ASSUME n = 0 PROVE FALSE
    OBVIOUS
  <2>1. 1..n = {}
    OBVIOUS
  <2>2. nodes = <<>>
    BY <1>3, <2>1
  <2>. QED
    BY <2>2
<1>5. ASSUME NEW i \in 1..n
      PROVE  /\ nodes[i].at.x \in Int /\ nodes[i].at.w = 100 /\ nodes[i].at.y \in Int
             /\ bounds.top <= nodes[i].at.y /\ (i = 1 => nodes[i].at.y = bounds.top)
  <2>. DEFINE c == Map!Cell(i - 1, n, bounds)
  <2>1. i - 1 \in 0..(n - 1)
    BY <1>3
  <2>2. c \in Rects /\ c.y = bounds.top + ((i - 1) \div 4) * 148
    BY <1>2, <1>3, <2>1, CellShape
  <2>3. nodes[i].at = c
    BY <1>3
  <2>. HIDE DEF c
  <2>4. bounds.top \in Int /\ i \in Nat /\ i >= 1
    BY <1>2 DEF Bounds
  <2>5. bounds.top <= c.y /\ (i = 1 => c.y = bounds.top)
    BY <2>2, <2>4 DEF Rects
  <2>. QED
    BY <2>2, <2>3, <2>5 DEF Rects
<1>6. Map!PumpTop(nodes) = bounds.top
  <2>. DEFINE tops == {nodes[i].at.y : i \in DOMAIN nodes}
  <2>1. Map!PumpTop(nodes) = CHOOSE y \in tops : \A z \in tops : y <= z
    BY Zenon DEF Map!PumpTop
  <2>2. DOMAIN nodes = 1..n /\ 1 \in 1..n
    BY <1>3, <1>4
  <2>3. bounds.top \in tops /\ \A z \in tops : z \in Int /\ bounds.top <= z
    BY <1>5, <2>2
  <2>. HIDE DEF tops
  <2>4. /\ Map!PumpTop(nodes) \in tops /\ \A z \in tops : Map!PumpTop(nodes) <= z
    BY <2>1, <2>3, Zenon
  <2>. QED
    BY <2>3, <2>4
<1>7. \A i \in 1..n : tankOf[nodes[i].id] \in Int \cup {None}
  BY <1>3
<1>8. \A i \in 1..n : /\ tankOf[nodes[i].id] \in Int \cup {None}
                      /\ nodes[i].at.x \in Int /\ nodes[i].at.w = 100
                      /\ nodes[i].at.y \in Int /\ Map!PumpTop(nodes) <= nodes[i].at.y
  BY <1>5, <1>6, <1>7
<1>9. /\ n \in Nat /\ nodes = [i \in 1..n |-> nodes[i]]
      /\ Map!PumpTop(nodes) = Map!computePumpZoneTop(Map!TankBottom)
  BY <1>2, <1>3, <1>6, Zenon
<1>. QED
  BY <1>8, <1>9, RoutesReach, Zenon

-----------------------------------------------------------------------------
(***************************************************************************)
(* Cards: slots are taken cell by cell from the grid and then one below    *)
(* the other.                                                              *)
(***************************************************************************)

\* Rectangles with whole coordinates.
Whole(r) == r.x \in Int /\ r.y \in Int /\ r.w \in Int /\ r.h \in Int

\* Rectangles that keep a distance do not touch, in either order.
LEMMA Padding ==
  ASSUME NEW a, NEW b, Whole(a), Whole(b), ~Map!rectsOverlap(a, b, 8)
  PROVE  /\ ~Map!rectsOverlap(b, a, 8) /\ ~Map!rectsOverlap(a, b, 0)
         /\ ~Map!rectsOverlap(b, a, 0)
<1>. DEFINE ax == a.x  ay == a.y  aw == a.w  ah == a.h
            bx == b.x  by == b.y  bw == b.w  bh == b.h
<1>1. ~(bx < ax + aw + 8 /\ ax < bx + bw + 8 /\ by < ay + ah + 8 /\ ay < by + bh + 8)
  BY Zenon DEF Map!rectsOverlap
<1>2. {ax, ay, aw, ah, bx, by, bw, bh} \subseteq Int
  BY DEF Whole
<1>. HIDE DEF ax, ay, aw, ah, bx, by, bw, bh
<1>3. /\ ~(ax < bx + bw + 8 /\ bx < ax + aw + 8 /\ ay < by + bh + 8 /\ by < ay + ah + 8)
      /\ ~(bx < ax + aw + 0 /\ ax < bx + bw + 0 /\ by < ay + ah + 0 /\ ay < by + bh + 0)
      /\ ~(ax < bx + bw + 0 /\ bx < ax + aw + 0 /\ ay < by + bh + 0 /\ by < ay + ah + 0)
  BY <1>1, <1>2
<1>. QED
  BY <1>3, Zenon DEF Map!rectsOverlap, ax, ay, aw, ah, bx, by, bw, bh

\* The slots that were found after k cells: cells that touch no card, no two of them touch,
\* in the order of the rows; as many as there are or as are wanted.
Found(s, k, count, free, bounds) ==
  /\ s \in Seq(Rects) /\ Len(s) <= count
  /\ \A i \in 1..Len(s) : \E m \in free \cap 1..k : s[i] = Map!Cell(m - 1, 20, bounds)
  /\ \A i, j \in 1..Len(s) : i # j => ~Map!rectsOverlap(s[i], s[j], 8)
  /\ \A i, j \in 1..Len(s) : i < j => s[i].y <= s[j].y
  /\ Len(s) = count \/ Len(s) = Cardinality(free \cap 1..k)

\* One more cell.
LEMMA Finding ==
  ASSUME NEW bounds \in Bounds, NEW count \in Nat, NEW free \in SUBSET (1..20),
         NEW k \in 1..20, NEW s, Found(s, k - 1, count, free, bounds),
         NEW t, t = IF Len(s) < count /\ k \in free
                       /\ \A i \in 1..Len(s) :
                            ~Map!rectsOverlap(s[i], Map!Cell(k - 1, 20, bounds), 8)
                    THEN Append(s, Map!Cell(k - 1, 20, bounds)) ELSE s
  PROVE  Found(t, k, count, free, bounds)
<1>. DEFINE cell(m) == Map!Cell(m - 1, 20, bounds)
            l == Len(s)
<1>1. ASSUME NEW m \in 1..20
      PROVE  /\ cell(m) \in Rects /\ Whole(cell(m))
             /\ cell(m).y = bounds.top + ((m - 1) \div 4) * 148
  <2>1. m - 1 \in 0..(20 - 1) /\ 20 \in Nat
    OBVIOUS
  <2>2. cell(m) \in Rects /\ cell(m).y = bounds.top + ((m - 1) \div 4) * 148
    BY <2>1, CellShape
  <2>. HIDE DEF cell
  <2>. QED
    BY <2>2 DEF Rects, Whole
<1>2. ASSUME NEW m \in 1..20, m # k PROVE ~Map!rectsOverlap(cell(m), cell(k), 8)
  <2>1. /\ m - 1 \in 0..(20 - 1) /\ k - 1 \in 0..(20 - 1) /\ m - 1 # k - 1 /\ 20 \in Nat
        /\ bounds \in [left : Int, top : Int, width : Int]
    BY <1>2 DEF Bounds
  <2>. QED
    BY <2>1, CellsApart
<1>3. ASSUME NEW m \in 1..20, m <= k PROVE cell(m).y <= cell(k).y
  <2>1. bounds.top \in Int
    BY DEF Bounds
  <2>2. (m - 1) \div 4 <= (k - 1) \div 4 /\ (m - 1) \div 4 \in Int /\ (k - 1) \div 4 \in Int
    BY <1>3
  <2>3. /\ cell(m).y = bounds.top + ((m - 1) \div 4) * 148
        /\ cell(k).y = bounds.top + ((k - 1) \div 4) * 148
    BY <1>1
  <2>. HIDE DEF cell
  <2>. QED
    BY <2>1, <2>2, <2>3
<1>. HIDE DEF cell
<1>4. /\ s \in Seq(Rects) /\ l \in Nat /\ l <= count
      /\ \A i \in 1..l : \E m \in free \cap 1..(k - 1) : s[i] = cell(m)
      /\ \A i, j \in 1..l : i # j => ~Map!rectsOverlap(s[i], s[j], 8)
      /\ \A i, j \in 1..l : i < j => s[i].y <= s[j].y
      /\ l = count \/ l = Cardinality(free \cap 1..(k - 1))
  BY DEF Found, cell
<1>5. \A i \in 1..l : ~Map!rectsOverlap(s[i], cell(k), 8) /\ s[i].y <= cell(k).y /\ Whole(s[i])
  <2>. TAKE i \in 1..l
  <2>1. PICK m \in free \cap 1..(k - 1) : s[i] = cell(m)
    BY <1>4
  <2>2. m \in 1..20 /\ m # k /\ m <= k
    OBVIOUS
  <2>. QED
    BY <1>1, <1>2, <1>3, <2>1, <2>2
<1>6. t = IF l < count /\ k \in free THEN Append(s, cell(k)) ELSE s
  BY <1>5 DEF cell
<1>7. \A m : m \in free \cap 1..(k - 1) => m \in free \cap 1..k
  OBVIOUS
<1>8. CASE l < count /\ k \in free
  <2>1. /\ t \in Seq(Rects) /\ Len(t) = l + 1
        /\ \A i \in 1..l : t[i] = s[i]
        /\ t[l + 1] = cell(k)
    <3>1. t = Append(s, cell(k)) /\ s \in Seq(Rects) /\ cell(k) \in Rects
      BY <1>1, <1>4, <1>6, <1>8
    <3>. QED
      BY <3>1, AppendProperties
  <2>2. Len(t) = Cardinality(free \cap 1..k)
    <3>1. l = Cardinality(free \cap 1..(k - 1))
      BY <1>4, <1>8
    <3>2. IsFiniteSet(free \cap 1..(k - 1))
      <4>1. IsFiniteSet(1..20)
        <5>1. 1 \in Int /\ 20 \in Int
          OBVIOUS
        <5>. QED
          BY <5>1, FS_Interval, Zenon
      <4>2. free \cap 1..(k - 1) \in SUBSET (1..20)
        OBVIOUS
      <4>. QED
        BY <4>1, <4>2, FS_Subset
    <3>3. free \cap 1..k = (free \cap 1..(k - 1)) \cup {k} /\ k \notin free \cap 1..(k - 1)
      BY <1>8
    <3>. QED
      BY <2>1, <3>1, <3>2, <3>3, FS_AddElement
  <2>3. \A i \in 1..Len(t) : \E m \in free \cap 1..k : t[i] = cell(m)
    BY <1>4, <1>8, <2>1
  <2>4. \A i, j \in 1..Len(t) : i # j => ~Map!rectsOverlap(t[i], t[j], 8)
    <3>1. \A i \in 1..l : ~Map!rectsOverlap(s[i], cell(k), 8) /\ ~Map!rectsOverlap(cell(k), s[i], 8)
      BY <1>1, <1>5, Padding
    <3>2. ASSUME NEW i \in 1..Len(t), NEW j \in 1..Len(t), i # j
          PROVE  ~Map!rectsOverlap(t[i], t[j], 8)
      <4>1. CASE i \in 1..l /\ j \in 1..l
        BY <1>4, <2>1, <3>2, <4>1
      <4>2. CASE i \in 1..l /\ j = l + 1
        BY <2>1, <3>1, <4>2
      <4>3. CASE i = l + 1 /\ j \in 1..l
        BY <2>1, <3>1, <4>3
      <4>. QED
        BY <1>4, <2>1, <3>2, <4>1, <4>2, <4>3
    <3>. QED
      BY <3>2
  <2>5. \A i, j \in 1..Len(t) : i < j => t[i].y <= t[j].y
    <3>1. ASSUME NEW i \in 1..Len(t), NEW j \in 1..Len(t), i < j
          PROVE  t[i].y <= t[j].y
      <4>1. CASE j \in 1..l
        BY <1>4, <2>1, <3>1, <4>1
      <4>2. CASE j = l + 1
        BY <1>4, <1>5, <2>1, <3>1, <4>2
      <4>. QED
        BY <1>4, <2>1, <4>1, <4>2
    <3>. QED
      BY <3>1
  <2>6. Len(t) <= count
    BY <1>4, <1>8, <2>1
  <2>. QED
    BY <2>1, <2>2, <2>3, <2>4, <2>5, <2>6 DEF Found, cell
<1>9. CASE ~(l < count /\ k \in free)
  <2>1. t = s
    BY <1>6, <1>9
  <2>2. l = count \/ l = Cardinality(free \cap 1..k)
    <3>1. CASE k \in free
      BY <1>4, <1>9, <3>1
    <3>2. CASE k \notin free
      <4>1. free \cap 1..k = free \cap 1..(k - 1)
        BY <3>2
      <4>. QED
        BY <1>4, <4>1
    <3>. QED
      BY <3>1, <3>2
  <2>3. \A i \in 1..l : \E m \in free \cap 1..k : s[i] = cell(m)
    BY <1>4, <1>7
  <2>. QED
    BY <1>4, <2>1, <2>2, <2>3 DEF Found, cell
<1>. QED
  BY <1>8, <1>9

\* The cells that touch no card that is placed.
FreeCells(occupied, bounds) ==
  {k \in 1..20 : Map!Free(occupied, <<>>, Map!Cell(k - 1, 20, bounds))}

\* The slots that are taken from the grid are found in it.
LEMMA TakenFound ==
  ASSUME NEW bounds \in Bounds, NEW count \in Nat, NEW occupied
  PROVE  Found(Map!Taken(count, occupied, bounds), 20, count, FreeCells(occupied, bounds), bounds)
<1>. DEFINE free == FreeCells(occupied, bounds)
            cell(k) == Map!Cell(k - 1, 20, bounds)
            seq == [k \in 1..20 |-> k]
            Take(slots, k) == IF Len(slots) < count /\ Map!Free(occupied, slots, cell(k))
                              THEN Append(slots, cell(k)) ELSE slots
            Folds(g) == g = [s \in SUBSET DOMAIN seq |->
                      IF s = {} THEN <<>> ELSE Take(g[s \ {Map!Max(s)}], seq[Map!Max(s)])]
            g == CHOOSE g : Folds(g)
            S == Seq(Rects)
            step == [p \in S \X (1..20) |-> Take(p[1], p[2])]
<1>1. Map!Taken(count, occupied, bounds) = g[DOMAIN seq]
  BY Zenon DEF Map!Taken, Map!SlotCells, Map!FoldLeft, Map!MapThenFoldSet
<1>2. DOMAIN seq = 1..20 /\ \A k \in 1..20 : seq[k] = k
  OBVIOUS
<1>. HIDE DEF seq
<1>3. \A k \in 1..20 : cell(k) \in Rects
  <2>. TAKE k \in 1..20
  <2>1. k - 1 \in 0..(20 - 1) /\ 20 \in Nat
    OBVIOUS
  <2>. QED
    BY <2>1, CellShape
<1>4. <<>> \in S /\ \A s \in S : DOMAIN s = 1..Len(s)
  OBVIOUS
<1>5. free \in SUBSET (1..20)
  BY DEF FreeCells
<1>6. \A k \in 1..20, s \in S :
        Map!Free(occupied, s, cell(k)) <=>
          k \in free /\ \A i \in 1..Len(s) : ~Map!rectsOverlap(s[i], cell(k), 8)
  <2>. TAKE k \in 1..20, s \in S
  <2>1. Map!Free(occupied, <<>>, cell(k)) <=>
          \A i \in DOMAIN occupied : ~Map!rectsOverlap(occupied[i], cell(k), 8)
    <3>1. DOMAIN <<>> = {}
      OBVIOUS
    <3>. QED
      BY <3>1, Zenon DEF Map!Free
  <2>2. k \in free <=> Map!Free(occupied, <<>>, cell(k))
    BY Zenon DEF FreeCells
  <2>3. Map!Free(occupied, s, cell(k)) <=>
          /\ \A i \in DOMAIN occupied : ~Map!rectsOverlap(occupied[i], cell(k), 8)
          /\ \A i \in 1..Len(s) : ~Map!rectsOverlap(s[i], cell(k), 8)
    BY <1>4, Zenon DEF Map!Free
  <2>. HIDE DEF cell, free
  <2>. QED
    BY <2>1, <2>2, <2>3, Zenon
<1>7. step \in [S \X (1..20) -> S]
  <2>1. ASSUME NEW s \in S, NEW k \in 1..20 PROVE Take(s, k) \in S
    <3>1. Append(s, cell(k)) \in S
      BY <1>3, AppendProperties
    <3>. HIDE DEF cell, S
    <3>. QED
      BY <3>1
  <2>. HIDE DEF Take, S
  <2>. QED
    BY <2>1
<1>. HIDE DEF Take, S
<1>8. \E h : Folds(h)
  <2>0. 20 \in Nat
    OBVIOUS
  <2>1. HasFold(S, 20, <<>>, step)
    BY <1>4, <1>7, <2>0, Folding
  <2>2. PICK h \in [SUBSET (1..20) -> S] : IsFold(h, 20, <<>>, step)
    BY <2>1 DEF HasFold
  <2>3. ASSUME NEW s \in SUBSET (1..20), s # {}
        PROVE  step[<<h[s \ {MaxOf(s)}], MaxOf(s)>>] = Take(h[s \ {Map!Max(s)}], seq[Map!Max(s)])
    <3>1. MaxOf(s) = Map!Max(s) /\ MaxOf(s) \in 1..20
      BY <2>0, <2>3, MaxElement, SameMax
    <3>2. h[s \ {MaxOf(s)}] \in S
      OBVIOUS
    <3>. QED
      BY <1>2, <3>1, <3>2
  <2>4. h = [s \in SUBSET (1..20) |->
               IF s = {} THEN <<>> ELSE step[<<h[s \ {MaxOf(s)}], MaxOf(s)>>]]
    BY <2>2 DEF IsFold
  <2>. HIDE DEF step
  <2>5. Folds(h)
    BY <1>2, <2>3, <2>4
  <2>. QED
    BY <2>5
<1>9. Folds(g)
  BY <1>8, Zenon
<1>. HIDE DEF g
<1>10. \A s \in SUBSET (1..20) :
         g[s] = IF s = {} THEN <<>> ELSE Take(g[s \ {Map!Max(s)}], seq[Map!Max(s)])
  BY <1>2, <1>9
<1>. HIDE DEF Folds, step, free
<1>. DEFINE P == {k \in 0..20 : Found(g[1..k], k, count, free, bounds)}
<1>11. 0 \in P
  <2>1. 1..0 = {} /\ 0 \in 0..20 /\ free \cap {} = {}
    OBVIOUS
  <2>2. g[1..0] = <<>>
    BY <1>10, <2>1
  <2>3. Len(<<>>) = 0 /\ Cardinality({}) = 0
    BY FS_EmptySet
  <2>4. Found(<<>>, 0, count, free, bounds)
    BY <1>4, <2>1, <2>3 DEF Found, S
  <2>. QED
    BY <2>1, <2>2, <2>4
<1>12. ASSUME NEW k \in 1..20, k - 1 \in P PROVE k \in P
  <2>. DEFINE s == g[1..(k - 1)]
              t == g[1..k]
  <2>1. /\ k \in 0..20 /\ k - 1 \in 0..20 /\ 1..k \in SUBSET (1..20) /\ 1..k # {}
        /\ (1..k) \ {k} = 1..(k - 1) /\ Map!Max(1..k) = k
    <3>1. 20 \in Nat
      OBVIOUS
    <3>. QED
      BY <3>1, Interval
  <2>2. t = Take(s, k)
    <3>1. t = IF 1..k = {} THEN <<>> ELSE Take(g[(1..k) \ {Map!Max(1..k)}], seq[Map!Max(1..k)])
      BY <1>10, <2>1, Zenon
    <3>2. t = Take(s, seq[k])
      BY <2>1, <3>1, Zenon
    <3>. QED
      BY <1>2, <3>2
  <2>3. Found(s, k - 1, count, free, bounds)
    BY <1>12
  <2>4. s \in S
    BY <2>3 DEF Found, S
  <2>. HIDE DEF s, t, cell
  <2>5. t = IF /\ Len(s) < count /\ k \in free
               /\ \A i \in 1..Len(s) : ~Map!rectsOverlap(s[i], cell(k), 8)
            THEN Append(s, cell(k)) ELSE s
    BY <1>6, <2>2, <2>4 DEF Take
  <2>6. Found(t, k, count, free, bounds)
    BY <1>5, <2>3, <2>5, Finding DEF cell
  <2>. QED
    BY <2>1, <2>6 DEF t
<1>13. 20 \in P
  <2>. HIDE DEF P
  <2>1. 20 \in Nat /\ 20 \in 0..20
    OBVIOUS
  <2>. QED
    BY <1>11, <1>12, <2>1, Chain
<1>. QED
  BY <1>1, <1>2, <1>13 DEF free

\* Slots that do not touch, each as low as those before it or lower.
Stacked(s) ==
  /\ s \in Seq(Rects)
  /\ \A i, j \in 1..Len(s) : i # j => ~Map!rectsOverlap(s[i], s[j], 0)
  /\ \A i, j \in 1..Len(s) : i < j => s[i].y <= s[j].y

\* The last card that is placed has a whole y.
Grounded(occupied) == occupied # <<>> => occupied[Len(occupied)].y \in Int

\* A slot below the last one touches none of those before it.
LEMMA Stacking ==
  ASSUME NEW bounds \in Bounds, NEW occupied, Grounded(occupied), NEW s, Stacked(s)
  PROVE  /\ Stacked(Append(s, Map!Below(s, occupied, bounds)))
         /\ Len(Append(s, Map!Below(s, occupied, bounds))) = Len(s) + 1
<1>. DEFINE l == Len(s)
            b == Map!Below(s, occupied, bounds)
            t == Append(s, b)
            y == IF s # <<>> THEN s[Len(s)].y
                 ELSE IF occupied # <<>> THEN occupied[Len(occupied)].y ELSE bounds.top
            x == Map!RowX(0, 1, bounds)
<1>1. l \in Nat /\ s \in Seq(Rects) /\ (s # <<>> => l \in 1..l) /\ (l # 0 => s # <<>>)
  BY EmptySeq DEF Stacked
<1>2. bounds.left \in Int /\ bounds.top \in Int /\ bounds.width \in Int
  BY DEF Bounds
<1>3. b = [x |-> x, y |-> y + 148, w |-> 100, h |-> 108]
  <2>1. b = [x |-> x, y |-> y + Map!PUMP_CARD_H + Map!PUMP_V_GAP,
             w |-> Map!PUMP_CARD_W, h |-> Map!PUMP_CARD_H]
    BY Zenon DEF Map!Below
  <2>2. y \in Int
    <3>1. s # <<>> => s[l] \in Rects
      BY <1>1
    <3>. QED
      BY <1>2, <3>1 DEF Rects, Grounded
  <2>. HIDE DEF x, y
  <2>. QED
    BY <2>1, <2>2 DEF Map!PUMP_CARD_H, Map!PUMP_V_GAP, Map!PUMP_CARD_W
<1>4. x \in Int
  BY <1>2 DEF Map!RowX, Map!AtLeast, Map!fullRowWidth, Map!RowWidth, Map!PUMP_CARD_W,
     Map!PUMP_H_GAP, Map!PUMP_MAX_COLS
<1>5. y \in Int
  <2>1. s # <<>> => s[l] \in Rects
    BY <1>1
  <2>. QED
    BY <1>2, <2>1 DEF Rects, Grounded
<1>. HIDE DEF b, x, y
<1>6. b \in Rects /\ b.y = y + 148
  BY <1>3, <1>4, <1>5 DEF Rects
<1>7. ASSUME NEW i \in 1..l
      PROVE  s[i] \in Rects /\ s[i].y <= y
  <2>1. s[i] \in Rects /\ s[l] \in Rects /\ s # <<>>
    BY <1>1
  <2>2. y = s[l].y
    BY <2>1 DEF y
  <2>3. i = l \/ i < l
    BY <1>1
  <2>4. l \in 1..l
    BY <1>1
  <2>5. s[i].y <= s[l].y
    <3>1. CASE i = l
      BY <2>1, <3>1 DEF Rects
    <3>2. CASE i < l
      BY <2>4, <3>2 DEF Stacked
    <3>. QED
      BY <2>3, <3>1, <3>2
  <2>. QED
    BY <2>1, <2>2, <2>5
<1>8. ASSUME NEW i \in 1..l
      PROVE  ~Map!rectsOverlap(s[i], b, 0) /\ ~Map!rectsOverlap(b, s[i], 0) /\ s[i].y <= b.y
  <2>. DEFINE v == s[i].y
              u == b.y
              h == s[i].h
  <2>1. v \in Int /\ v <= y /\ h = 108 /\ u = y + 148
    BY <1>6, <1>7 DEF Rects
  <2>. HIDE DEF u, v, h
  <2>2. ~(u < v + h + 0) /\ v <= u
    BY <1>5, <2>1
  <2>. QED
    BY <2>2, Zenon DEF Map!rectsOverlap, u, v, h
<1>9. /\ t \in Seq(Rects) /\ Len(t) = l + 1
      /\ \A i \in 1..l : t[i] = s[i]
      /\ t[l + 1] = b
  BY <1>1, <1>6, AppendProperties
<1>. HIDE DEF t
<1>10. ASSUME NEW i \in 1..Len(t), NEW j \in 1..Len(t), i # j
       PROVE  ~Map!rectsOverlap(t[i], t[j], 0) /\ (i < j => t[i].y <= t[j].y)
  <2>1. CASE i \in 1..l /\ j \in 1..l
    BY <1>9, <1>10, <2>1 DEF Stacked
  <2>2. CASE i \in 1..l /\ j = l + 1
    BY <1>8, <1>9, <2>2
  <2>3. CASE i = l + 1 /\ j \in 1..l
    <3>1. ~(i < j)
      BY <1>1, <2>3
    <3>. QED
      BY <1>8, <1>9, <2>3, <3>1
  <2>. QED
    BY <1>1, <1>9, <1>10, <2>1, <2>2, <2>3
<1>11. Stacked(t)
  <2>1. \A i, j \in 1..Len(t) : i < j => i # j
    BY <1>1, <1>9
  <2>. QED
    BY <1>9, <1>10, <2>1 DEF Stacked
<1>. QED
  BY <1>9, <1>11 DEF t, b

\* The slots do not touch, and are free cells where there are enough.
LEMMA FreeSlots ==
  ASSUME NEW bounds \in Bounds, NEW count \in Nat, NEW occupied, Grounded(occupied),
         NEW slots, slots = Map!findNextFreePumpSlots(count, occupied, bounds)
  PROVE  /\ Stacked(slots) /\ Len(slots) = count
         /\ count <= Cardinality(FreeCells(occupied, bounds)) =>
              \A i \in 1..count : \E m \in FreeCells(occupied, bounds) :
                slots[i] = Map!Cell(m - 1, 20, bounds)
<1>. DEFINE free == FreeCells(occupied, bounds)
            taken == Map!Taken(count, occupied, bounds)
            d == count - Len(taken)
            seq == [k \in 1..d |-> k]
            Put(s, k) == Append(s, Map!Below(s, occupied, bounds))
            Folds(g) == g = [s \in SUBSET DOMAIN seq |->
                      IF s = {} THEN taken ELSE Put(g[s \ {Map!Max(s)}], seq[Map!Max(s)])]
            g == CHOOSE g : Folds(g)
            S == {s \in Seq(Rects) : Stacked(s)}
            step == [p \in S \X (1..d) |-> Put(p[1], p[2])]
<1>1. slots = g[DOMAIN seq]
  BY Zenon DEF Map!findNextFreePumpSlots, Map!FoldLeft, Map!MapThenFoldSet
<1>2. Found(taken, 20, count, free, bounds)
  BY TakenFound
<1>. HIDE DEF taken, free
<1>3. Len(taken) \in Nat /\ d \in Nat /\ taken \in S
  <2>1. /\ taken \in Seq(Rects) /\ Len(taken) \in Nat /\ Len(taken) <= count
        /\ \A i, j \in 1..Len(taken) : i # j => ~Map!rectsOverlap(taken[i], taken[j], 8)
        /\ \A i, j \in 1..Len(taken) : i < j => taken[i].y <= taken[j].y
    BY <1>2 DEF Found
  <2>2. \A i, j \in 1..Len(taken) : i # j => ~Map!rectsOverlap(taken[i], taken[j], 0)
    <3>1. \A i \in 1..Len(taken) : Whole(taken[i])
      <4>. TAKE i \in 1..Len(taken)
      <4>1. taken[i] \in Rects
        BY <2>1, ElementOfSeq
      <4>. QED
        BY <4>1 DEF Whole, Rects
    <3>. QED
      BY <2>1, <3>1, Padding
  <2>. QED
    BY <2>1, <2>2 DEF Stacked
<1>. HIDE DEF d
<1>4. DOMAIN seq = 1..d /\ \A k \in 1..d : seq[k] = k
  OBVIOUS
<1>. HIDE DEF seq
<1>5. \A s \in S, k \in 1..d : Put(s, k) \in S /\ Len(Put(s, k)) = Len(s) + 1
  <2>. TAKE s \in S, k \in 1..d
  <2>1. Stacked(Put(s, k)) /\ Len(Put(s, k)) = Len(s) + 1
    BY Stacking
  <2>. HIDE DEF Put
  <2>. QED
    BY <2>1 DEF Stacked
<1>6. step \in [S \X (1..d) -> S]
  <2>. HIDE DEF Put, S
  <2>. QED
    BY <1>5
<1>. HIDE DEF Put, S
<1>7. \E h : Folds(h)
  <2>1. HasFold(S, d, taken, step)
    BY <1>3, <1>6, Folding
  <2>2. PICK h \in [SUBSET (1..d) -> S] : IsFold(h, d, taken, step)
    BY <2>1 DEF HasFold
  <2>3. ASSUME NEW s \in SUBSET (1..d), s # {}
        PROVE  step[<<h[s \ {MaxOf(s)}], MaxOf(s)>>] = Put(h[s \ {Map!Max(s)}], seq[Map!Max(s)])
    <3>1. MaxOf(s) = Map!Max(s) /\ MaxOf(s) \in 1..d
      BY <1>3, <2>3, MaxElement, SameMax
    <3>2. h[s \ {MaxOf(s)}] \in S
      OBVIOUS
    <3>. QED
      BY <1>4, <3>1, <3>2
  <2>4. h = [s \in SUBSET (1..d) |->
               IF s = {} THEN taken ELSE step[<<h[s \ {MaxOf(s)}], MaxOf(s)>>]]
    BY <2>2 DEF IsFold
  <2>. HIDE DEF step
  <2>5. Folds(h)
    BY <1>4, <2>3, <2>4
  <2>. QED
    BY <2>5
<1>8. Folds(g)
  BY <1>7, Zenon
<1>. HIDE DEF g
<1>9. \A s \in SUBSET (1..d) :
        g[s] = IF s = {} THEN taken ELSE Put(g[s \ {Map!Max(s)}], seq[Map!Max(s)])
  BY <1>4, <1>8
<1>. HIDE DEF Folds, step
<1>10. g[1..0] = taken
  <2>1. 1..0 = {} /\ {} \in SUBSET (1..d)
    OBVIOUS
  <2>. QED
    BY <1>9, <2>1
<1>. DEFINE P == {k \in 0..d : g[1..k] \in S /\ Len(g[1..k]) = Len(taken) + k}
<1>11. 0 \in P
  BY <1>3, <1>10
<1>12. ASSUME NEW k \in 1..d, k - 1 \in P PROVE k \in P
  <2>. DEFINE s == g[1..(k - 1)]
              t == g[1..k]
  <2>1. /\ k \in 0..d /\ k - 1 \in 0..d /\ 1..k \in SUBSET (1..d) /\ 1..k # {}
        /\ (1..k) \ {k} = 1..(k - 1) /\ Map!Max(1..k) = k
    BY <1>3, Interval
  <2>2. t = Put(s, k)
    <3>1. t = IF 1..k = {} THEN taken ELSE Put(g[(1..k) \ {Map!Max(1..k)}], seq[Map!Max(1..k)])
      BY <1>9, <2>1, Zenon
    <3>2. t = Put(s, seq[k])
      BY <2>1, <3>1, Zenon
    <3>. QED
      BY <1>4, <3>2
  <2>3. s \in S /\ Len(s) = Len(taken) + (k - 1)
    BY <1>12
  <2>. HIDE DEF s, t
  <2>4. t \in S /\ Len(t) = Len(taken) + k
    BY <1>3, <1>5, <2>2, <2>3
  <2>. QED
    BY <2>1, <2>4 DEF t
<1>13. slots \in S /\ Len(slots) = count
  <2>1. d \in P
    <3>1. d \in 0..d
      BY <1>3
    <3>. HIDE DEF P
    <3>. QED
      BY <1>3, <1>11, <1>12, <3>1, Chain
  <2>2. slots \in S /\ Len(slots) = Len(taken) + d
    BY <1>1, <1>4, <2>1
  <2>. QED
    BY <1>3, <2>2 DEF d
<1>14. ASSUME count <= Cardinality(free)
       PROVE  \A i \in 1..count : \E m \in free : slots[i] = Map!Cell(m - 1, 20, bounds)
  <2>1. free \cap 1..20 = free
    BY DEF free, FreeCells
  <2>2. Len(taken) = count
    <3>1. /\ Len(taken) <= count
          /\ Len(taken) = count \/ Len(taken) = Cardinality(free)
      BY <1>2, <2>1 DEF Found
    <3>. QED
      BY <1>3, <1>14, <3>1
  <2>3. slots = taken
    <3>1. d = 0
      BY <1>3, <2>2 DEF d
    <3>. QED
      BY <1>1, <1>4, <1>10, <3>1
  <2>. QED
    BY <1>2, <2>1, <2>2, <2>3 DEF Found
<1>. QED
  BY <1>13, <1>14 DEF free, S

\* The cards of a scene: the first l are saved, the n others belong to the pumps that
\* have no saved one.
Laid(nodes, l, n, scene) ==
  LET placed == {nodes[i].id : i \in 1..l} IN
  /\ l \in Nat /\ n \in Nat /\ DOMAIN nodes = 1..(l + n) /\ Map!Saved(scene) = 1..l
  /\ \A i \in 1..l : /\ nodes[i].id = scene.items[i].asset
                     /\ nodes[i].at.x = scene.items[i].x /\ nodes[i].at.y = scene.items[i].y
  /\ \A i \in (l + 1)..(l + n) : nodes[i].id \notin placed
  /\ \A i, j \in (l + 1)..(l + n) :
       i # j => /\ nodes[i].id # nodes[j].id
                /\ ~Map!rectsOverlap(nodes[i].at, nodes[j].at, 0)
  /\ \A p \in scene.pumps :
       p.id \notin placed => \E i \in (l + 1)..(l + n) : nodes[i].id = p.id
  /\ n <= Cardinality(FreeCells([i \in 1..l |-> nodes[i].at],
                                Map!pumpBounds(scene.canvas, Map!TankBottom))) =>
       \A i \in (l + 1)..(l + n), j \in 1..l : ~Map!rectsOverlap(nodes[i].at, nodes[j].at, 0)

\* Cards that are laid so are placed as they should be.
LEMMA CardsFromLaid ==
  ASSUME NEW scene, NEW l, NEW n, Laid(Map!buildForecourtNodes(scene), l, n, scene)
  PROVE  Map!CardsArePlaced(scene)
<1>. DEFINE nodes == Map!buildForecourtNodes(scene)
            saved == Map!Saved(scene)
            placed == {nodes[i].id : i \in 1..l}
            bounds == Map!pumpBounds(scene.canvas, Map!TankBottom)
            within(p, among) == {i \in among : nodes[i].id = p.id}
<1>1. /\ l \in Nat /\ n \in Nat /\ DOMAIN nodes = 1..(l + n) /\ saved = 1..l
      /\ \A i \in 1..l : /\ nodes[i].id = scene.items[i].asset
                         /\ nodes[i].at.x = scene.items[i].x /\ nodes[i].at.y = scene.items[i].y
      /\ \A i \in (l + 1)..(l + n) : nodes[i].id \notin placed
      /\ \A i, j \in (l + 1)..(l + n) :
           i # j => /\ nodes[i].id # nodes[j].id
                    /\ ~Map!rectsOverlap(nodes[i].at, nodes[j].at, 0)
      /\ \A p \in scene.pumps :
           p.id \notin placed => \E i \in (l + 1)..(l + n) : nodes[i].id = p.id
      /\ n <= Cardinality(FreeCells([i \in 1..l |-> nodes[i].at], bounds)) =>
           \A i \in (l + 1)..(l + n), j \in 1..l : ~Map!rectsOverlap(nodes[i].at, nodes[j].at, 0)
  BY Zenon DEF Laid
<1>. HIDE DEF nodes, bounds
<1>2. DOMAIN nodes \ saved = (l + 1)..(l + n)
  BY <1>1
<1>3. ASSUME NEW p \in scene.pumps
      PROVE  Map!Cardinality(within(p, DOMAIN nodes))
               = Map!AtLeast(1, Map!Cardinality(within(p, saved)))
  <2>1. IsFiniteSet(within(p, saved)) /\ Cardinality(within(p, saved)) \in Nat
    <3>1. IsFiniteSet(1..l)
      BY <1>1, FS_Interval
    <3>2. within(p, saved) \in SUBSET (1..l)
      BY <1>1
    <3>. HIDE DEF within
    <3>3. IsFiniteSet(within(p, saved))
      BY <3>1, <3>2, FS_Subset
    <3>. QED
      BY <3>3, FS_CardinalityType
  <2>2. CASE p.id \in placed
    <3>1. PICK k \in 1..l : nodes[k].id = p.id
      BY <2>2
    <3>2. within(p, DOMAIN nodes) = within(p, saved)
      <4>1. ASSUME NEW i \in DOMAIN nodes, nodes[i].id = p.id PROVE i \in saved
        BY <1>1, <1>2, <2>2, <4>1
      <4>2. saved \subseteq DOMAIN nodes
        BY <1>1
      <4>. QED
        BY <4>1, <4>2
    <3>3. k \in within(p, saved)
      BY <1>1, <3>1
    <3>. HIDE DEF within
    <3>4. Cardinality(within(p, saved)) # 0
      BY <2>1, <3>3, FS_EmptySet
    <3>. QED
      BY <2>1, <3>2, <3>4, SameCardinality DEF Map!AtLeast
  <2>3. CASE p.id \notin placed
    <3>1. PICK k \in (l + 1)..(l + n) : nodes[k].id = p.id
      BY <1>1, <2>3
    <3>2. within(p, saved) = {}
      BY <1>1, <2>3
    <3>3. within(p, DOMAIN nodes) = {k}
      <4>1. k \in DOMAIN nodes
        BY <1>2
      <4>2. ASSUME NEW i \in DOMAIN nodes, nodes[i].id = p.id PROVE i = k
        <5>1. i \in (l + 1)..(l + n)
          BY <1>1, <1>2, <2>3, <4>2
        <5>. QED
          BY <1>1, <3>1, <4>2, <5>1
      <4>. QED
        BY <3>1, <4>1, <4>2
    <3>. HIDE DEF within
    <3>4. Cardinality(within(p, saved)) = 0 /\ Cardinality(within(p, DOMAIN nodes)) = 1
      BY <3>2, <3>3, FS_EmptySet, FS_Singleton
    <3>. QED
      BY <3>4, SameCardinality DEF Map!AtLeast
  <2>. QED
    BY <2>2, <2>3
<1>4. ASSUME Map!HasRoom(scene)
      PROVE  n <= Cardinality(FreeCells([i \in 1..l |-> nodes[i].at], bounds))
  <2>. DEFINE cards == [i \in 1..l |-> nodes[i].at]
              room == {k \in 1..20 : Map!Free(cards, <<>>, Map!Cell(k - 1, 20, bounds))}
  <2>1. Map!Cardinality(DOMAIN nodes \ saved) <= Map!Cardinality(room)
    <3>1. saved = 1..l
      BY <1>1
    <3>2. LET c == [i \in saved |-> nodes[i].at]
          IN  Map!Cardinality(DOMAIN nodes \ saved)
                <= Map!Cardinality({k \in 1..20 : Map!Free(c, <<>>, Map!Cell(k - 1, 20, bounds))})
      BY <1>4, Zenon DEF Map!HasRoom, Map!SlotCells, nodes, bounds
    <3>. HIDE DEF saved
    <3>. QED
      BY <3>1, <3>2, Zenon
  <2>2. room = FreeCells(cards, bounds)
    BY Zenon DEF FreeCells
  <2>3. Cardinality((l + 1)..(l + n)) = n
    BY <1>1, FS_Interval
  <2>. HIDE DEF cards, room
  <2>. QED
    BY <1>2, <2>1, <2>2, <2>3, SameCardinality DEF cards
<1>5. ASSUME NEW i \in DOMAIN nodes \ saved, NEW j \in DOMAIN nodes, i # j,
             j \in saved => Map!HasRoom(scene)
      PROVE  ~Map!rectsOverlap(nodes[i].at, nodes[j].at, 0)
  <2>1. i \in (l + 1)..(l + n)
    BY <1>2
  <2>2. CASE j \in saved
    BY <1>1, <1>4, <1>5, <2>1, <2>2
  <2>3. CASE j \notin saved
    <3>1. j \in (l + 1)..(l + n)
      BY <1>2, <2>3
    <3>. QED
      BY <1>1, <1>5, <2>1, <3>1
  <2>. QED
    BY <2>2, <2>3
<1>6. \A i \in saved : /\ nodes[i].id = scene.items[i].asset
                       /\ nodes[i].at.x = scene.items[i].x
                       /\ nodes[i].at.y = scene.items[i].y
  BY <1>1
<1>. QED
  BY <1>3, <1>5, <1>6, Zenon DEF Map!CardsArePlaced, nodes

\* The automatic layout has no saved cards.
LEMMA LaidGrid ==
  ASSUME NEW scene, IsScene(scene), scene.mode = "AUTO" \/ scene.items = <<>>
  PROVE  Laid(Map!buildForecourtNodes(scene), 0, Cardinality(scene.pumps), scene)
<1>. DEFINE nodes == Map!buildForecourtNodes(scene)
            bounds == Map!pumpBounds(scene.canvas, Map!TankBottom)
            n == Cardinality(scene.pumps)
<1>1. nodes = Map!pumpNodesFromGrid(scene.pumps, bounds)
  BY Zenon DEF Map!buildForecourtNodes
<1>2. bounds \in Bounds
  BY BoundsShape DEF IsScene
<1>. HIDE DEF nodes, bounds
<1>3. IsGrid(nodes, n, scene.pumps, bounds)
  BY <1>1, GridNodes
<1>. HIDE DEF n
<1>4. /\ n \in Nat /\ DOMAIN nodes = 1..n
      /\ \A i \in 1..n : nodes[i].at = Map!Cell(i - 1, n, bounds)
      /\ \A i, j \in 1..n : nodes[i].id = nodes[j].id => i = j
      /\ \A p \in scene.pumps : \E i \in 1..n : nodes[i].id = p.id
  BY <1>3 DEF IsGrid
<1>5. ASSUME NEW i \in 1..n, NEW j \in 1..n, i # j
      PROVE  ~Map!rectsOverlap(nodes[i].at, nodes[j].at, 0)
  <2>. DEFINE a == Map!Cell(i - 1, n, bounds)
              b == Map!Cell(j - 1, n, bounds)
  <2>1. /\ i - 1 \in 0..(n - 1) /\ j - 1 \in 0..(n - 1) /\ i - 1 # j - 1
        /\ bounds \in [left : Int, top : Int, width : Int]
    BY <1>2, <1>4, <1>5 DEF Bounds
  <2>2. ~Map!rectsOverlap(a, b, 8)
    BY <1>4, <2>1, CellsApart
  <2>3. a \in Rects /\ b \in Rects
    BY <1>2, <1>4, <2>1, CellShape
  <2>. HIDE DEF a, b
  <2>4. Whole(a) /\ Whole(b)
    BY <2>3 DEF Whole, Rects
  <2>5. ~Map!rectsOverlap(a, b, 0)
    BY <2>2, <2>4, Padding
  <2>. QED
    BY <1>4, <2>5, Zenon DEF a, b
<1>6. Map!Saved(scene) = {}
  <2>1. CASE scene.mode = "AUTO"
    BY <2>1, Zenon DEF Map!Saved
  <2>2. CASE scene.items = <<>>
    <3>1. DOMAIN <<>> = {}
      OBVIOUS
    <3>. QED
      BY <2>2, <3>1, Zenon DEF Map!Saved
  <2>. QED
    BY <2>1, <2>2
<1>7. 1..0 = {} /\ 0 + 1 = 1 /\ 0 + n = n
  BY <1>4
<1>. QED
  BY <1>4, <1>5, <1>6, <1>7 DEF Laid, nodes, n

\* A saved layout has its items first, then the pumps without one.
LEMMA LaidCustom ==
  ASSUME NEW scene, IsScene(scene), scene.mode # "AUTO", scene.items # <<>>
  PROVE  \E l, n : Laid(Map!buildForecourtNodes(scene), l, n, scene)
<1>. DEFINE items == scene.items
            l == Len(items)
            nodes == Map!buildForecourtNodes(scene)
            bounds == Map!pumpBounds(scene.canvas, Map!TankBottom)
            existing == Map!parseLayoutItems(items)
            placed == {existing[i].id : i \in DOMAIN existing}
            left == {p \in scene.pumps : p.id \notin placed}
            n == Cardinality(left)
            missing == Map!sortPumpsForLayout(left)
            occupied == [i \in DOMAIN existing |-> existing[i].at]
            slots == Map!findNextFreePumpSlots(Len(missing), occupied, bounds)
            added == [i \in DOMAIN missing |-> Map!Node(missing[i], slots[i])]
<1>1. nodes = existing \o added
  BY Zenon DEF Map!buildForecourtNodes, Map!placeMissingPumpsCustom
<1>2. bounds \in Bounds
  BY BoundsShape DEF IsScene
<1>3. /\ l \in Nat /\ DOMAIN items = 1..l
      /\ \A i \in 1..l : /\ items[i].x \in Int /\ items[i].y \in Int
                         /\ items[i].w \in Int /\ items[i].h \in Int
  BY DEF IsScene
<1>. HIDE DEF nodes, bounds, l
<1>4. /\ existing = [i \in 1..l |-> existing[i]]
      /\ \A i \in 1..l : /\ existing[i].id = items[i].asset
                         /\ existing[i].at.x = items[i].x /\ existing[i].at.y = items[i].y
                         /\ Whole(existing[i].at)
  <2>1. existing = [i \in 1..l |->
          [id |-> items[i].asset,
           at |-> [x |-> items[i].x, y |-> items[i].y,
                   w |-> Map!AtLeast(100, items[i].w), h |-> Map!AtLeast(108, items[i].h)]]]
    BY <1>3, Zenon DEF Map!parseLayoutItems, Map!PUMP_CARD_W, Map!PUMP_CARD_H
  <2>. HIDE DEF existing
  <2>2. existing = [i \in 1..l |-> existing[i]]
    BY <2>1
  <2>3. ASSUME NEW i \in 1..l
        PROVE  /\ existing[i].id = items[i].asset
               /\ existing[i].at.x = items[i].x /\ existing[i].at.y = items[i].y
               /\ Whole(existing[i].at)
    <3>1. existing[i] = [id |-> items[i].asset,
           at |-> [x |-> items[i].x, y |-> items[i].y,
                   w |-> Map!AtLeast(100, items[i].w), h |-> Map!AtLeast(108, items[i].h)]]
      BY <2>1
    <3>2. Map!AtLeast(100, items[i].w) \in Int /\ Map!AtLeast(108, items[i].h) \in Int
      BY <1>3 DEF Map!AtLeast
    <3>. QED
      BY <1>3, <3>1, <3>2 DEF Whole
  <2>. QED
    BY <2>2, <2>3
<1>. HIDE DEF existing, items
<1>5. /\ DOMAIN existing = 1..l
      /\ occupied = [i \in 1..l |-> existing[i].at] /\ Grounded(occupied)
  <2>1. DOMAIN existing = 1..l
    BY <1>4
  <2>2. occupied = [i \in 1..l |-> existing[i].at]
    BY <2>1
  <2>. HIDE DEF occupied
  <2>3. Len(occupied) = l /\ (occupied # <<>> => l # 0)
    BY <1>3, <2>2
  <2>4. l # 0 => occupied[l].y \in Int
    BY <1>3, <1>4, <2>2 DEF Whole
  <2>. QED
    BY <2>1, <2>2, <2>3, <2>4 DEF Grounded
<1>6. /\ n \in Nat /\ missing \in [1..n -> left] /\ Len(missing) = n
      /\ \A i, j \in 1..n : i # j => missing[i] # missing[j]
      /\ \A p \in left : \E i \in 1..n : missing[i] = p
  <2>1. left \in SUBSET scene.pumps
    OBVIOUS
  <2>. HIDE DEF left
  <2>2. IsFiniteSet(left)
    BY <2>1, FS_Subset DEF IsScene
  <2>3. /\ \A p \in left : p.order \in Int /\ p.code \in Int
        /\ \A p, q \in left : p.order = q.order /\ p.code = q.code => p = q
    BY <2>1 DEF IsScene
  <2>. QED
    BY <2>2, <2>3, SortedPumps
<1>. HIDE DEF missing, occupied, n
<1>7. /\ Stacked(slots) /\ Len(slots) = n
      /\ n <= Cardinality(FreeCells(occupied, bounds)) =>
           \A i \in 1..n : \E m \in FreeCells(occupied, bounds) :
             slots[i] = Map!Cell(m - 1, 20, bounds)
  <2>1. slots = Map!findNextFreePumpSlots(n, occupied, bounds)
    BY <1>6
  <2>. HIDE DEF slots
  <2>. QED
    <3>1. bounds \in Bounds /\ n \in Nat /\ Grounded(occupied)
      BY <1>2, <1>5, <1>6
    <3>. QED
      BY <2>1, <3>1, FreeSlots
<1>. HIDE DEF slots
<1>8. /\ added = [i \in 1..n |-> added[i]]
      /\ \A i \in 1..n : added[i].id = missing[i].id /\ added[i].at = slots[i]
  BY <1>6 DEF Map!Node
<1>. HIDE DEF added
<1>9. /\ DOMAIN nodes = 1..(l + n)
      /\ \A i \in 1..l : nodes[i] = existing[i]
      /\ \A i \in (l + 1)..(l + n) : i - l \in 1..n /\ nodes[i] = added[i - l]
  <2>. DEFINE S == {existing[i] : i \in 1..l} \cup {added[i] : i \in 1..n}
  <2>1. existing \in [1..l -> S] /\ added \in [1..n -> S]
    BY <1>4, <1>8
  <2>. HIDE DEF S
  <2>2. existing \in Seq(S) /\ Len(existing) = l /\ added \in Seq(S) /\ Len(added) = n
    <3>1. l \in Nat /\ n \in Nat
      BY <1>3, <1>6
    <3>2. existing \in Seq(S) /\ added \in Seq(S)
      BY <2>1, <3>1, SeqDef
    <3>3. Len(existing) = l
      BY <2>1, <3>1
    <3>4. Len(added) = n
      BY <2>1, <3>1
    <3>. QED
      BY <3>2, <3>3, <3>4
  <2>3. /\ nodes \in Seq(S) /\ Len(nodes) = l + n
        /\ \A i \in 1..(l + n) : nodes[i] = IF i <= l THEN existing[i] ELSE added[i - l]
    BY <1>1, <2>2, ConcatProperties
  <2>. QED
    BY <1>3, <1>6, <2>3
<1>10. Map!Saved(scene) = 1..l
  BY <1>3, Zenon DEF Map!Saved, items
<1>11. placed = {nodes[i].id : i \in 1..l}
  BY <1>5, <1>9
<1>12. \A i \in (l + 1)..(l + n) : nodes[i].id \notin placed
  <2>. TAKE i \in (l + 1)..(l + n)
  <2>1. i - l \in 1..n /\ nodes[i].id = missing[i - l].id
    BY <1>8, <1>9
  <2>2. missing[i - l] \in left
    BY <1>6, <2>1
  <2>. HIDE DEF placed
  <2>. QED
    BY <2>1, <2>2
<1>13. ASSUME NEW i \in (l + 1)..(l + n), NEW j \in (l + 1)..(l + n), i # j
       PROVE  /\ nodes[i].id # nodes[j].id
              /\ ~Map!rectsOverlap(nodes[i].at, nodes[j].at, 0)
  <2>. DEFINE a == i - l
              b == j - l
  <2>1. a \in 1..n /\ b \in 1..n /\ a # b
    BY <1>3, <1>6, <1>13
  <2>2. nodes[i] = added[a] /\ nodes[j] = added[b]
    BY <1>9
  <2>. HIDE DEF a, b
  <2>3. /\ nodes[i].id = missing[a].id /\ nodes[i].at = slots[a]
        /\ nodes[j].id = missing[b].id /\ nodes[j].at = slots[b]
    BY <1>8, <2>1, <2>2
  <2>4. missing[a] \in scene.pumps /\ missing[b] \in scene.pumps /\ missing[a] # missing[b]
    BY <1>6, <2>1
  <2>5. missing[a].id # missing[b].id
    BY <2>4 DEF IsScene
  <2>6. ~Map!rectsOverlap(slots[a], slots[b], 0)
    BY <1>7, <2>1 DEF Stacked
  <2>. QED
    BY <2>3, <2>5, <2>6
<1>14. \A p \in scene.pumps :
         p.id \notin placed => \E i \in (l + 1)..(l + n) : nodes[i].id = p.id
  <2>. SUFFICES ASSUME NEW p \in scene.pumps, p.id \notin placed
                PROVE  \E i \in (l + 1)..(l + n) : nodes[i].id = p.id
    OBVIOUS
  <2>1. p \in left
    OBVIOUS
  <2>2. PICK k \in 1..n : missing[k] = p
    BY <1>6, <2>1
  <2>3. l + k \in (l + 1)..(l + n) /\ (l + k) - l = k
    BY <1>3, <1>6
  <2>4. nodes[l + k].id = p.id
    BY <1>8, <1>9, <2>2, <2>3
  <2>. QED
    BY <2>3, <2>4
<1>15. occupied = [i \in 1..l |-> nodes[i].at]
  BY <1>5, <1>9
<1>16. ASSUME n <= Cardinality(FreeCells(occupied, bounds)),
              NEW i \in (l + 1)..(l + n), NEW j \in 1..l
       PROVE  ~Map!rectsOverlap(nodes[i].at, nodes[j].at, 0)
  <2>1. i - l \in 1..n /\ nodes[i].at = slots[i - l]
    BY <1>8, <1>9
  <2>2. PICK m \in FreeCells(occupied, bounds) : slots[i - l] = Map!Cell(m - 1, 20, bounds)
    BY <1>7, <1>16, <2>1
  <2>. DEFINE c == Map!Cell(m - 1, 20, bounds)
  <2>3. m \in 1..20 /\ Map!Free(occupied, <<>>, c)
    BY DEF FreeCells
  <2>4. m - 1 \in 0..(20 - 1) /\ 20 \in Nat
    BY <2>3
  <2>5. c \in Rects
    BY <1>2, <2>4, CellShape
  <2>6. j \in DOMAIN occupied /\ occupied[j] = existing[j].at /\ nodes[j].at = existing[j].at
    BY <1>5, <1>9
  <2>7. ~Map!rectsOverlap(occupied[j], c, 8)
    BY <2>3, <2>6, Zenon DEF Map!Free
  <2>. HIDE DEF c
  <2>8. Whole(c) /\ Whole(occupied[j])
    <3>1. Whole(c)
      BY <2>5 DEF Rects, Whole
    <3>. QED
      BY <1>4, <2>6, <3>1
  <2>9. ~Map!rectsOverlap(c, occupied[j], 0)
    BY <2>7, <2>8, Padding
  <2>. QED
    BY <2>1, <2>2, <2>6, <2>9 DEF c
<1>. HIDE DEF placed
<1>17. \A i \in 1..l : /\ nodes[i].id = scene.items[i].asset
                       /\ nodes[i].at.x = scene.items[i].x /\ nodes[i].at.y = scene.items[i].y
  BY <1>4, <1>9 DEF items
<1>18. Laid(nodes, l, n, scene)
  BY <1>3, <1>6, <1>9, <1>10, <1>11, <1>12, <1>13, <1>14, <1>15, <1>16, <1>17, Zenon
     DEF Laid, bounds
<1>. QED
  BY <1>18 DEF nodes

\* The cards of a scene are placed as they should be.
LEMMA CardsPlaced ==
  ASSUME NEW scene, IsScene(scene)
  PROVE  Map!CardsArePlaced(scene)
<1>1. CASE scene.mode = "AUTO" \/ scene.items = <<>>
  BY <1>1, LaidGrid, CardsFromLaid
<1>2. CASE scene.mode # "AUTO" /\ scene.items # <<>>
  BY <1>2, LaidCustom, CardsFromLaid
<1>. QED
  BY <1>1, <1>2

-----------------------------------------------------------------------------
(***************************************************************************)
(* The day's sales: two rankings of the same amounts.                      *)
(***************************************************************************)

\* s has every row, the largest amount first.
Ranked(s, given) ==
  /\ DOMAIN s = 1..Cardinality(given)
  /\ \A i \in DOMAIN s : s[i] \in given
  /\ \A r \in given : \E i \in DOMAIN s : s[i] = r
  /\ \A i, j \in DOMAIN s : i < j => s[i].amount >= s[j].amount

\* A finite set can be ranked: rows of equal amounts in any order.
LEMMA RankingExists ==
  ASSUME NEW given, IsFiniteSet(given), \A r \in given : r.amount \in Int
  PROVE  \E s \in Totals!SetToSeqs(given) :
           \A i, j \in DOMAIN s : i < j => s[i].amount >= s[j].amount
<1>. DEFINE n == Cardinality(given)
<1>1. n \in Nat /\ \E b : b \in Bijection(1..n, given)
  BY FS_CardinalityType DEF ExistsBijection
<1>. HIDE DEF n
<1>2. PICK b : b \in Bijection(1..n, given)
  BY <1>1
<1>. DEFINE e == [x \in given |-> CHOOSE i \in 1..n : b[i] = x]
<1>3. \A x \in given : e[x] \in 1..n /\ b[e[x]] = x
  <2>1. \A x \in given : \E i \in 1..n : b[i] = x
    BY <1>2 DEF Bijection, Surjection
  <2>. TAKE x \in given
  <2>2. e[x] = CHOOSE i \in 1..n : b[i] = x
    OBVIOUS
  <2>. HIDE DEF e
  <2>. QED
    BY <2>1, <2>2
<1>. HIDE DEF e
<1>. DEFINE First(x, y) == x.amount > y.amount \/ (x.amount = y.amount /\ e[x] < e[y])
            R == {p \in given \X given : First(p[1], p[2])}
            place == [x \in given |-> Cardinality({y \in given : <<y, x>> \in R})]
            s == [i \in 1..n |-> CHOOSE x \in given : place[x] = i - 1]
<1>4. \A x, y \in given : <<x, y>> \in R <=> First(x, y)
  OBVIOUS
<1>5. StrictOrder(given, R)
  <2>1. \A x \in given : e[x] \in Int /\ x.amount \in Int
    BY <1>1, <1>3
  <2>2. \A x, y \in given : x # y => e[x] # e[y]
    BY <1>3
  <2>. HIDE DEF R
  <2>3. \A x \in given : ~First(x, x)
    BY <2>1
  <2>4. \A x, y, z \in given : First(x, y) /\ First(y, z) => First(x, z)
    BY <2>1
  <2>5. \A x, y \in given : x # y => First(x, y) \/ First(y, x)
    BY <2>1, <2>2
  <2>. HIDE DEF First
  <2>. QED
    BY <1>4, <2>3, <2>4, <2>5 DEF StrictOrder
<1>. HIDE DEF R
<1>6. \A i \in 1..n : \E x \in given : place[x] = i - 1
  <2>1. place = [x \in given |-> Cardinality({y \in given : <<y, x>> \in R})]
    OBVIOUS
  <2>. HIDE DEF place
  <2>. QED
    BY <1>5, <2>1, Places DEF n
<1>7. \A i \in 1..n : s[i] \in given /\ place[s[i]] = i - 1
  <2>. TAKE i \in 1..n
  <2>1. s[i] = CHOOSE x \in given : place[x] = i - 1
    OBVIOUS
  <2>. HIDE DEF s, place
  <2>. QED
    BY <1>6, <2>1
<1>8. s = [i \in 1..n |-> s[i]]
  <2>1. s = [i \in 1..n |-> CHOOSE x \in given : place[x] = i - 1]
    OBVIOUS
  <2>. HIDE DEF s, place
  <2>. QED
    BY <2>1
<1>9. place = [x \in given |-> Cardinality({y \in given : <<y, x>> \in R})]
  OBVIOUS
<1>. HIDE DEF s, place
<1>10. IsOrdered(s, given, R)
  BY <1>5, <1>7, <1>8, <1>9, Ordering DEF n
<1>11. /\ s \in [1..n -> given]
       /\ \A i, j \in 1..n : i < j => <<s[i], s[j]>> \in R
       /\ \A i, j \in 1..n : i # j => s[i] # s[j]
  BY <1>10 DEF IsOrdered, n
<1>12. s \in Totals!SetToSeqs(given)
  BY <1>11, SameCardinality DEF Totals!SetToSeqs, n
<1>13. \A i, j \in DOMAIN s : i < j => s[i].amount >= s[j].amount
  <2>. SUFFICES ASSUME NEW i \in 1..n, NEW j \in 1..n, i < j
                PROVE  s[i].amount >= s[j].amount
    BY <1>11
  <2>1. s[i] \in given /\ s[j] \in given /\ First(s[i], s[j])
    BY <1>4, <1>11
  <2>2. s[i].amount \in Int /\ s[j].amount \in Int
    BY <2>1
  <2>. QED
    BY <2>1, <2>2
<1>. QED
  BY <1>12, <1>13

\* The ranking of the server is one.
LEMMA DescendingRanks ==
  ASSUME NEW given, IsFiniteSet(given), \A r \in given : r.amount \in Int
  PROVE  Ranked(Totals!Descending(given), given) /\ Cardinality(given) \in Nat
<1>. DEFINE s == Totals!Descending(given)
            n == Cardinality(given)
<1>1. s \in Totals!SetToSeqs(given) /\ \A i, j \in DOMAIN s : i < j => s[i].amount >= s[j].amount
  BY RankingExists, Zenon DEF Totals!Descending
<1>. HIDE DEF s
<1>2. /\ s \in [1..n -> given]
      /\ \A i, j \in 1..n : i # j => s[i] # s[j]
  BY <1>1, SameCardinality DEF Totals!SetToSeqs
<1>3. n \in Nat
  BY FS_CardinalityType
<1>4. s \in Surjection(1..n, given)
  <2>1. IsFiniteSet(1..n) /\ Cardinality(1..n) = n
    BY <1>3, FS_Interval
  <2>2. s \in Injection(1..n, given)
    BY <1>2 DEF Injection, IsInjective
  <2>. QED
    BY <2>1, <2>2, FS_Injection
<1>. QED
  BY <1>1, <1>2, <1>3, <1>4 DEF Ranked, Surjection, s

\* What sold is a natural number, and nothing when nothing sold.
LEMMA SoldIsNat ==
  ASSUME NEW sold, IsFiniteSet(DOMAIN sold), sold \in [DOMAIN sold -> Nat],
         NEW ids, NEW day
  PROVE  /\ Totals!SoldUnder(sold, ids, day) \in Nat
         /\ {k \in Totals!SalesOf(sold, day) : k[1] \in ids} = {} =>
              Totals!SoldUnder(sold, ids, day) = 0
<1>. DEFINE X == {k \in Totals!SalesOf(sold, day) : k[1] \in ids}
            pick(s) == CHOOSE x \in s : TRUE
            Small(n) == {s \in SUBSET X : Cardinality(s) <= n}
            Adds(g, S) == \A s \in S :
                            g[s] = IF s = {} THEN 0 ELSE sold[pick(s)] + g[s \ {pick(s)}]
            Sums(g) == g = [s \in SUBSET X |->
                         IF s = {} THEN 0 ELSE sold[pick(s)] + g[s \ {pick(s)}]]
            g == CHOOSE g : Sums(g)
<1>1. Totals!SoldUnder(sold, ids, day) = g[X]
  BY Zenon DEF Totals!SoldUnder, Totals!MapThenSumSet, Totals!MapThenFoldSet
<1>2. IsFiniteSet(X) /\ \A x \in X : sold[x] \in Nat
  <2>1. X \in SUBSET DOMAIN sold
    BY DEF Totals!SalesOf
  <2>. HIDE DEF X
  <2>. QED
    BY <2>1, FS_Subset
<1>. HIDE DEF X
<1>3. ASSUME NEW s \in SUBSET X
      PROVE  /\ Cardinality(s) \in Nat /\ (Cardinality(s) = 0 <=> s = {})
             /\ s # {} => /\ pick(s) \in X /\ s \ {pick(s)} \in SUBSET X
                          /\ Cardinality(s \ {pick(s)}) = Cardinality(s) - 1
  <2>1. IsFiniteSet(s)
    BY <1>2, FS_Subset
  <2>2. s # {} => pick(s) \in s
    OBVIOUS
  <2>. HIDE DEF pick
  <2>. QED
    BY <2>1, <2>2, FS_CardinalityType, FS_EmptySet, FS_RemoveElement
<1>. HIDE DEF pick
<1>11. \A n \in Nat : \A s : s \in Small(n) <=> s \in SUBSET X /\ Cardinality(s) <= n
  OBVIOUS
<1>12. \A s : s \in Small(0) <=> s = {}
  <2>1. ASSUME NEW s, s \in Small(0) PROVE s = {}
    <3>1. s \in SUBSET X /\ Cardinality(s) <= 0
      BY <2>1
    <3>2. Cardinality(s) \in Nat /\ (Cardinality(s) = 0 <=> s = {})
      BY <1>3, <3>1
    <3>. QED
      BY <3>1, <3>2
  <2>2. Cardinality({}) = 0
    BY FS_EmptySet
  <2>. QED
    BY <2>1, <2>2
<1>13. \A n \in Nat : \A s \in Small(n + 1) :
         /\ s \in SUBSET X
         /\ s # {} => s \ {pick(s)} \in Small(n) /\ pick(s) \in X
  <2>. SUFFICES ASSUME NEW n \in Nat, NEW s \in Small(n + 1)
                PROVE  /\ s \in SUBSET X
                       /\ s # {} => s \ {pick(s)} \in Small(n) /\ pick(s) \in X
    OBVIOUS
  <2>1. s \in SUBSET X /\ Cardinality(s) <= n + 1
    OBVIOUS
  <2>. HIDE DEF Small
  <2>2. /\ Cardinality(s) \in Nat
        /\ s # {} => /\ pick(s) \in X /\ s \ {pick(s)} \in SUBSET X
                     /\ Cardinality(s \ {pick(s)}) = Cardinality(s) - 1
    BY <1>3, <2>1
  <2>3. s # {} => Cardinality(s \ {pick(s)}) <= n
    BY <2>1, <2>2
  <2>. QED
    BY <1>11, <2>1, <2>2, <2>3
<1>14. \A n \in Nat : \A s \in Small(n) : s \in Small(n + 1)
  <2>. SUFFICES ASSUME NEW n \in Nat, NEW s \in Small(n) PROVE s \in Small(n + 1)
    OBVIOUS
  <2>1. s \in SUBSET X /\ Cardinality(s) <= n /\ Cardinality(s) \in Nat
    BY <1>3
  <2>. HIDE DEF Small
  <2>2. Cardinality(s) <= n + 1
    BY <2>1
  <2>. QED
    BY <1>11, <2>1, <2>2
<1>15. X \in Small(Cardinality(X)) /\ Cardinality(X) \in Nat
  <2>1. Cardinality(X) \in Nat
    BY <1>3
  <2>. HIDE DEF Small
  <2>. QED
    BY <1>11, <2>1
<1>. HIDE DEF Small
<1>4. \A n \in Nat : \E f \in [Small(n) -> Nat] : Adds(f, Small(n))
  <2>. DEFINE T == {n \in Nat : \E f \in [Small(n) -> Nat] : Adds(f, Small(n))}
  <2>1. 0 \in T
    <3>. DEFINE f == [s \in Small(0) |-> 0]
    <3>1. \A s \in Small(0) : s = {}
      BY <1>12
    <3>2. f \in [Small(0) -> Nat] /\ Adds(f, Small(0))
      BY <3>1
    <3>. QED
      BY <3>2
  <2>2. ASSUME NEW n \in Nat, n \in T PROVE n + 1 \in T
    <3>1. PICK f \in [Small(n) -> Nat] : Adds(f, Small(n))
      BY <2>2
    <3>. DEFINE h == [s \in Small(n + 1) |->
                        IF s = {} THEN 0 ELSE sold[pick(s)] + f[s \ {pick(s)}]]
    <3>2. ASSUME NEW s \in Small(n + 1), s # {}
          PROVE  s \ {pick(s)} \in Small(n) /\ pick(s) \in X
      BY <1>13, <3>2
    <3>3. ASSUME NEW s \in Small(n) PROVE s \in Small(n + 1)
      BY <1>14
    <3>4. \A s \in Small(n + 1) :
            h[s] = IF s = {} THEN 0 ELSE sold[pick(s)] + f[s \ {pick(s)}]
      OBVIOUS
    <3>5. h \in [Small(n + 1) -> Nat]
      <4>1. ASSUME NEW s \in Small(n + 1)
            PROVE  (IF s = {} THEN 0 ELSE sold[pick(s)] + f[s \ {pick(s)}]) \in Nat
        <5>. HIDE DEF h
        <5>. QED
          BY <1>2, <3>2
      <4>. QED
        BY <4>1
    <3>. HIDE DEF h
    <3>6. \A s \in Small(n) : h[s] = f[s]
      BY <3>1, <3>3, <3>4
    <3>7. Adds(h, Small(n + 1))
      BY <3>2, <3>4, <3>6
    <3>. HIDE DEF Adds
    <3>8. \E z \in [Small(n + 1) -> Nat] : Adds(z, Small(n + 1))
      BY <3>5, <3>7
    <3>9. n + 1 \in Nat
      OBVIOUS
    <3>. QED
      BY <3>8, <3>9
  <2>. HIDE DEF T
  <2>3. T = Nat
    <3>1. T \in SUBSET Nat
      BY DEF T
    <3>. QED
      BY <2>1, <2>2, <3>1, NatSet
  <2>. QED
    BY <2>3 DEF T
<1>5. \E f : Sums(f)
  <2>. DEFINE n == Cardinality(X)
  <2>1. n \in Nat
    BY <1>2, FS_CardinalityType
  <2>2. Small(n) = SUBSET X
    <3>1. \A s \in SUBSET X : Cardinality(s) <= n
      BY <1>2, FS_Subset
    <3>. QED
      BY <1>11, <2>1, <3>1
  <2>. HIDE DEF n
  <2>3. PICK f \in [SUBSET X -> Nat] : Adds(f, SUBSET X)
    BY <1>4, <2>1, <2>2
  <2>4. Sums(f)
    BY <2>3
  <2>. QED
    BY <2>4
<1>6. Sums(g)
  BY <1>5, Zenon
<1>. HIDE DEF g
<1>7. Adds(g, SUBSET X)
  BY <1>6
<1>. HIDE DEF Sums
<1>8. \A n \in Nat : \A s \in Small(n) : g[s] \in Nat
  <2>. DEFINE T == {n \in Nat : \A s \in Small(n) : g[s] \in Nat}
  <2>1. 0 \in T
    <3>1. \A s \in Small(0) : s = {} /\ s \in SUBSET X
      BY <1>12
    <3>2. \A s \in Small(0) : g[s] = 0
      BY <1>7, <3>1
    <3>. QED
      BY <3>2
  <2>2. ASSUME NEW n \in Nat, n \in T PROVE n + 1 \in T
    <3>. SUFFICES ASSUME NEW s \in Small(n + 1) PROVE g[s] \in Nat
      OBVIOUS
    <3>1. s \in SUBSET X /\ (s # {} => s \ {pick(s)} \in Small(n) /\ pick(s) \in X)
      BY <1>13
    <3>2. \A z \in Small(n) : g[z] \in Nat
      BY <2>2
    <3>3. g[s] = IF s = {} THEN 0 ELSE sold[pick(s)] + g[s \ {pick(s)}]
      BY <1>7, <3>1
    <3>4. CASE s = {}
      BY <3>3, <3>4
    <3>5. CASE s # {}
      <4>1. sold[pick(s)] \in Nat /\ g[s \ {pick(s)}] \in Nat
        BY <1>2, <3>1, <3>2, <3>5
      <4>. QED
        BY <3>3, <3>5, <4>1
    <3>. QED
      BY <3>4, <3>5
  <2>. HIDE DEF T
  <2>3. T = Nat
    <3>1. T \in SUBSET Nat
      BY DEF T
    <3>. QED
      BY <2>1, <2>2, <3>1, NatSet
  <2>. QED
    BY <2>3 DEF T
<1>9. g[X] \in Nat
  BY <1>8, <1>15
<1>10. X = {} => g[X] = 0
  BY <1>7
<1>. QED
  BY <1>1, <1>9, <1>10 DEF X

\* The first row of a ranking has the largest amount.
LEMMA TopRow ==
  ASSUME NEW s, NEW given, Ranked(s, given), Cardinality(given) \in Nat, given # {},
         \A r \in given : r.amount \in Int
  PROVE  /\ s[1] \in given /\ s # <<>>
         /\ \A r \in given : r.amount <= s[1].amount
<1>. DEFINE n == Cardinality(given)
<1>1. /\ n \in Nat /\ DOMAIN s = 1..n /\ \A i \in 1..n : s[i] \in given
      /\ \A r \in given : \E i \in 1..n : s[i] = r
      /\ \A i, j \in 1..n : i < j => s[i].amount >= s[j].amount
  BY DEF Ranked
<1>. HIDE DEF n
<1>2. 1 \in 1..n
  <2>1. PICK i \in 1..n : TRUE
    BY <1>1
  <2>. QED
    BY <1>1, <2>1
<1>3. s # <<>>
  BY <1>1, <1>2
<1>4. ASSUME NEW r \in given PROVE r.amount <= s[1].amount
  <2>1. PICK i \in 1..n : s[i] = r
    BY <1>1
  <2>2. i = 1 \/ 1 < i
    BY <1>1
  <2>3. r.amount \in Int /\ s[1].amount \in Int
    BY <1>1, <1>2
  <2>4. 1 < i => s[1].amount >= r.amount
    BY <1>1, <1>2, <2>1
  <2>. QED
    BY <2>1, <2>2, <2>3, <2>4
<1>. QED
  BY <1>1, <1>2, <1>3, <1>4

\* The ids that sold are finitely many.
LEMMA IdsSoldFinite ==
  ASSUME NEW sold, IsFiniteSet(DOMAIN sold), NEW day
  PROVE  IsFiniteSet(Totals!IdsSold(sold, day))
<1>. DEFINE keys == Totals!SalesOf(sold, day)
            id == [k \in keys |-> k[1]]
<1>1. IsFiniteSet(keys)
  <2>1. keys \in SUBSET DOMAIN sold
    BY DEF Totals!SalesOf
  <2>. HIDE DEF keys
  <2>. QED
    BY <2>1, FS_Subset
<1>. HIDE DEF keys
<1>2. id \in Surjection(keys, {k[1] : k \in keys})
  BY DEF Surjection
<1>3. Totals!IdsSold(sold, day) = {k[1] : k \in keys}
  BY DEF Totals!IdsSold, keys
<1>. HIDE DEF id
<1>. QED
  BY <1>1, <1>2, <1>3, FS_Surjection

\* Stations page and overviews show the same amounts, although two queries add them up.
LEMMA PagesCorrect ==
  ASSUME NEW all, IsFiniteSet(all), NEW t,
         IsFiniteSet(DOMAIN t.sales), t.sales \in [DOMAIN t.sales -> Nat],
         None \notin {k[1] : k \in DOMAIN t.sales},
         Totals!StationSales(all, t.sales, t.now, t.zone) # None,
         Totals!Performance(all, t.sales, t.now, t.org) # None
  PROVE  Totals!PagesAgree(all, t)
<1>. DEFINE day == Totals!DayOf(t.now, t.zone)
            stations == Totals!Accessible(all, t.org)
            ids == Totals!IdsSold(t.sales, day)
            amount(i) == Totals!SoldUnder(t.sales, {i}, day)
            byId == Totals!StationSales(all, t.sales, t.now, t.zone)
            byStation == Totals!Performance(all, t.sales, t.now, t.org)
            table == Totals!StationRows(all, byId, {}, {})
            sold == {[id |-> i, amount |-> amount(i),
                      named |-> \E s \in all : s.code = i] : i \in ids}
            under(s) == Totals!IdsOf(s) \cap ids
            total(s) == Totals!SoldUnder(t.sales, Totals!IdsOf(s), day)
            sums == {[id |-> s.id, amount |-> total(s)] : s \in stations}
<1>. SUFFICES ASSUME Totals!SalesOf(t.sales, day)
                       = Totals!SalesOf(t.sales, Totals!DayOf(t.now, Totals!Lagos)),
                     \A s \in stations : Totals!Cardinality(under(s)) <= 1
              PROVE  /\ \A s \in stations : \E r \in Totals!Range(byStation) :
                          r.id = s.id /\ r.amount = table[s].amount
                     /\ ids # {} /\ ids \subseteq UNION {Totals!IdsOf(s) : s \in stations} =>
                          Totals!Best(byId).amount = Totals!Best(byStation).amount
  BY Zenon DEF Totals!PagesAgree
<1>0. \A X : Totals!SoldUnder(t.sales, X, Totals!DayOf(t.now, Totals!Lagos))
              = Totals!SoldUnder(t.sales, X, day)
  BY Zenon DEF Totals!SoldUnder
<1>1. byId = Totals!Descending(sold) /\ byStation = Totals!Descending(sums)
  <2>1. byId = Totals!Descending(sold)
    BY Zenon DEF Totals!StationSales
  <2>2. {[id |-> s.id, amount |->
            Totals!SoldUnder(t.sales, Totals!IdsOf(s), Totals!DayOf(t.now, Totals!Lagos))] :
           s \in stations} = sums
    BY <1>0
  <2>. HIDE DEF sums
  <2>. QED
    BY <2>1, <2>2, Zenon DEF Totals!Performance
<1>2. /\ IsFiniteSet(ids) /\ None \notin ids
      /\ \A i \in ids : amount(i) \in Nat
  BY IdsSoldFinite, SoldIsNat DEF Totals!IdsSold, Totals!SalesOf
<1>13. stations \in SUBSET all /\ IsFiniteSet(stations)
  <2>1. stations \in SUBSET all
    BY DEF Totals!Accessible
  <2>. HIDE DEF stations
  <2>. QED
    BY <2>1, FS_Subset
<1>14. ASSUME NEW X, NEW i, X \cap ids \subseteq {i}
       PROVE  Totals!SoldUnder(t.sales, X, day) = IF i \in X \cap ids THEN amount(i) ELSE 0
  <2>. DEFINE of(I) == {k \in Totals!SalesOf(t.sales, day) : k[1] \in I}
  <2>1. \A k \in Totals!SalesOf(t.sales, day) : k[1] \in ids
    BY DEF Totals!IdsSold
  <2>2. CASE i \in X \cap ids
    <3>1. of(X) = of({i})
      <4>. HIDE DEF ids
      <4>. QED
        BY <1>14, <2>1, <2>2
    <3>. QED
      BY <2>2, <3>1, Zenon DEF Totals!SoldUnder
  <2>3. CASE i \notin X \cap ids
    <3>1. of(X) = {}
      <4>. HIDE DEF ids
      <4>. QED
        BY <1>14, <2>1, <2>3
    <3>2. Totals!SoldUnder(t.sales, X, day) = 0
      BY <3>1, SoldIsNat
    <3>. QED
      BY <2>3, <3>2
  <2>. QED
    BY <2>2, <2>3
<1>. HIDE DEF byId, byStation, table, amount, ids, day, stations
<1>3. ASSUME NEW s \in stations
      PROVE  \/ under(s) = {} /\ total(s) = 0
             \/ \E i \in ids : under(s) = {i} /\ total(s) = amount(i)
  <2>1. IsFiniteSet(under(s)) /\ Cardinality(under(s)) \in {0, 1}
    <3>1. under(s) \in SUBSET ids /\ Totals!Cardinality(under(s)) <= 1
      OBVIOUS
    <3>. HIDE DEF under
    <3>2. IsFiniteSet(under(s))
      BY <1>2, <3>1, FS_Subset
    <3>3. Cardinality(under(s)) \in Nat /\ Cardinality(under(s)) <= 1
      BY <3>1, <3>2, FS_CardinalityType, SameCardinality
    <3>. QED
      BY <3>2, <3>3
  <2>2. CASE under(s) = {}
    <3>1. total(s) = IF s \in under(s) THEN amount(s) ELSE 0
      BY <1>14, <2>2
    <3>. QED
      BY <2>2, <3>1
  <2>3. CASE under(s) # {}
    <3>. DEFINE X == under(s)
    <3>. HIDE DEF X
    <3>1. Cardinality(X) = 1 /\ IsFiniteSet(X)
      BY <2>1, <2>3, FS_EmptySet DEF X
    <3>2. PICK i : X = {i}
      BY <3>1, FS_Singleton
    <3>3. under(s) = {i} /\ i \in under(s) /\ i \in ids
      BY <3>2 DEF X
    <3>4. total(s) = IF i \in under(s) THEN amount(i) ELSE 0
      BY <1>14, <3>3
    <3>. QED
      BY <3>3, <3>4
  <2>. QED
    BY <2>2, <2>3
<1>4. \A s \in stations : total(s) \in Nat
  BY <1>2, <1>3
<1>5. IsFiniteSet(sold) /\ \A r \in sold : r.amount \in Int
  <2>. DEFINE row == [i \in ids |-> [id |-> i, amount |-> amount(i),
                        named |-> \E s \in all : s.code = i]]
  <2>1. row \in Surjection(ids, sold)
    BY DEF Surjection
  <2>2. \A r \in sold : r.amount \in Int
    BY <1>2
  <2>. HIDE DEF sold, row
  <2>. QED
    BY <1>2, <2>1, <2>2, FS_Surjection
<1>6. IsFiniteSet(sums) /\ \A r \in sums : r.amount \in Int
  <2>. HIDE DEF total
  <2>. DEFINE row == [s \in stations |-> [id |-> s.id, amount |-> total(s)]]
  <2>0. sums = {[id |-> s.id, amount |-> total(s)] : s \in stations}
    BY DEF total
  <2>1. row \in Surjection(stations, sums)
    BY <2>0 DEF Surjection
  <2>2. \A r \in sums : r.amount \in Int
    BY <1>4, <2>0
  <2>. HIDE DEF sums, row
  <2>. QED
    BY <1>13, <2>1, <2>2, FS_Surjection
<1>7. /\ Ranked(byId, sold) /\ Cardinality(sold) \in Nat
      /\ Ranked(byStation, sums) /\ Cardinality(sums) \in Nat
  <2>. HIDE DEF sold, sums
  <2>. QED
    BY <1>1, <1>5, <1>6, DescendingRanks
<1>8. Totals!Rows(byId) = byId /\ Totals!Rows(byStation) = byStation
  BY DEF Totals!Rows, byId, byStation
<1>9. Totals!Range(byId) = sold /\ Totals!Range(byStation) = sums
  <2>. HIDE DEF sold, sums
  <2>. QED
    BY <1>7 DEF Ranked, Totals!Range
<1>10. ASSUME NEW s \in stations PROVE table[s].amount = total(s)
  <2>. DEFINE soldOf(i) == {r \in sold : r.id = i}
              perf == IF soldOf(s.code) # {} THEN soldOf(s.code)
                      ELSE IF s.mqtt # None THEN soldOf(s.mqtt) ELSE {}
              row(i) == [id |-> i, amount |-> amount(i),
                         named |-> \E z \in all : z.code = i]
  <2>1. table[s].amount = IF perf # {} THEN (CHOOSE r \in perf : TRUE).amount ELSE 0
    <3>. HIDE DEF sold, sums
    <3>. QED
      BY <1>8, <1>9, <1>13 DEF table, Totals!StationRows
  <2>2. \A i : soldOf(i) = IF i \in ids THEN {row(i)} ELSE {}
    OBVIOUS
  <2>3. None \notin ids
    BY <1>2
  <2>4. under(s) = ({s.code, s.mqtt} \ {None}) \cap ids
    BY DEF Totals!IdsOf
  <2>. HIDE DEF soldOf, sold, under, total
  <2>5. CASE under(s) = {} /\ total(s) = 0
    <3>1. s.code \notin ids /\ s.mqtt \notin ids
      BY <2>3, <2>4, <2>5
    <3>2. perf = {}
      BY <2>2, <3>1
    <3>. QED
      BY <2>1, <2>5, <3>2
  <2>6. ASSUME NEW i \in ids, under(s) = {i}, total(s) = amount(i)
        PROVE  table[s].amount = total(s)
    <3>1. i \in {s.code, s.mqtt} /\ i # None
      BY <2>4, <2>6
    <3>2. perf = {row(i)}
      <4>1. CASE s.code \in ids
        <5>1. s.code = i
          BY <2>3, <2>4, <2>6, <4>1
        <5>2. soldOf(s.code) = {row(i)}
          BY <2>2, <5>1
        <5>. HIDE DEF row
        <5>. QED
          BY <5>2
      <4>2. CASE s.code \notin ids
        <5>1. s.mqtt = i
          BY <3>1, <4>2
        <5>2. soldOf(s.code) = {} /\ soldOf(s.mqtt) = {row(i)}
          BY <2>2, <4>2, <5>1
        <5>. HIDE DEF row
        <5>. QED
          BY <3>1, <5>1, <5>2
      <4>. QED
        BY <4>1, <4>2
    <3>3. row(i).amount = amount(i)
      OBVIOUS
    <3>. HIDE DEF row, perf
    <3>4. (CHOOSE r \in perf : TRUE) = row(i)
      BY <3>2
    <3>. QED
      BY <2>1, <2>6, <3>2, <3>3, <3>4
  <2>. QED
    BY <1>3, <2>5, <2>6 DEF under, total
<1>11. \A s \in stations : \E r \in Totals!Range(byStation) :
         r.id = s.id /\ r.amount = table[s].amount
  <2>. TAKE s \in stations
  <2>1. [id |-> s.id, amount |-> total(s)] \in sums
    OBVIOUS
  <2>. HIDE DEF total, sums
  <2>. QED
    BY <1>9, <1>10, <2>1
<1>12. ASSUME ids # {}, ids \subseteq UNION {Totals!IdsOf(s) : s \in stations}
       PROVE  Totals!Best(byId).amount = Totals!Best(byStation).amount
  <2>. DEFINE a == byId[1]
              b == byStation[1]
  <2>1. sold # {} /\ sums # {}
    <3>1. PICK i \in ids : TRUE
      BY <1>12
    <3>2. [id |-> i, amount |-> amount(i), named |-> \E s \in all : s.code = i] \in sold
      OBVIOUS
    <3>3. PICK s \in stations : i \in Totals!IdsOf(s)
      BY <1>12, <3>1
    <3>4. [id |-> s.id, amount |-> total(s)] \in sums
      OBVIOUS
    <3>. HIDE DEF sold, sums, total
    <3>. QED
      BY <3>2, <3>4
  <2>2. /\ a \in sold /\ byId # <<>> /\ \A r \in sold : r.amount <= a.amount
        /\ b \in sums /\ byStation # <<>> /\ \A r \in sums : r.amount <= b.amount
    <3>. HIDE DEF sold, sums
    <3>. QED
      BY <1>5, <1>6, <1>7, <2>1, TopRow
  <2>3. Totals!Best(byId) = a /\ Totals!Best(byStation) = b
    BY <1>8, <2>2, Zenon DEF Totals!Best
  <2>. HIDE DEF a, b
  <2>4. \E i \in ids : a.amount = amount(i)
    BY <2>2
  <2>5. PICK i \in ids : a.amount = amount(i)
    BY <2>4
  <2>6. PICK s \in stations : i \in Totals!IdsOf(s)
    BY <1>12
  <2>7. total(s) = amount(i)
    <3>1. i \in under(s)
      BY <2>6
    <3>. HIDE DEF under, total
    <3>. QED
      BY <1>3, <3>1
  <2>8. PICK z \in stations : b.amount = total(z)
    BY <2>2
  <2>9. \A j \in ids : amount(j) <= a.amount
    <3>. TAKE j \in ids
    <3>. DEFINE r == [id |-> j, amount |-> amount(j), named |-> \E y \in all : y.code = j]
    <3>1. r \in sold /\ r.amount = amount(j)
      OBVIOUS
    <3>. HIDE DEF r, sold
    <3>. QED
      BY <2>2, <3>1
  <2>10. total(s) <= b.amount
    <3>. DEFINE r == [id |-> s.id, amount |-> total(s)]
    <3>1. r \in sums /\ r.amount = total(s)
      OBVIOUS
    <3>. HIDE DEF r, sums, total
    <3>. QED
      BY <2>2, <3>1
  <2>. HIDE DEF total, under
  <2>11. b.amount <= a.amount
    <3>1. total(z) = 0 \/ \E j \in ids : total(z) = amount(j)
      BY <1>3
    <3>2. a.amount \in Nat
      BY <1>2, <2>5
    <3>. QED
      BY <2>8, <2>9, <3>1, <3>2
  <2>12. a.amount \in Int /\ b.amount \in Int
    BY <1>2, <1>4, <2>5, <2>8
  <2>. QED
    BY <2>3, <2>5, <2>7, <2>10, <2>11, <2>12
<1>. QED
  BY <1>11, <1>12

-----------------------------------------------------------------------------
(* The pages together                                                      *)

\* Every pump has its cards, saved ones keep their place, and the others touch each
\* other never and saved ones only when the grid is full, for any number of pumps and
\* saved cards of any size anywhere (forecourtLayout.ts, pumpGridLayout.ts).
THEOREM CardsPlacedCorrect == Spec => []CardsArePlaced
<1>1. CaseInv => CardsArePlaced
  BY ScenesAssumption, CardsPlaced DEF CaseInv, Cases, CardsArePlaced
<1>. QED
  BY <1>1, CaseInvariance, PTL

\* In the AUTO layout, a branch ends on the card of its pump and its rail runs between
\* tanks and pumps, for any number of pumps and tanks (pipeRouting.ts).
THEOREM PipesCorrect == Spec => []BranchesReachTheirPumps
<1>1. CaseInv => BranchesReachTheirPumps
  BY ScenesAssumption, BranchesCorrect DEF CaseInv, Cases, BranchesReachTheirPumps
<1>. QED
  BY <1>1, CaseInvariance, PTL

\* Two pages show one amount for every station the user may see, for any stations and
\* any sales under their ids, where the two zones make no difference (StationsPage.tsx,
\* ExecutiveOverviewPage.tsx, dashboard.py, executive.py, rbac.py).
THEOREM DaySalesCorrect == Spec => []PagesAgree
<1>1. CaseInv => PagesAgree
  BY TakingsAssumption, PagesCorrect DEF CaseInv, Cases, PagesAgree, IsTaking
<1>. QED
  BY <1>1, CaseInvariance, PTL
===============================================================================
