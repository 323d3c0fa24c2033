-------------------------- MODULE RolloutWalkProofs --------------------------
(***************************************************************************)
(* The one decision of a sweep is what the code's loop over its sorted     *)
(* queue computes, for every fleet, every queue and every set of budgets.  *)
(* Each induction here is over a set of naturals (UpTo), which the         *)
(* least-number principle gives.                                           *)
(***************************************************************************)
EXTENDS RolloutBudgetProofs, RolloutWalk, SequenceTheorems

\* Induction up to a bound, for a set.
LEMMA UpTo ==
    ASSUME NEW N \in Nat, NEW T, 0 \in T, \A i \in 0 .. N : i \in T /\ i < N => i + 1 \in T
    PROVE  \A i \in 0 .. N : i \in T
<1> DEFINE Missing == {i \in 0 .. N : i \notin T}
<1>1. ASSUME Missing # {} PROVE FALSE
  <2>1. Missing \in SUBSET Nat
    OBVIOUS
  <2>2. PICK x \in Missing : \A y \in Missing : x <= y
    BY <1>1, <2>1, SmallestNat
  <2>3. x \in 0 .. N /\ x # 0
    BY <2>2
  <2>4. x - 1 \in 0 .. N /\ x - 1 < N /\ x - 1 \notin Missing /\ (x - 1) + 1 = x
    BY <2>2, <2>3
  <2> QED
    BY <2>2, <2>4
<1> QED
  BY <1>1

-----------------------------------------------------------------------------
\* Sorting.

\* The elements of S in the places of q, as R orders them.
IsArranged(q, S, R) ==
    /\ q \in [1 .. Cardinality(S) -> S]
    /\ \A i, j \in 1 .. Cardinality(S) : i < j => <<q[i], q[j]>> \in R

\* An arrangement of all but the last element goes on to the last one.
LEMMA ArrangeOn ==
    ASSUME NEW S, IsFiniteSet(S), NEW R, NEW l \in S, \A h \in S \ {l} : <<h, l>> \in R,
           NEW q, IsArranged(q, S \ {l}, R)
    PROVE  \E p : IsArranged(p, S, R)
<1> DEFINE n == Cardinality(S)
           p == [i \in 1 .. n |-> IF i < n THEN q[i] ELSE l]
<1>1. n \in Nat /\ n # 0 /\ Cardinality(S \ {l}) = n - 1
  BY FS_CardinalityType, FS_RemoveElement, FS_EmptySet
<1>2. /\ q \in [1 .. n - 1 -> S \ {l}]
      /\ \A i, j \in 1 .. n - 1 : i < j => <<q[i], q[j]>> \in R
  BY <1>1 DEF IsArranged
<1> HIDE DEF n
<1>3. p \in [1 .. n -> S]
  BY <1>1, <1>2
<1>4. ASSUME NEW i \in 1 .. n, NEW j \in 1 .. n, i < j PROVE <<p[i], p[j]>> \in R
  <2>1. i \in 1 .. n - 1 /\ p[i] = q[i] /\ q[i] \in S \ {l}
    BY <1>1, <1>2, <1>4
  <2>2. CASE j < n
    BY <1>1, <1>2, <1>4, <2>1, <2>2
  <2>3. CASE j = n
    <3>1. p[j] = l
      BY <1>1, <2>3
    <3> QED
      BY <2>1, <3>1
  <2> QED
    BY <1>1, <1>4, <2>2, <2>3
<1> QED
  BY <1>3, <1>4 DEF IsArranged, n

\* Every ordered finite set has an arrangement.
LEMMA ArrangementExists ==
    ASSUME NEW S, IsFiniteSet(S), NEW R, Orders(R, S)
    PROVE  \E q : IsArranged(q, S, R)
<1> DEFINE T == {k \in Nat : \A U \in SUBSET S : Cardinality(U) = k => \E q : IsArranged(q, U, R)}
<1>1. Cardinality(S) \in Nat /\ \A U \in SUBSET S : IsFiniteSet(U) /\ Cardinality(U) \in Nat
  BY FS_CardinalityType, FS_Subset
<1>2. 0 \in T
  <2>1. ASSUME NEW U \in SUBSET S, Cardinality(U) = 0 PROVE \E q : IsArranged(q, U, R)
    <3>1. [i \in 1 .. 0 |-> i] \in [1 .. 0 -> U]
      OBVIOUS
    <3>2. IsArranged([i \in 1 .. 0 |-> i], U, R)
      BY <2>1, <3>1 DEF IsArranged
    <3> QED
      BY <3>2
  <2> QED
    BY <2>1
<1>3. ASSUME NEW k \in Nat, k \in T PROVE k + 1 \in T
  <2>1. ASSUME NEW U \in SUBSET S, Cardinality(U) = k + 1 PROVE \E q : IsArranged(q, U, R)
    <3>1. U # {} /\ IsFiniteSet(U)
      BY <1>1, <2>1, FS_EmptySet
    <3>2. Orders(R, U)
      BY DEF Orders
    <3>3. PICK l \in U : \A h \in U \ {l} : <<h, l>> \in R
      BY <3>1, <3>2, LastOfSet
    <3>4. Cardinality(U \ {l}) = k
      <4>1. Cardinality(U \ {l}) = Cardinality(U) - 1
        BY <3>1, <3>3, FS_RemoveElement
      <4> QED
        BY <2>1, <4>1
    <3>5. PICK q : IsArranged(q, U \ {l}, R)
      BY <1>3, <3>4
    <3> QED
      BY <3>1, <3>3, <3>5, ArrangeOn
  <2> QED
    BY <2>1
<1> HIDE DEF T
<1>4. Cardinality(S) \in T
  BY <1>1, <1>2, <1>3, UpTo
<1> QED
  BY <1>4 DEF T

\* What a sort returns: each element once, in order.
LEMMA ArrangedIsSorted ==
    ASSUME NEW S, IsFiniteSet(S), NEW R, Orders(R, S)
    PROVE  /\ Arranged(S, R) \in [1 .. Cardinality(S) -> S]
           /\ \A i, j \in 1 .. Cardinality(S) : i < j => <<Arranged(S, R)[i], Arranged(S, R)[j]>> \in R
           /\ \A i, j \in 1 .. Cardinality(S) : Arranged(S, R)[i] = Arranged(S, R)[j] => i = j
           /\ \A m \in S : \E i \in 1 .. Cardinality(S) : Arranged(S, R)[i] = m
<1> DEFINE q == Arranged(S, R)
           n == Cardinality(S)
<1>1. n \in Nat
  BY FS_CardinalityType
<1>2. /\ q \in [1 .. n -> S]
      /\ \A i, j \in 1 .. n : i < j => <<q[i], q[j]>> \in R
  <2>1. \E p \in [1 .. n -> S] : \A i, j \in 1 .. n : i < j => <<p[i], p[j]>> \in R
    BY ArrangementExists DEF IsArranged
  <2> QED
    BY <2>1 DEF Arranged
<1> HIDE DEF q, n
<1>3. ASSUME NEW i \in 1 .. n, NEW j \in 1 .. n, q[i] = q[j] PROVE i = j
  <2>1. ~ (i < j) /\ ~ (j < i)
    BY <1>2, <1>3 DEF Orders
  <2> QED
    BY <1>1, <2>1
<1>4. \A m \in S : \E i \in 1 .. n : q[i] = m
  <2>1. q \in Injection(1 .. n, S)
    BY <1>2, <1>3 DEF Injection, IsInjective
  <2>2. Cardinality(1 .. n) = n
    BY <1>1, FS_Interval
  <2>3. q \in Surjection(1 .. n, S)
    BY <2>1, <2>2, FS_Injection DEF n
  <2> QED
    BY <2>3 DEF Surjection
<1> QED
  BY <1>2, <1>3, <1>4 DEF q, n

\* The name order sorts any set of Machines.
LEMMA SortedByName ==
    ASSUME NEW S \in SUBSET Machines
    PROVE  /\ Cardinality(S) \in Nat
           /\ sortedByName(S) \in [1 .. Cardinality(S) -> S]
           /\ \A i, j \in 1 .. Cardinality(S) :
                i < j => Rank[sortedByName(S)[i]] < Rank[sortedByName(S)[j]]
           /\ \A m \in S : \E i \in 1 .. Cardinality(S) : sortedByName(S)[i] = m
<1> DEFINE R == {p \in S \X S : Rank[p[1]] < Rank[p[2]]}
<1>1. IsFiniteSet(S)
  BY FS_Subset, FleetAssumption
<1>2. \A m \in S : Rank[m] \in Nat
  BY FleetAssumption
<1>3. \A m, n \in S : Rank[m] = Rank[n] => m = n
  BY FleetAssumption
<1>4. \A m, n \in S : <<m, n>> \in R <=> Rank[m] < Rank[n]
  OBVIOUS
<1> HIDE DEF R
<1>5. Orders(R, S)
  BY <1>2, <1>3, <1>4 DEF Orders
<1>6. sortedByName(S) = Arranged(S, R)
  BY DEF sortedByName, R
<1>7. /\ Arranged(S, R) \in [1 .. Cardinality(S) -> S]
      /\ \A i, j \in 1 .. Cardinality(S) : i < j => <<Arranged(S, R)[i], Arranged(S, R)[j]>> \in R
      /\ \A m \in S : \E i \in 1 .. Cardinality(S) : Arranged(S, R)[i] = m
  BY <1>1, <1>5, ArrangedIsSorted
<1> HIDE DEF Arranged
<1>8. \A i, j \in 1 .. Cardinality(S) :
        i < j => Rank[sortedByName(S)[i]] < Rank[sortedByName(S)[j]]
  BY <1>4, <1>6, <1>7
<1>9. Cardinality(S) \in Nat
  BY <1>1, FS_CardinalityType
<1> QED
  BY <1>6, <1>7, <1>8, <1>9

\* Among the workers, and among the leaders, the places follow the names.
LEMMA PlacesFollowNames ==
    ASSUME NEW m \in Waiting, NEW n \in Waiting, m \in leaders <=> n \in leaders
    PROVE  place[m] < place[n] <=> Rank[m] < Rank[n]
<1> DEFINE w == sortedByName(workers)
           l == sortedByName(leaders)
           W == Cardinality(workers)
           L == Cardinality(leaders)
<1>1. /\ workers \in SUBSET Machines /\ leaders \in SUBSET Machines
      /\ workers \cap leaders = {} /\ Waiting = workers \cup leaders
  BY DEF workers, leaders, Waiting
<1>2. /\ W \in Nat
      /\ w \in [1 .. W -> workers]
      /\ \A i, j \in 1 .. W : i < j => Rank[w[i]] < Rank[w[j]]
      /\ \A k \in workers : \E i \in 1 .. W : w[i] = k
  BY <1>1, SortedByName
<1>3. /\ L \in Nat
      /\ l \in [1 .. L -> leaders]
      /\ \A i, j \in 1 .. L : i < j => Rank[l[i]] < Rank[l[j]]
      /\ \A k \in leaders : \E i \in 1 .. L : l[i] = k
  BY <1>1, SortedByName
<1>4. listed = w \o l
  BY DEF listed
<1> HIDE DEF w, l, W, L
<1>5. /\ w \in Seq(Machines) /\ Len(w) = W
      /\ l \in Seq(Machines) /\ Len(l) = L
  <2>1. w \in [1 .. W -> Machines] /\ l \in [1 .. L -> Machines]
    BY <1>1, <1>2, <1>3
  <2>2. w \in Seq(Machines) /\ l \in Seq(Machines)
    BY <1>2, <1>3, <2>1, SeqDef
  <2> QED
    BY <1>2, <1>3, <2>1, <2>2, LenProperties
<1>6. /\ DOMAIN listed = 1 .. W + L
      /\ \A i \in 1 .. W + L : listed[i] = IF i <= W THEN w[i] ELSE l[i - W]
  <2>1. /\ w \o l \in Seq(Machines)
        /\ Len(w \o l) = W + L
        /\ \A i \in 1 .. W + L : (w \o l)[i] = IF i <= W THEN w[i] ELSE l[i - W]
    BY <1>5, ConcatProperties
  <2>2. DOMAIN (w \o l) = 1 .. W + L
    BY <2>1, LenProperties
  <2> QED
    BY <1>4, <2>1, <2>2
<1> HIDE DEF listed
<1>7. \A k \in Waiting : place[k] \in 1 .. W + L /\ listed[place[k]] = k
  <2>1. ASSUME NEW k \in Waiting PROVE \E i \in 1 .. W + L : listed[i] = k
    <3>1. CASE k \in workers
      <4>1. PICK i \in 1 .. W : w[i] = k
        BY <1>2, <3>1
      <4>2. i \in 1 .. W + L /\ i <= W
        BY <1>2, <1>3
      <4> QED
        BY <1>6, <4>1, <4>2
    <3>2. CASE k \in leaders
      <4>1. PICK i \in 1 .. L : l[i] = k
        BY <1>3, <3>2
      <4>2. W + i \in 1 .. W + L /\ ~ (W + i <= W) /\ (W + i) - W = i
        BY <1>2, <1>3
      <4> QED
        BY <1>6, <4>1, <4>2
    <3> QED
      BY <1>1, <3>1, <3>2
  <2>2. \A k \in Waiting : place[k] = CHOOSE i \in DOMAIN listed : listed[i] = k
    BY DEF place
  <2> QED
    BY <1>6, <2>1, <2>2
<1>8. \A k \in workers : place[k] \in 1 .. W /\ w[place[k]] = k
  <2> SUFFICES ASSUME NEW k \in workers PROVE place[k] \in 1 .. W /\ w[place[k]] = k
    OBVIOUS
  <2>1. place[k] \in 1 .. W + L /\ listed[place[k]] = k
    BY <1>1, <1>7
  <2>2. ASSUME ~ (place[k] <= W) PROVE FALSE
    <3>1. place[k] - W \in 1 .. L
      BY <1>2, <1>3, <2>1, <2>2
    <3>2. l[place[k] - W] = k
      BY <1>6, <2>1, <2>2
    <3> QED
      BY <1>1, <1>3, <3>1, <3>2
  <2>3. place[k] \in 1 .. W
    BY <1>2, <1>3, <2>1, <2>2
  <2> QED
    BY <1>6, <2>1, <2>2, <2>3
<1>9. \A k \in leaders : place[k] - W \in 1 .. L /\ l[place[k] - W] = k /\ place[k] \in Nat
  <2> SUFFICES ASSUME NEW k \in leaders
               PROVE  place[k] - W \in 1 .. L /\ l[place[k] - W] = k /\ place[k] \in Nat
    OBVIOUS
  <2>1. place[k] \in 1 .. W + L /\ listed[place[k]] = k
    BY <1>1, <1>7
  <2>2. ASSUME place[k] <= W PROVE FALSE
    <3>1. place[k] \in 1 .. W
      BY <1>2, <1>3, <2>1, <2>2
    <3>2. w[place[k]] = k
      BY <1>6, <2>1, <2>2
    <3> QED
      BY <1>1, <1>2, <3>1, <3>2
  <2>3. place[k] - W \in 1 .. L /\ place[k] \in Nat
    BY <1>2, <1>3, <2>1, <2>2
  <2> QED
    BY <1>6, <2>1, <2>2, <2>3
<1>10. /\ Rank[m] \in Nat /\ Rank[n] \in Nat
       /\ Rank[m] = Rank[n] => m = n
  BY FleetAssumption DEF Waiting
<1>11. CASE m \in workers /\ n \in workers
  <2>1. /\ place[m] \in 1 .. W /\ w[place[m]] = m
        /\ place[n] \in 1 .. W /\ w[place[n]] = n
    BY <1>8, <1>11
  <2>2. /\ place[m] < place[n] => Rank[m] < Rank[n]
        /\ place[n] < place[m] => Rank[n] < Rank[m]
        /\ place[m] = place[n] => m = n
    BY <1>2, <2>1
  <2> QED
    BY <1>2, <1>10, <2>1, <2>2
<1>12. CASE m \in leaders /\ n \in leaders
  <2>1. /\ place[m] - W \in 1 .. L /\ l[place[m] - W] = m /\ place[m] \in Nat
        /\ place[n] - W \in 1 .. L /\ l[place[n] - W] = n /\ place[n] \in Nat
    BY <1>9, <1>12
  <2>2. /\ place[m] - W < place[n] - W => Rank[m] < Rank[n]
        /\ place[n] - W < place[m] - W => Rank[n] < Rank[m]
        /\ place[m] - W = place[n] - W => m = n
    BY <1>3, <2>1
  <2> QED
    BY <1>2, <1>10, <2>1, <2>2
<1> QED
  BY <1>1, <1>11, <1>12

\* The queue holds each waiting machine once, and is sorted by Before.
LEMMA QueueIsSorted ==
    ASSUME TypeOK
    PROVE  /\ Cardinality(Waiting) \in Nat
           /\ queue \in [1 .. Cardinality(Waiting) -> Waiting]
           /\ \A i, j \in 1 .. Cardinality(Waiting) : i < j => Before(queue[i], queue[j])
           /\ \A m \in Waiting : \E i \in 1 .. Cardinality(Waiting) : queue[i] = m
<1> DEFINE R == {p \in Waiting \X Waiting :
                    \/ sortsBefore(p[1], p[2])
                    \/ ~sortsBefore(p[2], p[1]) /\ place[p[1]] < place[p[2]]}
<1>1. IsFiniteSet(Waiting)
  BY FS_Subset, FleetAssumption DEF Waiting
<1>2. ASSUME NEW m \in Waiting, NEW n \in Waiting
      PROVE  <<m, n>> \in R <=> Before(m, n)
  <2>1. oldestOpen(m) \in Nat /\ oldestOpen(n) \in Nat
    BY OldestOpenIsATime DEF Waiting
  <2>2. (m \in leaders <=> m \in Leaders) /\ (n \in leaders <=> n \in Leaders)
    BY DEF leaders
  <2>3. <<m, n>> \in R <=> (sortsBefore(m, n) \/ (~sortsBefore(n, m) /\ place[m] < place[n]))
    <3> HIDE DEF sortsBefore, place
    <3>1. /\ <<m, n>>[1] = m /\ <<m, n>>[2] = n
          /\ <<m, n>> \in Waiting \X Waiting
      OBVIOUS
    <3> DEFINE P(p) == sortsBefore(p[1], p[2]) \/ (~sortsBefore(p[2], p[1]) /\ place[p[1]] < place[p[2]])
    <3>2. R = {p \in Waiting \X Waiting : P(p)}
      OBVIOUS
    <3>3. <<m, n>> \in R <=> P(<<m, n>>)
      <4> HIDE DEF P, R
      <4> QED
        BY <3>1, <3>2
    <3>4. P(<<m, n>>) <=> (sortsBefore(m, n) \/ (~sortsBefore(n, m) /\ place[m] < place[n]))
      BY <3>1
    <3> QED
      BY <3>3, <3>4
  <2> HIDE DEF R
  <2>4. Rank[m] \in Nat /\ Rank[n] \in Nat
    BY FleetAssumption DEF Waiting
  <2>5. CASE m \in Leaders <=> n \in Leaders
    <3>1. place[m] < place[n] <=> Rank[m] < Rank[n]
      BY <2>2, <2>5, PlacesFollowNames
    <3>2. /\ sortsBefore(m, n) <=> oldestOpen(m) < oldestOpen(n)
          /\ sortsBefore(n, m) <=> oldestOpen(n) < oldestOpen(m)
      BY <2>2, <2>5 DEF sortsBefore
    <3>3. Before(m, n) <=> \/ oldestOpen(m) < oldestOpen(n)
                           \/ oldestOpen(m) = oldestOpen(n) /\ Rank[m] < Rank[n]
      BY <2>5 DEF Before
    <3> QED
      BY <2>1, <2>3, <3>1, <3>2, <3>3
  <2>6. CASE m \notin Leaders /\ n \in Leaders
    <3>1. /\ sortsBefore(m, n) <=> oldestOpen(m) <= oldestOpen(n)
          /\ sortsBefore(n, m) <=> oldestOpen(n) < oldestOpen(m)
      BY <2>1, <2>2, <2>6 DEF sortsBefore
    <3>2. Before(m, n) <=> oldestOpen(m) <= oldestOpen(n)
      BY <2>1, <2>6 DEF Before
    <3> QED
      BY <2>1, <2>3, <3>1, <3>2
  <2>7. CASE m \in Leaders /\ n \notin Leaders
    <3>1. /\ sortsBefore(m, n) <=> oldestOpen(m) < oldestOpen(n)
          /\ sortsBefore(n, m) <=> oldestOpen(n) <= oldestOpen(m)
      BY <2>1, <2>2, <2>7 DEF sortsBefore
    <3>2. Before(m, n) <=> oldestOpen(m) < oldestOpen(n)
      BY <2>1, <2>7 DEF Before
    <3> QED
      BY <2>1, <2>3, <3>1, <3>2
  <2> QED
    BY <2>5, <2>6, <2>7
<1>3. queue = Arranged(Waiting, R)
  BY DEF queue
<1> HIDE DEF R
<1>4. Orders(R, Waiting)
  BY <1>2, QueueIsStrict DEF Orders
<1>5. /\ Arranged(Waiting, R) \in [1 .. Cardinality(Waiting) -> Waiting]
      /\ \A i, j \in 1 .. Cardinality(Waiting) :
           i < j => <<Arranged(Waiting, R)[i], Arranged(Waiting, R)[j]>> \in R
      /\ \A m \in Waiting : \E i \in 1 .. Cardinality(Waiting) : Arranged(Waiting, R)[i] = m
  BY <1>1, <1>4, ArrangedIsSorted
<1>6. Cardinality(Waiting) \in Nat
  BY <1>1, FS_CardinalityType
<1>7. \A i, j \in 1 .. Cardinality(Waiting) : i < j => Before(queue[i], queue[j])
  BY <1>2, <1>3, <1>5
<1> QED
  BY <1>3, <1>5, <1>6, <1>7

-----------------------------------------------------------------------------
\* The loop.

\* The book after the machine m was looked at.
BookAfter(book, m, lagging) == IF Waits(book, m, lagging) THEN book ELSE give(book, m)

\* g is the loop's function over the first n places of the queue.
Follows(g, n, lagging) ==
    g = [i \in 0 .. n |-> IF i = 0 THEN Opened ELSE BookAfter(g[i - 1], queue[i], lagging)]

\* The loop's function exists, and computes each book from the one before it.
LEMMA BooksFollow ==
    ASSUME NEW lagging, Cardinality(Waiting) \in Nat
    PROVE  /\ books(lagging)[0] = Opened
           /\ \A i \in 0 .. Cardinality(Waiting) : i < Cardinality(Waiting) =>
                books(lagging)[i + 1] = BookAfter(books(lagging)[i], queue[i + 1], lagging)
<1> DEFINE N == Cardinality(Waiting)
           T == {n \in Nat : \E g : Follows(g, n, lagging)}
<1>1. 0 \in T
  <2> DEFINE g == [i \in 0 .. 0 |-> Opened]
  <2>1. g = [i \in 0 .. 0 |-> IF i = 0 THEN Opened ELSE BookAfter(g[i - 1], queue[i], lagging)]
    OBVIOUS
  <2>2. Follows(g, 0, lagging)
    BY <2>1 DEF Follows
  <2> QED
    BY <2>2
<1>2. ASSUME NEW n \in Nat, n \in T PROVE n + 1 \in T
  <2>1. PICK g : Follows(g, n, lagging)
    BY <1>2
  <2> DEFINE h == [i \in 0 .. n + 1 |->
                      IF i <= n THEN g[i] ELSE BookAfter(g[n], queue[n + 1], lagging)]
  <2>2. /\ DOMAIN h = 0 .. n + 1
        /\ \A i \in 0 .. n : h[i] = g[i]
        /\ h[n + 1] = BookAfter(g[n], queue[n + 1], lagging)
    OBVIOUS
  <2>3. \A i \in 0 .. n : g[i] = IF i = 0 THEN Opened ELSE BookAfter(g[i - 1], queue[i], lagging)
    BY <2>1 DEF Follows
  <2> HIDE DEF h
  <2>4. ASSUME NEW i \in 0 .. n + 1
        PROVE  h[i] = IF i = 0 THEN Opened ELSE BookAfter(h[i - 1], queue[i], lagging)
    <3>1. CASE i \in 0 .. n
      <4>1. i # 0 => i - 1 \in 0 .. n
        BY <3>1
      <4> QED
        BY <2>2, <2>3, <3>1, <4>1
    <3>2. CASE i = n + 1
      <4>1. i - 1 = n /\ i # 0 /\ n \in 0 .. n
        BY <3>2
      <4> QED
        BY <2>2, <3>2, <4>1
    <3> QED
      BY <3>1, <3>2
  <2>5. h = [i \in 0 .. n + 1 |-> IF i = 0 THEN Opened ELSE BookAfter(h[i - 1], queue[i], lagging)]
    <3>1. h = [i \in 0 .. n + 1 |-> h[i]]
      BY <2>2 DEF h
    <3> QED
      BY <2>4, <3>1
  <2>6. Follows(h, n + 1, lagging)
    BY <2>5 DEF Follows
  <2> QED
    BY <2>6
<1> HIDE DEF T
<1>3. N \in T
  BY <1>1, <1>2, UpTo
<1>4. \E g : Follows(g, N, lagging)
  BY <1>3 DEF T
<1>5. books(lagging) = CHOOSE g : Follows(g, N, lagging)
  BY DEF books, Follows, BookAfter
<1>6. Follows(books(lagging), N, lagging)
  BY <1>4, <1>5
<1>7. \A i \in 0 .. N :
        books(lagging)[i] = IF i = 0 THEN Opened ELSE BookAfter(books(lagging)[i - 1], queue[i], lagging)
  BY <1>6 DEF Follows
<1> HIDE DEF N
<1>8. ASSUME NEW i \in 0 .. N, i < N
      PROVE  books(lagging)[i + 1] = BookAfter(books(lagging)[i], queue[i + 1], lagging)
  <2>1. i + 1 \in 0 .. N /\ i + 1 # 0 /\ (i + 1) - 1 = i
    BY <1>8 DEF N
  <2> QED
    BY <1>7, <2>1
<1> QED
  BY <1>7, <1>8 DEF N

\* The book after the walk over the machines of S: who was given a turn, whether
\* a leader is busy, and who is out, budget by budget.
Records(book, S, lagging) ==
    /\ WalksOver(S, book.given, lagging)
    /\ book.leaderBusy <=> LeaderBusy \/ book.given \cap Leaders # {}
    /\ \A b \in Budgets : book.out[b] = Selects[b] \cap (Occupying \cup book.given)

\* When the walk begins, the book shows those whom the sweep counts out.
LEMMA OpenedRecords ==
    ASSUME NEW lagging
    PROVE  Records(Opened, {}, lagging)
<1>1. Opened.given = {}
  BY DEF Opened
<1>2. Opened.leaderBusy <=> LeaderBusy
  BY DEF Opened
<1>3. \A b \in Budgets : Opened.out[b] = Selects[b] \cap Occupying
  BY DEF Opened
<1>4. WalksOver({}, Opened.given, lagging)
  BY <1>1 DEF WalksOver
<1> HIDE DEF Opened
<1> QED
  BY <1>1, <1>2, <1>3, <1>4 DEF Records

\* The book refuses or holds back the next machine exactly when it is not
\* admitted after those that took their turns ahead of it.
LEMMA WaitsUnlessAdmitted ==
    ASSUME NEW lagging, NEW book, NEW S \in SUBSET Waiting, Records(book, S, lagging),
           NEW m \in Waiting, \A h \in S : Before(h, m)
    PROVE  Waits(book, m, lagging) <=> ~Admitted(m, {g \in book.given : Before(g, m)}, lagging)
<1> DEFINE ahead == {g \in book.given : Before(g, m)}
<1>1. ahead = book.given
  BY DEF Records, WalksOver
<1>2. m \in leaders <=> m \in Leaders
  BY DEF leaders
<1>3. refuses(book, m) <=> ~HasRoom(m, Occupying \cup ahead)
  <2>1. ASSUME NEW b \in Budgets
        PROVE  /\ Cardinality(book.out[b]) \in Nat /\ MaxUnavailable[b] \in Nat
               /\ book.out[b] = Selects[b] \cap (Occupying \cup ahead)
    <3>1. book.out[b] = Selects[b] \cap (Occupying \cup ahead)
      BY <1>1 DEF Records
    <3>2. IsFiniteSet(Selects[b]) /\ MaxUnavailable[b] \in Nat
      BY BudgetAssumption, FleetAssumption, FS_Subset
    <3>3. IsFiniteSet(book.out[b])
      BY <3>1, <3>2, FS_Subset
    <3> QED
      BY <3>1, <3>2, <3>3, FS_CardinalityType
  <2> HIDE DEF ahead
  <2>2. \A b \in Budgets :
          Cardinality(book.out[b]) >= MaxUnavailable[b]
            <=> ~ (Cardinality(Selects[b] \cap (Occupying \cup ahead)) < MaxUnavailable[b])
    <3> SUFFICES ASSUME NEW b \in Budgets
                 PROVE  Cardinality(book.out[b]) >= MaxUnavailable[b]
                          <=> ~ (Cardinality(Selects[b] \cap (Occupying \cup ahead))
                                   < MaxUnavailable[b])
      OBVIOUS
    <3>1. Cardinality(Selects[b] \cap (Occupying \cup ahead)) = Cardinality(book.out[b])
      BY <2>1
    <3> HIDE DEF Occupying
    <3> QED
      BY <2>1, <3>1
  <2> QED
    BY <2>2 DEF refuses, HasRoom
<1>4. m \in leaders /\ book.leaderBusy
        <=> m \in Leaders /\ (LeaderBusy \/ ahead \cap Leaders # {})
  BY <1>1, <1>2 DEF Records
<1> HIDE DEF ahead
<1>5. Admitted(m, ahead, lagging)
        <=> /\ ~Held
            /\ m \notin Leaders => ~HoldWorkers(lagging)
            /\ m \in Leaders => ~LeaderBusy /\ ahead \cap Leaders = {}
            /\ HasRoom(m, Occupying \cup ahead)
  BY DEF Admitted
<1>6. Waits(book, m, lagging)
        <=> \/ m \notin leaders /\ HoldWorkers(lagging)
            \/ Held
            \/ m \in leaders /\ book.leaderBusy
            \/ refuses(book, m)
  BY DEF Waits
<1>7. Waits(book, m, lagging) <=> ~Admitted(m, ahead, lagging)
  BY <1>2, <1>3, <1>4, <1>5, <1>6
<1> QED
  BY <1>7 DEF ahead

\* One turn of the loop keeps the book in step with the walk.
LEMMA LoopGoesOn ==
    ASSUME TypeOK, NEW lagging, NEW book, NEW S \in SUBSET Waiting, Records(book, S, lagging),
           NEW m \in Waiting \ S, \A h \in S : Before(h, m)
    PROVE  Records(BookAfter(book, m, lagging), S \cup {m}, lagging)
<1> DEFINE ahead(k, given) == {g \in given : Before(g, k)}
<1>1. /\ book.given \subseteq S
      /\ \A k \in S : k \in book.given <=> Admitted(k, ahead(k, book.given), lagging)
  BY DEF Records, WalksOver
<1>2. \A k \in S \cup {m} : ~Before(m, k)
  BY QueueIsStrict
<1>3. Waits(book, m, lagging) <=> ~Admitted(m, ahead(m, book.given), lagging)
  BY WaitsUnlessAdmitted
<1>4. CASE Waits(book, m, lagging)
  <2>1. BookAfter(book, m, lagging) = book
    BY <1>4 DEF BookAfter
  <2>2. WalksOver(S \cup {m}, book.given, lagging)
    BY <1>1, <1>3, <1>4 DEF WalksOver
  <2> QED
    BY <2>1, <2>2 DEF Records
<1>5. CASE ~Waits(book, m, lagging)
  <2> DEFINE next == give(book, m)
  <2>1. BookAfter(book, m, lagging) = next
    BY <1>5 DEF BookAfter
  <2>2. next.given = book.given \cup {m}
    BY DEF give
  <2>3. next.leaderBusy <=> book.leaderBusy \/ m \in leaders
    BY DEF give
  <2>4. \A b \in Budgets : next.out[b] = book.out[b] \cup (Selects[b] \cap {m})
    BY DEF give
  <2> HIDE DEF next
  <2>5. WalksOver(S \cup {m}, next.given, lagging)
    <3>1. \A k \in S \cup {m} : ahead(k, next.given) = ahead(k, book.given)
      BY <1>2, <2>2
    <3>2. ASSUME NEW k \in S \cup {m}
          PROVE  k \in next.given <=> Admitted(k, ahead(k, next.given), lagging)
      <4>1. ahead(k, next.given) = ahead(k, book.given)
        BY <3>1
      <4>2. k \in next.given <=> Admitted(k, ahead(k, book.given), lagging)
        <5>1. CASE k = m
          BY <1>3, <1>5, <2>2, <5>1
        <5>2. CASE k # m
          BY <1>1, <2>2, <5>2
        <5> QED
          BY <5>1, <5>2
      <4> QED
        BY <4>1, <4>2
    <3>3. next.given \subseteq S \cup {m}
      BY <1>1, <2>2
    <3> QED
      BY <3>2, <3>3 DEF WalksOver
  <2>6. next.leaderBusy <=> LeaderBusy \/ next.given \cap Leaders # {}
    <3>1. book.leaderBusy <=> LeaderBusy \/ book.given \cap Leaders # {}
      BY DEF Records
    <3>2. m \in leaders <=> m \in Leaders
      BY DEF leaders
    <3> QED
      BY <2>2, <2>3, <3>1, <3>2
  <2>7. \A b \in Budgets : next.out[b] = Selects[b] \cap (Occupying \cup next.given)
    BY <2>2, <2>4 DEF Records
  <2> QED
    BY <2>1, <2>5, <2>6, <2>7 DEF Records
<1> QED
  BY <1>4, <1>5

\* The loop's answer is a choice of the walk.
LEMMA WalkIsAChoice ==
    ASSUME TypeOK, NEW lagging
    PROVE  Grants(Walk(lagging), lagging)
<1> DEFINE N == Cardinality(Waiting)
           Passed(i) == {queue[j] : j \in 1 .. i}
           T == {i \in 0 .. N : Records(books(lagging)[i], Passed(i), lagging)}
<1>1. /\ N \in Nat
      /\ queue \in [1 .. N -> Waiting]
      /\ \A i, j \in 1 .. N : i < j => Before(queue[i], queue[j])
      /\ \A m \in Waiting : \E i \in 1 .. N : queue[i] = m
  BY QueueIsSorted
<1>2. /\ books(lagging)[0] = Opened
      /\ \A i \in 0 .. N : i < N =>
           books(lagging)[i + 1] = BookAfter(books(lagging)[i], queue[i + 1], lagging)
  BY <1>1, BooksFollow
<1> HIDE DEF N
<1>3. 0 \in T
  <2>1. Passed(0) = {}
    OBVIOUS
  <2>2. Records(books(lagging)[0], Passed(0), lagging)
    BY <1>2, <2>1, OpenedRecords
  <2> QED
    BY <1>1, <2>2
<1>4. ASSUME NEW i \in 0 .. N, i \in T, i < N PROVE i + 1 \in T
  <2>1. i + 1 \in 1 .. N /\ i + 1 \in 0 .. N
    BY <1>1, <1>4
  <2>2. Passed(i + 1) = Passed(i) \cup {queue[i + 1]}
    <3>1. 1 .. i + 1 = (1 .. i) \cup {i + 1}
      BY <1>4
    <3> QED
      BY <3>1
  <2>3. Passed(i) \in SUBSET Waiting /\ queue[i + 1] \in Waiting
    BY <1>1, <2>1
  <2>4. \A h \in Passed(i) : Before(h, queue[i + 1])
    <3>1. \A j \in 1 .. i : j \in 1 .. N /\ j < i + 1
      BY <1>1, <1>4
    <3> QED
      BY <1>1, <2>1, <3>1
  <2>5. queue[i + 1] \notin Passed(i)
    BY <2>3, <2>4, QueueIsStrict
  <2>6. Records(books(lagging)[i], Passed(i), lagging)
    BY <1>4
  <2> HIDE DEF Passed
  <2>7. Records(BookAfter(books(lagging)[i], queue[i + 1], lagging),
                Passed(i) \cup {queue[i + 1]}, lagging)
    BY <2>3, <2>4, <2>5, <2>6, LoopGoesOn
  <2>8. books(lagging)[i + 1] = BookAfter(books(lagging)[i], queue[i + 1], lagging)
    BY <1>2, <1>4
  <2> QED
    BY <2>1, <2>2, <2>7, <2>8
<1> HIDE DEF T
<1>5. N \in T
  <2>1. \A i \in 0 .. N : i \in T /\ i < N => i + 1 \in T
    BY <1>4
  <2>2. \A i \in 0 .. N : i \in T
    BY <1>1, <1>3, <2>1, UpTo
  <2> QED
    BY <1>1, <2>2
<1>6. Records(books(lagging)[N], Passed(N), lagging)
  BY <1>5 DEF T
<1>7. Passed(N) = Waiting
  BY <1>1
<1> HIDE DEF Passed
<1>8. WalksOver(Waiting, books(lagging)[N].given, lagging)
  BY <1>6, <1>7 DEF Records
<1> QED
  BY <1>8 DEF Walk, WalksOver, Grants, N

\* The one decision of a sweep is what the loop over the sorted queue computes
\* (rollout.go, decideRollout: "Name order makes the decision deterministic, so
\* two sweeps of the same fleet agree").
THEOREM WalkIsTheDecision == Spec => []DecisionIsTheWalk
<1>1. TypeOK => DecisionIsTheWalk
  <2> SUFFICES ASSUME TypeOK, NEW lagging \in BOOLEAN
               PROVE  {given \in SUBSET Waiting : Grants(given, lagging)} = {Walk(lagging)}
    BY DEF DecisionIsTheWalk
  <2>1. Grants(Walk(lagging), lagging)
    BY WalkIsAChoice
  <2>2. Walk(lagging) \in SUBSET Waiting
    BY <2>1 DEF Grants
  <2>3. \A g : Grants(g, lagging) => g = Walk(lagging)
    BY <2>1, DecisionsAgree
  <2> QED
    BY <2>1, <2>2, <2>3
<1> QED
  BY <1>1, TypeCorrect, PTL
=============================================================================
