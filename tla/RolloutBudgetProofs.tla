------------------------- MODULE RolloutBudgetProofs -------------------------
(***************************************************************************)
(* The ledger never exceeds a budget and never holds two leaders, for every *)
(* fleet, every set of budgets and every bound.  The invariant is FitInv:  *)
(* not only the stored ledger fits, but each Cluster write that can still  *)
(* land.  A sweep's ledger fits because the machine that took the last turn *)
(* of a budget counted everyone before it.  By CountInv it also counted    *)
(* each grant and each dead machine that no entry shows.  Last, the walk   *)
(* over the queue comes to one decision and no other.                      *)
(***************************************************************************)
EXTENDS RolloutProofs

-----------------------------------------------------------------------------
\* The queue has a last machine.

\* The least-number principle, for a set.
LEMMA SmallestNat ==
    ASSUME NEW T \in SUBSET Nat, T # {}
    PROVE  \E x \in T : \A y \in T : x <= y
<1> DEFINE R == OpToRel(<, Nat)
<1>1. IsWellFoundedOn(R, Nat)
  BY NatLessThanWellFounded, Zenon
<1>2. \A x, y \in Nat : <<x, y>> \in R <=> x < y
  BY DEF OpToRel
<1> HIDE DEF R
<1>3. PICK x \in T : \A y \in T : ~ (<<y, x>> \in R)
  BY <1>1, WFMin, Zenon
<1>4. ASSUME NEW y \in T PROVE x <= y
  <2>1. x \in Nat /\ y \in Nat
    OBVIOUS
  <2>2. ~ (y < x)
    BY <1>2, <1>3, <2>1
  <2> QED
    BY <2>1, <2>2
<1> QED
  BY <1>4

\* R orders the elements of S, one strictly before the other.
Orders(R, S) ==
    /\ \A m \in S : <<m, m>> \notin R
    /\ \A m, n \in S : m = n \/ <<m, n>> \in R \/ <<n, m>> \in R
    /\ \A m, n, k \in S : <<m, n>> \in R /\ <<n, k>> \in R => <<m, k>> \in R

\* A finite set that R orders has a last element.
LEMMA LastOfSet ==
    ASSUME NEW S, IsFiniteSet(S), S # {}, NEW R, Orders(R, S)
    PROVE  \E l \in S : \A h \in S \ {l} : <<h, l>> \in R
<1> DEFINE after(g) == {h \in S : <<g, h>> \in R}
           T == {Cardinality(after(g)) : g \in S}
<1>1. \A g \in S : IsFiniteSet(after(g)) /\ Cardinality(after(g)) \in Nat
  BY FS_Subset, FS_CardinalityType
<1>2. T \in SUBSET Nat /\ T # {}
  BY <1>1
<1>3. PICK x \in T : \A y \in T : x <= y
  BY <1>2, SmallestNat
<1>4. PICK g \in S : x = Cardinality(after(g))
  BY <1>3
<1>5. ASSUME NEW h \in S \ {g}, <<h, g>> \notin R PROVE FALSE
  <2>1. <<g, h>> \in R /\ <<h, h>> \notin R
    BY <1>5 DEF Orders
  <2>2. after(h) \in SUBSET after(g)
    BY <2>1 DEF Orders
  <2>3. h \in after(g) /\ h \notin after(h)
    BY <2>1
  <2>4. after(g) # after(h)
    BY <2>3
  <2> HIDE DEF after
  <2>5. Cardinality(after(h)) < Cardinality(after(g))
    BY <1>1, <2>2, <2>4, FS_Subset
  <2>6. Cardinality(after(g)) <= Cardinality(after(h))
    BY <1>3, <1>4
  <2> QED
    BY <1>1, <2>5, <2>6
<1> QED
  BY <1>5

\* A machine that asks has an oldest request.
LEMMA OldestOpenIsATime ==
    ASSUME TypeOK, NEW m \in Machines, wantsTurn(m)
    PROVE  oldestOpen(m) \in Nat
<1> DEFINE T == {reqs[r] : r \in open(m)}
<1>1. T \in SUBSET Nat /\ T # {}
  BY DEF TypeOK, open, wantsTurn
<1>2. PICK x \in T : \A y \in T : x <= y
  BY <1>1, SmallestNat
<1>3. \E t \in T : \A r \in open(m) : t <= reqs[r]
  BY <1>2
<1>4. oldestOpen(m) \in T
  BY <1>3 DEF oldestOpen
<1> QED
  BY <1>1, <1>4

\* The queue is a strict order of the waiting machines.
LEMMA QueueIsStrict ==
    ASSUME TypeOK
    PROVE  /\ \A m \in Waiting : ~Before(m, m)
           /\ \A m, n \in Waiting : m = n \/ Before(m, n) \/ Before(n, m)
           /\ \A m, n, k \in Waiting : Before(m, n) /\ Before(n, k) => Before(m, k)
<1>1. \A m \in Waiting : m \in Machines /\ oldestOpen(m) \in Nat /\ Rank[m] \in Nat
  BY OldestOpenIsATime, FleetAssumption DEF Waiting
<1>2. \A m, n \in Waiting : Rank[m] = Rank[n] => m = n
  BY FleetAssumption DEF Waiting
<1>3. \A m \in Waiting : ~Before(m, m)
  BY <1>1 DEF Before
<1>4. \A m, n \in Waiting : m = n \/ Before(m, n) \/ Before(n, m)
  BY <1>1, <1>2 DEF Before
<1>5. \A m, n, k \in Waiting : Before(m, n) /\ Before(n, k) => Before(m, k)
  BY <1>1 DEF Before
<1> QED
  BY <1>3, <1>4, <1>5

\* Some waiting machine comes after all the others.
LEMMA LastInQueue ==
    ASSUME TypeOK, NEW G \in SUBSET Waiting, G # {}
    PROVE  \E g \in G : \A h \in G \ {g} : Before(h, g)
<1> DEFINE R == {p \in Waiting \X Waiting : Before(p[1], p[2])}
<1>1. IsFiniteSet(G)
  BY FS_Subset, FleetAssumption DEF Waiting
<1>2. \A m, n \in Waiting : <<m, n>> \in R <=> Before(m, n)
  OBVIOUS
<1> HIDE DEF R
<1>3. Orders(R, G)
  BY <1>2, QueueIsStrict DEF Orders
<1>4. PICK g \in G : \A h \in G \ {g} : <<h, g>> \in R
  BY <1>1, <1>3, LastOfSet
<1> QED
  BY <1>2, <1>4

-----------------------------------------------------------------------------
\* A sweep's ledger fits.

\* The entries of a decided ledger are entries that the sweep kept, of machines
\* that it counted, and its new turns.
LEMMA DecidedEntries ==
    ASSUME TypeOK, LedgerInv, doc = cluster,
           NEW given \in SUBSET Waiting,
           NEW turns \in {DecidedTurns(given), withoutGrants(DecidedTurns(given), given)},
           NEW m \in Entries(turns) \ Legacy, m \notin given
    PROVE  m \in Entries(cluster.turns) /\ m \in Occupying
<1>1. m \in Machines /\ turns[m].rv # 0 /\ NoTurn.rv = 0
  BY DEF Entries, NoTurn
<1>2. DecidedTurns(given)[m].rv # 0
  BY <1>1 DEF withoutGrants
<1>3. m \in Regranted \/ Recorded(m)
  BY <1>1, <1>2 DEF DecidedTurns
<1>4. Recorded(m)
  BY <1>3 DEF Regranted, Rejoining, Pending
<1>5. doc.turns[m].rv # 0
  BY <1>1, <1>4 DEF Recorded, Keeps, LedgerInv, CoverInv
<1> QED
  BY <1>1, <1>4, <1>5 DEF Entries, Occupying

\* The last machine of a budget that a walk gives a turn counted everyone else
\* that is out, so all together they keep the budget.
LEMMA GivenFit ==
    ASSUME TypeOK, NEW given, NEW lagging, Grants(given, lagging),
           NEW b \in Budgets, given \cap Selects[b] # {}
    PROVE  Cardinality(Selects[b] \cap (Occupying \cup given)) <= MaxUnavailable[b]
<1>1. /\ given \in SUBSET Waiting
      /\ \A m \in given : Admitted(m, {g \in given : Before(g, m)}, lagging)
  BY DEF Grants
<1>2. IsFiniteSet(Selects[b]) /\ MaxUnavailable[b] \in Nat
  BY BudgetAssumption, FleetAssumption, FS_Subset
<1>3. PICK g \in given \cap Selects[b] :
        \A h \in (given \cap Selects[b]) \ {g} : Before(h, g)
  BY <1>1, LastInQueue
<1> DEFINE ahead == {h \in given : Before(h, g)}
           U == Selects[b] \cap (Occupying \cup ahead)
           E == Selects[b] \cap (Occupying \cup given)
<1>4. Cardinality(U) < MaxUnavailable[b]
  BY <1>1, <1>3 DEF Admitted, HasRoom
<1>5. E \in SUBSET (U \cup {g})
  BY <1>3
<1>6. IsFiniteSet(U)
  BY <1>2, FS_Subset
<1> HIDE DEF E, U
<1>7. Cardinality(U) \in Nat
  BY <1>6, FS_CardinalityType
<1>8. /\ IsFiniteSet(U \cup {g})
      /\ Cardinality(U \cup {g}) = IF g \in U THEN Cardinality(U) ELSE Cardinality(U) + 1
  BY <1>6, FS_AddElement
<1>9. /\ Cardinality(E) <= Cardinality(U \cup {g})
      /\ Cardinality(E) \in Nat /\ Cardinality(U \cup {g}) \in Nat
  BY <1>5, <1>8, FS_Subset, FS_CardinalityType
<1>10. Cardinality(E) <= MaxUnavailable[b]
  BY <1>2, <1>4, <1>7, <1>8, <1>9
<1> QED
  BY <1>10 DEF E

\* However many turns one sweep gives, no budget is exceeded and no two leaders
\* hold a turn.
LEMMA SweepFits ==
    ASSUME TypeOK, LedgerInv, Fits(cluster.turns), doc = cluster,
           NEW given \in SUBSET Machines, NEW lagging, Grants(given, lagging),
           NEW turns \in {DecidedTurns(given), withoutGrants(DecidedTurns(given), given)}
    PROVE  Fits(turns)
<1>1. /\ given \in SUBSET Waiting
      /\ \A m \in given : Admitted(m, {g \in given : Before(g, m)}, lagging)
  BY DEF Grants
<1>2. \A m \in Entries(turns) \ Legacy :
        m \in given \/ (m \in Entries(cluster.turns) \ Legacy /\ m \in Occupying)
  BY <1>1, DecidedEntries
<1>3. ASSUME NEW b \in Budgets
      PROVE  Cardinality(Selects[b] \cap (Entries(turns) \ Legacy)) <= MaxUnavailable[b]
  <2> DEFINE E == Selects[b] \cap (Entries(turns) \ Legacy)
             K == Selects[b] \cap (Entries(cluster.turns) \ Legacy)
             U == Selects[b] \cap (Occupying \cup given)
  <2>1. /\ IsFiniteSet(Selects[b]) /\ MaxUnavailable[b] \in Nat
    BY BudgetAssumption, FleetAssumption, FS_Subset
  <2>2. PICK S \in {K, U} : E \in SUBSET S /\ Cardinality(S) <= MaxUnavailable[b]
    <3>1. CASE given \cap Selects[b] = {}
      <4>1. E \in SUBSET K
        BY <1>2, <3>1
      <4> QED
        BY <4>1 DEF Fits
    <3>2. CASE given \cap Selects[b] # {}
      <4>1. E \in SUBSET U
        BY <1>2
      <4> QED
        BY <3>2, <4>1, GivenFit
    <3> QED
      BY <3>1, <3>2
  <2>3. IsFiniteSet(S)
    BY <2>1, FS_Subset
  <2> HIDE DEF E, K, U
  <2>4. Cardinality(E) <= Cardinality(S) /\ Cardinality(E) \in Nat /\ Cardinality(S) \in Nat
    BY <2>2, <2>3, FS_Subset, FS_CardinalityType
  <2>5. Cardinality(E) <= MaxUnavailable[b]
    BY <2>1, <2>2, <2>4
  <2> QED
    BY <2>5 DEF E
<1>4. ASSUME NEW m \in (Entries(turns) \ Legacy) \cap Leaders,
             NEW n \in (Entries(turns) \ Legacy) \cap Leaders
      PROVE  m = n
  <2>1. \A k \in given \cap Leaders : Occupying \cap Leaders = {}
    BY <1>1 DEF Admitted, LeaderBusy, Held
  <2>2. \A k, l \in given \cap Leaders : ~Before(k, l)
    BY <1>1 DEF Admitted
  <2>3. \A k, l \in given \cap Leaders : k = l
    BY <1>1, <2>2, QueueIsStrict
  <2>4. CASE m \in given \/ n \in given
    BY <1>2, <1>4, <2>1, <2>3, <2>4
  <2>5. CASE m \notin given /\ n \notin given
    BY <1>2, <1>4, <2>5 DEF Fits
  <2> QED
    BY <2>4, <2>5
<1> QED
  BY <1>3, <1>4 DEF Fits

-----------------------------------------------------------------------------
\* The invariant.

\* The empty ledger fits.
LEMMA InitFit == Init => FitInv
<1> SUFFICES ASSUME Init PROVE FitInv
  OBVIOUS
<1>1. Entries(cluster.turns) = {}
  BY DEF Init, Entries, NoTurns, NoTurn
<1>2. \A b \in Budgets : MaxUnavailable[b] >= 0
  BY BudgetAssumption
<1>3. \A b \in Budgets : Selects[b] \cap (Entries(cluster.turns) \ Legacy) = {}
  BY <1>1
<1>4. Fits(cluster.turns)
  BY <1>1, <1>2, <1>3, FS_EmptySet DEF Fits
<1> QED
  BY <1>4 DEF Init, FitInv

\* A step that stores nothing new and sends no Cluster write keeps it.
LEMMA NoStoreStep ==
    FitInv /\ UNCHANGED cluster /\ lateCluster' \subseteq lateCluster => FitInv'
<1> SUFFICES ASSUME FitInv, cluster' = cluster, lateCluster' \subseteq lateCluster
             PROVE  FitInv'
  OBVIOUS
<1>1. Fits(cluster.turns)'
  BY DEF FitInv, Fits, Entries
<1>2. \A w \in lateCluster' : w.rv = cluster'.rv => Fits(w.turns)
  BY DEF FitInv
<1> QED
  BY <1>1, <1>2 DEF FitInv, Fits, Entries

\* A ledger that fits is stored at the next version, where no write that is
\* already in flight can land.
LEMMA StoreStep ==
    ASSUME TypeOK, LedgerInv, cluster'.rv = cluster.rv + 1, Fits(cluster'.turns),
           lateCluster' \subseteq lateCluster
    PROVE  FitInv'
<1>1. \A w \in lateCluster' : w.rv # cluster'.rv
  BY DEF TypeOK, Cluster, LedgerInv, VersionInv
<1>2. Fits(cluster.turns)'
  BY DEF Fits, Entries
<1> QED
  BY <1>1, <1>2 DEF FitInv, Fits, Entries

\* A sweep stores a ledger that fits, or leaves one in flight.
LEMMA SweepFitStep ==
    ASSUME TypeOK, LedgerInv, FitInv, NEW given \in SUBSET Machines, SweepFleet(given)
    PROVE  FitInv'
<1>1. ASSUME NEW lagging, Grants(given, lagging),
             NEW turns \in {DecidedTurns(given), withoutGrants(DecidedTurns(given), given)},
             NEW granted, PublishCluster(turns, granted)
      PROVE  FitInv'
  <2>1. doc.rv = cluster.rv => Fits(turns)
    BY <1>1, SweepFits DEF FitInv, LedgerInv, VersionInv
  <2>2. CASE UNCHANGED cluster /\ lateCluster' \subseteq lateCluster
    BY <2>2, NoStoreStep
  <2>3. CASE /\ doc.rv = cluster.rv
             /\ cluster' = [rv |-> cluster.rv + 1, turns |-> turns]
             /\ UNCHANGED lateCluster
    BY <2>1, <2>3, StoreStep
  <2>4. CASE /\ lateCluster' = lateCluster \cup {[rv |-> doc.rv, turns |-> turns]}
             /\ UNCHANGED cluster
    <3>1. \A w \in lateCluster' : w.rv = cluster'.rv => Fits(w.turns)
      BY <2>1, <2>4 DEF FitInv
    <3>2. Fits(cluster.turns)'
      BY <2>4 DEF FitInv, Fits, Entries
    <3> QED
      BY <3>1, <3>2 DEF FitInv, Fits, Entries
  <2> QED
    BY <1>1, <2>2, <2>3, <2>4 DEF PublishCluster
<1>2. CASE \E lagging \in BOOLEAN :
             Grants(given, lagging) /\ PublishCluster(DecidedTurns(given), given \cup Regranted)
  BY <1>1, <1>2
<1>3. CASE /\ Grants(given, FALSE)
           /\ PublishCluster(withoutGrants(DecidedTurns(given), given), {})
  BY <1>1, <1>3
<1> QED
  BY <1>2, <1>3 DEF SweepFleet

\* Each step keeps it.
LEMMA NextFit == TypeOK /\ LedgerInv /\ FitInv /\ [Next]_vars => FitInv'
<1> SUFFICES ASSUME TypeOK, LedgerInv, FitInv, [Next]_vars PROVE FitInv'
  OBVIOUS
<1>1. ASSUME UNCHANGED <<cluster, lateCluster>> PROVE FitInv'
  BY <1>1, NoStoreStep
<1>2. ASSUME NEW w \in lateCluster, LandLateCluster(w) PROVE FitInv'
  <2>1. lateCluster' \subseteq lateCluster
    BY <1>2 DEF LandLateCluster
  <2>2. CASE w.rv = cluster.rv /\ cluster' = [rv |-> w.rv + 1, turns |-> w.turns]
    BY <2>1, <2>2, StoreStep DEF FitInv
  <2>3. CASE cluster' = cluster
    BY <2>1, <2>3, NoStoreStep
  <2> QED
    BY <1>2, <2>2, <2>3 DEF LandLateCluster
<1>3. CASE EditCluster
  <2>1. cluster'.rv = cluster.rv + 1 /\ cluster'.turns = cluster.turns /\ lateCluster' = lateCluster
    BY <1>3 DEF EditCluster, lateVars, TypeOK, Cluster
  <2> QED
    BY <2>1, StoreStep DEF FitInv
<1>4. CASE Conductor
  <2> USE DEF apiVars, lateVars
  <2>1. CASE \E m \in Machines : Deliver(m) \/ ReadTurn(m) \/ GoSilent(m) \/ Hear(m)
    BY <1>1, <2>1 DEF Deliver, ReadTurn, GoSilent, Hear
  <2>2. CASE DeliverCluster \/ BeginSweep \/ AbortSweep \/ NewConductor \/ Judge
    BY <1>1, <2>2 DEF DeliverCluster, BeginSweep, AbortSweep, NewConductor, Judge
  <2>3. CASE \E w \in todo : Send(w)
    BY <1>1, <2>3 DEF Send
  <2>4. CASE \E m \in Failing : GrowOverdue(m)
    BY <1>1, <2>4 DEF GrowOverdue
  <2>5. CASE \E given \in SUBSET Machines : SweepFleet(given)
    BY <2>5, SweepFitStep
  <2> QED
    BY <1>4, <2>1, <2>2, <2>3, <2>4, <2>5 DEF Conductor
<1>5. CASE Environment
  <2> USE DEF apiVars, lateVars
  <2>1. CASE \E w \in late : LandLate(w)
    BY <1>1, <2>1 DEF LandLate
  <2>2. CASE \E m \in Machines, phase \in Reports : Report(m, phase)
    BY <1>1, <2>2 DEF Report
  <2>3. CASE \/ \E m \in Failing : GoDown(m)
             \/ \E m \in Machines : Boot(m)
    BY <1>1, <2>3 DEF GoDown, Boot
  <2>4. CASE \E r \in Requests : File(r) \/ Close(r)
    BY <1>1, <2>4 DEF File, Close
  <2> QED
    BY <1>2, <1>3, <1>5, <2>1, <2>2, <2>3, <2>4 DEF Environment
<1>6. CASE UNCHANGED vars
  BY <1>1, <1>6 DEF vars, apiVars, lateVars
<1> QED
  BY <1>4, <1>5, <1>6 DEF Next

\* The stored ledger and each late one that can land keep the budgets and the
\* leaders' floor (sweepFleet, publishClusterStatus).
THEOREM LedgersFit == Spec => []FitInv
<1>1. Init => TypeOK /\ LedgerInv /\ FitInv
  BY InitType, InitLedger, InitFit
<1>2. TypeOK /\ LedgerInv /\ FitInv /\ [Next]_vars => (TypeOK /\ LedgerInv /\ FitInv)'
  BY NextType, NextLedger, NextFit
<1> QED
  BY <1>1, <1>2, PTL DEF Spec

\* However many conductors came and went, and whatever they left in flight, no
\* budget is exceeded (rollout.go: "the budget is one compare-and-swap on one
\* object").
THEOREM BudgetIsKept == Spec => []BudgetKept
<1>1. FitInv => BudgetKept
  BY DEF FitInv, Fits, BudgetKept
<1> QED
  BY <1>1, LedgersFit, PTL

\* Two leaders never hold a turn at once (rollout.go: "only one leader may be
\* down or granted a turn at a time").
THEOREM OneLeaderHoldsATurn == Spec => []OneLeaderTurn
<1>1. FitInv => OneLeaderTurn
  BY DEF FitInv, Fits, OneLeaderTurn
<1> QED
  BY <1>1, LedgersFit, PTL

-----------------------------------------------------------------------------
\* The ledger and the grants are one atomic ledger.

\* A step writes one Machine, or none: the Cluster and a Machine never change in
\* the same step.
LEMMA OneObjectAtATime ==
    ASSUME TypeOK, [Next]_vars
    PROVE  \/ mach' = mach
           \/ /\ cluster' = cluster
              /\ \E k \in Machines : \A m \in Machines \ {k} : mach'[m] = mach[m]
<1> USE DEF apiVars
<1>1. ASSUME NEW w \in Write, Apply(w), cluster' = cluster
      PROVE  \E k \in Machines : \A m \in Machines \ {k} : mach'[m] = mach[m]
  <2>1. w.to \in Machines
    BY DEF Write
  <2> QED
    BY <1>1, <2>1 DEF Apply
<1>2. todo \in SUBSET Write /\ late \in SUBSET Write
  BY DEF TypeOK
<1>3. CASE Conductor
  <2>1. CASE \E w \in todo : Send(w)
    BY <1>1, <1>2, <2>1 DEF Send
  <2>2. CASE \E m \in Machines : Deliver(m) \/ ReadTurn(m) \/ GoSilent(m) \/ Hear(m)
    BY <2>2 DEF Deliver, ReadTurn, GoSilent, Hear
  <2>3. CASE DeliverCluster \/ BeginSweep \/ AbortSweep \/ NewConductor \/ Judge
    BY <2>3 DEF DeliverCluster, BeginSweep, AbortSweep, NewConductor, Judge
  <2>4. CASE \/ \E given \in SUBSET Machines : SweepFleet(given)
             \/ \E m \in Failing : GrowOverdue(m)
    BY <2>4 DEF SweepFleet, GrowOverdue
  <2> QED
    BY <1>3, <2>1, <2>2, <2>3, <2>4 DEF Conductor
<1>4. CASE Environment
  <2>1. CASE \E w \in late : LandLate(w)
    BY <1>1, <1>2, <2>1 DEF LandLate
  <2>2. CASE \E m \in Machines, phase \in Reports : Report(m, phase)
    BY <2>2 DEF Report
  <2>3. CASE (\E w \in lateCluster : LandLateCluster(w)) \/ EditCluster
    BY <2>3 DEF LandLateCluster, EditCluster
  <2>4. CASE (\E m \in Failing : GoDown(m)) \/ (\E m \in Machines : Boot(m))
    BY <2>4 DEF GoDown, Boot
  <2>5. CASE \E r \in Requests : File(r) \/ Close(r)
    BY <2>5 DEF File, Close
  <2> QED
    BY <1>4, <2>1, <2>2, <2>3, <2>4, <2>5 DEF Environment
<1>5. CASE UNCHANGED vars
  BY <1>5 DEF vars
<1> QED
  BY <1>3, <1>4, <1>5 DEF Next

\* Whatever the ledger says, a machine that was told to reboot holds a turn.
LEMMA GrantedHold == LedgerInv => Granted \subseteq Holders
  BY DEF LedgerInv, CoverInv, Granted, Holders, Entries

\* A ledger that fits is within the limits.
LEMMA FittingHolders == FitInv => Ledger!WithinLimits(Holders)
<1>1. \A S : Ledger!Cardinality(S) = Cardinality(S)
  BY DEF Cardinality, Ledger!Cardinality
<1> QED
  BY <1>1 DEF FitInv, Fits, Ledger!WithinLimits, Holders

\* Each step of the conductors, of their late writes and of the machines is one
\* decision, one grant or one revocation of the atomic ledger, or none of it.
LEMMA LedgerStep ==
    TypeOK /\ LedgerInv /\ FitInv /\ [Next]_vars => [Ledger!Next]_<<Holders, Granted>>
<1> SUFFICES ASSUME TypeOK, LedgerInv, FitInv, [Next]_vars, ~UNCHANGED <<Holders, Granted>>
             PROVE  Ledger!Next
  OBVIOUS
<1>1. LedgerInv' /\ FitInv' /\ TypeOK'
  BY NextType, NextLedger, NextFit
<1>2. Granted \subseteq Holders /\ Granted' \subseteq Holders'
  <2>1. Granted' \subseteq Holders'
    BY <1>1 DEF LedgerInv, CoverInv, Granted, Holders, Entries
  <2> QED
    BY <2>1, GrantedHold
<1>3. Holders' \in SUBSET Machines
  BY DEF Holders, Entries
<1>4. CASE mach' = mach
  <2>1. Granted' = Granted
    BY <1>4 DEF Granted
  <2>2. Ledger!WithinLimits(Holders)'
    BY <1>1, FittingHolders, PTL
  <2>3. Ledger!WithinLimits(Holders')
    BY <2>2 DEF Ledger!WithinLimits
  <2>4. Ledger!Decide(Holders')
    BY <1>2, <2>1, <2>3 DEF Ledger!Decide
  <2> QED
    BY <1>3, <2>4 DEF Ledger!Next
<1>5. ASSUME cluster' = cluster,
             NEW k \in Machines, \A m \in Machines \ {k} : mach'[m] = mach[m]
      PROVE  Ledger!Next
  <2>1. Holders' = Holders
    BY <1>5 DEF Holders, Entries
  <2>3. \A m \in Machines \ {k} : m \in Granted' <=> m \in Granted
    BY <1>5 DEF Granted
  <2>4. Granted \in SUBSET Machines /\ Granted' \in SUBSET Machines
    BY DEF Granted
  <2>5. CASE k \in Granted'
    <3>1. Granted' = Granted \cup {k} /\ k \notin Granted
      BY <2>1, <2>3, <2>4, <2>5
    <3>2. k \in Holders
      BY <1>2, <2>1, <2>5
    <3>3. Ledger!Grant(k)
      BY <2>1, <3>1, <3>2 DEF Ledger!Grant
    <3> QED
      BY <3>3 DEF Ledger!Next
  <2>6. CASE k \notin Granted'
    <3>1. Granted' = Granted \ {k} /\ k \in Granted
      BY <2>1, <2>3, <2>4, <2>6
    <3>2. Ledger!Revoke(k)
      BY <2>1, <3>1 DEF Ledger!Revoke
    <3> QED
      BY <3>2 DEF Ledger!Next
  <2> QED
    BY <2>5, <2>6
<1> QED
  BY <1>4, <1>5, OneObjectAtATime

\* The conductors, their writes in flight and the machines together implement
\* one atomic ledger of turns (rollout.go: "the budget is one compare-and-swap on
\* one object").
THEOREM RolloutIsOneLedger == Spec => OneLedger
<1>1. Init => Ledger!Init
  <2> SUFFICES ASSUME Init PROVE Holders = {} /\ Granted = {}
    BY DEF Ledger!Init
  <2>1. \A m \in Machines : cluster.turns[m].rv = 0
    BY DEF Init, NoTurns, NoTurn
  <2>2. \A m \in Machines \ Legacy : ~mach[m].grant
    BY DEF Init
  <2> QED
    BY <2>1, <2>2 DEF Holders, Granted, Entries
<1> QED
  BY <1>1, LedgerStep, TypeCorrect, LedgerInvariant, LedgersFit, PTL DEF Spec, OneLedger, Ledger!Spec

-----------------------------------------------------------------------------
\* A new turn counts everyone who is out.

\* The conductor's process starts with every machine up.
LEMMA InitHeart == Init => HeartInv
  BY DEF Init, HeartInv

\* Each step keeps the record of the heartbeats: only a machine that renews its
\* Lease leaves the silent ones, and one that boots leaves the dead ones.
LEMMA NextHeart == TypeOK /\ HeartInv /\ [Next]_vars => HeartInv'
<1> SUFFICES ASSUME TypeOK, HeartInv, [Next]_vars PROVE HeartInv'
  OBVIOUS
<1> USE DEF heartVars
<1>1. ASSUME UNCHANGED <<up, silent, listening, dead>> PROVE HeartInv'
  BY <1>1 DEF HeartInv
<1>2. CASE Conductor
  <2>1. CASE \E m \in Machines : Deliver(m) \/ ReadTurn(m)
    BY <1>1, <2>1 DEF Deliver, ReadTurn
  <2>2. CASE DeliverCluster \/ BeginSweep \/ AbortSweep
    BY <1>1, <2>2 DEF DeliverCluster, BeginSweep, AbortSweep
  <2>3. CASE \E given \in SUBSET Machines : SweepFleet(given)
    BY <1>1, <2>3 DEF SweepFleet
  <2>4. CASE (\E w \in todo : Send(w)) \/ (\E m \in Failing : GrowOverdue(m))
    BY <1>1, <2>4 DEF Send, GrowOverdue
  <2>5. CASE NewConductor
    BY <2>5 DEF NewConductor, HeartInv
  <2>6. CASE \E m \in Machines : GoSilent(m) \/ Hear(m)
    BY <2>6 DEF GoSilent, Hear, HeartInv
  <2>7. CASE Judge
    BY <2>7 DEF Judge, HeartInv
  <2> QED
    BY <1>2, <2>1, <2>2, <2>3, <2>4, <2>5, <2>6, <2>7 DEF Conductor
<1>3. CASE Environment
  <2>1. CASE (\E w \in late : LandLate(w)) \/ (\E w \in lateCluster : LandLateCluster(w))
    BY <1>1, <2>1 DEF LandLate, LandLateCluster
  <2>2. CASE \E m \in Machines, phase \in Reports : Report(m, phase)
    BY <1>1, <2>2 DEF Report
  <2>3. CASE (\E r \in Requests : File(r) \/ Close(r)) \/ EditCluster
    BY <1>1, <2>3 DEF File, Close, EditCluster
  <2>4. CASE (\E m \in Failing : GoDown(m)) \/ (\E m \in Machines : Boot(m))
    BY <2>4 DEF GoDown, Boot, HeartInv
  <2> QED
    BY <1>3, <2>1, <2>2, <2>3, <2>4 DEF Environment
<1>4. CASE UNCHANGED vars
  BY <1>1, <1>4 DEF vars
<1> QED
  BY <1>2, <1>3, <1>4 DEF Next

\* A decision that gives a turn counts out each machine with a grant, whether
\* the ledger names it or not, and each one that was down when the record began.
LEMMA EveryoneIsCounted ==
    ASSUME TypeOK, CountInv, sweeping, doc.rv = cluster.rv, ~listening,
           \A m \in Machines : ~NeedsRead(m),
           NEW m \in Machines, m \in dead \/ mach[m].grant
    PROVE  m \in Occupying
<1>1. doc = cluster /\ seen[m].rv # 0
  BY DEF CountInv, LedgerInv, VersionInv, SweepInv
<1>2. CASE m \in dead
  <2>1. m \in silent
    BY <1>2 DEF CountInv, HeartInv
  <2> QED
    BY <2>1 DEF Occupying, Up, effectivePhase, available
<1>3. CASE mach[m].grant
  <2>1. cluster.turns[m].rv # 0 \/ seen[m].grant
    BY <1>1, <1>3 DEF CountInv, LedgerInv, CoverInv
  <2>2. ~Freed(m)
    <3> SUFFICES ASSUME Freed(m) PROVE FALSE
      OBVIOUS
    <3>1. m \in fresh
      BY DEF Freed, NeedsRead
    <3>2. Quiet(m)
      BY <3>1 DEF Freed, CountInv, LedgerInv, FreshInv
    <3> QED
      BY <1>3, <3>2 DEF Quiet
  <2> QED
    BY <1>1, <2>1, <2>2 DEF Occupying, Recorded, Keeps
<1> QED
  BY <1>2, <1>3

\* A sweep's write that grants a turn where neither the copy nor the ledger
\* shows one is for a machine that the walk gave a turn.
LEMMA NewGrantsAreGiven ==
    ASSUME NEW given \in SUBSET Waiting, NEW granted \in SUBSET (given \cup Regranted),
           NEW stored, NEW w \in MachineWrites(granted, stored),
           w.grant, ~seen[w.to].grant, doc.turns[w.to].rv = 0
    PROVE  w.to \in given \cap granted
<1>1. ~Recorded(w.to)
  BY DEF Recorded, Keeps
<1>2. w.to \notin Confirmed /\ w.to \notin Regranted
  BY <1>1 DEF Confirmed, Regranted, Rejoining, Pending
<1>3. w \in {[to |-> m, rv |-> seen[m].rv, grant |-> TRUE, phase |-> seen[m].phase] :
               m \in {n \in granted \cup Confirmed : stored[n].rv = seen[n].rv}}
  <2>1. ASSUME w \in {[to |-> m, rv |-> seen[m].rv, grant |-> FALSE, phase |-> seen[m].phase] :
                        m \in Revoked}
        PROVE  FALSE
    BY <2>1
  <2>2. ASSUME w \in {[to |-> m, rv |-> seen[m].rv, grant |-> seen[m].grant, phase |-> "Lost"] :
                        m \in DeclaredLost}
        PROVE  FALSE
    BY <2>2
  <2> QED
    BY <2>1, <2>2 DEF MachineWrites
<1>4. w.to \in granted \cup Confirmed
  BY <1>3
<1> QED
  BY <1>2, <1>4

\* The ledger with a walk's turns, and everyone who is out beside it, keep each
\* budget and the leaders' floor that a new turn is subject to.
LEMMA NewTurnsFit ==
    ASSUME TypeOK, CountInv, sweeping, doc.rv = cluster.rv,
           \A m \in Machines : ~NeedsRead(m),
           NEW given \in SUBSET Machines, NEW lagging, Grants(given, lagging),
           NEW n \in given,
           NEW out \in SUBSET (Entries(DecidedTurns(given)) \cup dead
                                   \cup {m \in Machines : mach[m].grant})
    PROVE  /\ \A b \in Budgets : n \in Selects[b] =>
                 Cardinality(Selects[b] \cap out) <= MaxUnavailable[b]
           /\ n \in Leaders => out \cap Leaders \subseteq {n}
<1>1. /\ given \in SUBSET Waiting
      /\ \A m \in given : Admitted(m, {g \in given : Before(g, m)}, lagging)
  BY DEF Grants
<1>2. ~listening /\ Stalled = {}
  BY <1>1 DEF Admitted, Held
<1>3. out \in SUBSET (Occupying \cup given)
  <2>1. ASSUME NEW m \in Entries(DecidedTurns(given)), m \notin given PROVE m \in Occupying
    <3>1. m \in Machines /\ DecidedTurns(given)[m].rv # 0 /\ NoTurn.rv = 0
      BY <2>1 DEF Entries, NoTurn
    <3>2. m \in Regranted \/ Recorded(m)
      BY <2>1, <3>1 DEF DecidedTurns
    <3> QED
      BY <3>1, <3>2 DEF Occupying, Regranted, Rejoining, Pending
  <2>2. \A m \in Machines : m \in dead \/ mach[m].grant => m \in Occupying
    BY <1>2, EveryoneIsCounted
  <2>3. dead \in SUBSET Machines
    BY DEF TypeOK
  <2> QED
    BY <2>1, <2>2, <2>3
<1>4. ASSUME NEW b \in Budgets, n \in Selects[b]
      PROVE  Cardinality(Selects[b] \cap out) <= MaxUnavailable[b]
  <2> DEFINE E == Selects[b] \cap out
             U == Selects[b] \cap (Occupying \cup given)
  <2>1. Cardinality(U) <= MaxUnavailable[b]
    BY <1>4, GivenFit
  <2>2. IsFiniteSet(U) /\ MaxUnavailable[b] \in Nat
    BY BudgetAssumption, FleetAssumption, FS_Subset
  <2>3. E \in SUBSET U
    BY <1>3
  <2> HIDE DEF E, U
  <2>4. Cardinality(E) <= Cardinality(U) /\ Cardinality(E) \in Nat /\ Cardinality(U) \in Nat
    BY <2>2, <2>3, FS_Subset, FS_CardinalityType
  <2>5. Cardinality(E) <= MaxUnavailable[b]
    BY <2>1, <2>2, <2>4
  <2> QED
    BY <2>5 DEF E
<1>5. ASSUME n \in Leaders PROVE out \cap Leaders \subseteq {n}
  <2>1. Occupying \cap Leaders = {}
    BY <1>1, <1>2, <1>5 DEF Admitted, LeaderBusy
  <2>2. \A k, l \in given \cap Leaders : ~Before(k, l)
    BY <1>1 DEF Admitted
  <2>3. \A k \in given \cap Leaders : k = n
    BY <1>1, <1>5, <2>2, QueueIsStrict
  <2> QED
    BY <1>3, <2>1, <2>3
<1> QED
  BY <1>4, <1>5

\* The step that stores a new turn and sends its grant is a sweep, and its new
\* turns are the ones of its walk.
LEMMA NewTurnStep ==
    ASSUME TypeOK, CountInv, [Next]_vars, NEW w \in todo', NewTurn(w)
    PROVE  /\ sweeping /\ doc.rv = cluster.rv
           /\ \A m \in Machines : ~NeedsRead(m)
           /\ \E given \in SUBSET Machines, lagging \in BOOLEAN :
                /\ Grants(given, lagging)
                /\ w.to \in given
                /\ cluster'.turns = DecidedTurns(given)
<1>1. /\ todo = {} /\ w.grant /\ ~seen[w.to].grant
      /\ cluster.turns[w.to].rv = 0 /\ cluster'.turns[w.to].rv # 0
      /\ todo' # todo /\ cluster'.turns # cluster.turns
  BY DEF NewTurn
<1> USE DEF apiVars, lateVars, copyVars, sweepVars, heartVars
<1>2. ASSUME NEW given \in SUBSET Machines, SweepFleet(given)
      PROVE  /\ sweeping /\ doc.rv = cluster.rv
             /\ \A m \in Machines : ~NeedsRead(m)
             /\ \E lagging \in BOOLEAN :
                  /\ Grants(given, lagging)
                  /\ w.to \in given
                  /\ cluster'.turns = DecidedTurns(given)
  <2>1. sweeping /\ \A m \in Machines : ~NeedsRead(m)
    BY <1>2 DEF SweepFleet
  <2>2. ASSUME NEW turns, NEW granted, PublishCluster(turns, granted)
        PROVE  /\ doc.rv = cluster.rv /\ doc.turns[w.to].rv = 0
               /\ cluster'.turns = turns
               /\ w \in MachineWrites(granted, turns)
    <3>1. /\ doc.rv = cluster.rv
          /\ cluster' = [rv |-> cluster.rv + 1, turns |-> turns]
          /\ todo' = MachineWrites(granted, turns)
      BY <1>1, <2>2 DEF PublishCluster
    <3>2. doc = cluster
      BY <3>1 DEF CountInv, LedgerInv, VersionInv
    <3> QED
      BY <1>1, <3>1, <3>2
  <2>3. CASE \E lagging \in BOOLEAN :
               Grants(given, lagging) /\ PublishCluster(DecidedTurns(given), given \cup Regranted)
    <3>1. PICK lagging \in BOOLEAN :
            Grants(given, lagging) /\ PublishCluster(DecidedTurns(given), given \cup Regranted)
      BY <2>3
    <3>2. /\ doc.rv = cluster.rv /\ doc.turns[w.to].rv = 0
          /\ cluster'.turns = DecidedTurns(given)
          /\ w \in MachineWrites(given \cup Regranted, DecidedTurns(given))
      BY <2>2, <3>1
    <3>3. given \in SUBSET Waiting
      BY <3>1 DEF Grants
    <3>4. w.to \in given
      BY <1>1, <3>2, <3>3, NewGrantsAreGiven
    <3> QED
      BY <2>1, <3>1, <3>2, <3>4
  <2>4. CASE /\ Grants(given, FALSE)
             /\ PublishCluster(withoutGrants(DecidedTurns(given), given), {})
    <3>1. /\ doc.turns[w.to].rv = 0
          /\ w \in MachineWrites({}, withoutGrants(DecidedTurns(given), given))
      BY <2>2, <2>4
    <3>2. given \in SUBSET Waiting
      BY <2>4 DEF Grants
    <3>3. w.to \in given \cap {}
      BY <1>1, <3>1, <3>2, NewGrantsAreGiven
    <3> QED
      BY <3>3
  <2> QED
    BY <1>2, <2>3, <2>4 DEF SweepFleet
<1>3. ~ \E m \in Machines : Deliver(m) \/ ReadTurn(m) \/ GoSilent(m) \/ Hear(m)
  BY <1>1 DEF Deliver, ReadTurn, GoSilent, Hear
<1>4. ~ (DeliverCluster \/ BeginSweep \/ AbortSweep \/ NewConductor \/ Judge)
  BY <1>1 DEF DeliverCluster, BeginSweep, AbortSweep, NewConductor, Judge
<1>5. ~ (\E v \in todo : Send(v)) /\ ~ (\E m \in Failing : GrowOverdue(m))
  BY <1>1 DEF Send, GrowOverdue
<1>6. ~ Environment
  <2>1. ~ (\E v \in late : LandLate(v)) /\ ~ (\E v \in lateCluster : LandLateCluster(v))
    BY <1>1 DEF LandLate, LandLateCluster
  <2>2. ~ (\E m \in Machines, phase \in Reports : Report(m, phase))
    BY <1>1 DEF Report
  <2>3. ~ (\E m \in Failing : GoDown(m)) /\ ~ (\E m \in Machines : Boot(m))
    BY <1>1 DEF GoDown, Boot
  <2>4. ~ (\E r \in Requests : File(r)) /\ ~ (\E r \in Requests : Close(r)) /\ ~EditCluster
    BY <1>1 DEF File, Close, EditCluster
  <2> QED
    BY <2>1, <2>2, <2>3, <2>4 DEF Environment
<1>7. ~ UNCHANGED vars
  BY <1>1 DEF vars
<1>8. PICK given \in SUBSET Machines : SweepFleet(given)
  BY <1>3, <1>4, <1>5, <1>6, <1>7 DEF Next, Conductor
<1> QED
  BY <1>2, <1>8

\* The conductor's copies and its record of the heartbeats show everyone who is
\* out whenever it gives a turn.
THEOREM CountsAreComplete == Spec => []CountInv
<1>1. Init => TypeOK /\ HeartInv
  BY InitType, InitHeart
<1>2. TypeOK /\ HeartInv /\ [Next]_vars => (TypeOK /\ HeartInv)'
  BY NextType, NextHeart
<1>3. LedgerInv /\ HeartInv => CountInv
  BY DEF CountInv
<1> QED
  BY <1>1, <1>2, <1>3, LedgerInvariant, PTL DEF Spec

\* A turn that a sweep adds keeps its budgets with everyone counted who holds a
\* turn or a grant or was down when the record of the heartbeats began, and a
\* leader's new turn finds no other leader out (rollout.go, heartbeats.go).
THEOREM NewTurnsCount == Spec => NewTurnsCountEveryoneOut
<1> DEFINE Out == Entries(cluster'.turns) \cup dead \cup {m \in Machines : mach[m].grant}
           Counts == \A w \in todo' : NewTurn(w) =>
               LET out == Entries(cluster'.turns) \cup dead \cup {m \in Machines : mach[m].grant}
               IN  /\ \A b \in Budgets : w.to \in Selects[b] =>
                         Cardinality(Selects[b] \cap out) <= MaxUnavailable[b]
                   /\ w.to \in Leaders => out \cap Leaders = {w.to}
<1>1. TypeOK /\ CountInv /\ [Next]_vars => [Counts]_vars
  <2> SUFFICES ASSUME TypeOK, CountInv, [Next]_vars, NEW w \in todo', NewTurn(w)
               PROVE  /\ \A b \in Budgets : w.to \in Selects[b] =>
                            Cardinality(Selects[b] \cap Out) <= MaxUnavailable[b]
                      /\ w.to \in Leaders => Out \cap Leaders = {w.to}
    OBVIOUS
  <2>1. /\ sweeping /\ doc.rv = cluster.rv
        /\ \A m \in Machines : ~NeedsRead(m)
        /\ \E given \in SUBSET Machines, lagging \in BOOLEAN :
             /\ Grants(given, lagging)
             /\ w.to \in given
             /\ cluster'.turns = DecidedTurns(given)
    BY NewTurnStep
  <2>2. PICK given \in SUBSET Machines, lagging \in BOOLEAN :
             /\ Grants(given, lagging)
             /\ w.to \in given
             /\ cluster'.turns = DecidedTurns(given)
    BY <2>1
  <2>3. Out \in SUBSET (Entries(DecidedTurns(given)) \cup dead
                            \cup {m \in Machines : mach[m].grant})
    BY <2>2
  <2>4. w.to \in Machines /\ w.to \in Out
    BY <2>2 DEF NewTurn, Entries
  <2> HIDE DEF Out
  <2>5. /\ \A b \in Budgets : w.to \in Selects[b] =>
             Cardinality(Selects[b] \cap Out) <= MaxUnavailable[b]
        /\ w.to \in Leaders => Out \cap Leaders \subseteq {w.to}
    BY <2>1, <2>2, <2>3, NewTurnsFit
  <2> QED
    BY <2>4, <2>5
<1> QED
  BY <1>1, TypeCorrect, CountsAreComplete, PTL DEF Spec, NewTurnsCountEveryoneOut

-----------------------------------------------------------------------------
\* A sweep has one decision to make.

\* Some machine comes before all the others.
LEMMA FirstInQueue ==
    ASSUME TypeOK, NEW G \in SUBSET Waiting, G # {}
    PROVE  \E g \in G : \A h \in G \ {g} : Before(g, h)
<1> DEFINE R == {p \in Waiting \X Waiting : Before(p[2], p[1])}
<1>1. IsFiniteSet(G)
  BY FS_Subset, FleetAssumption DEF Waiting
<1>2. \A m, n \in Waiting : <<m, n>> \in R <=> Before(n, m)
  OBVIOUS
<1> HIDE DEF R
<1>3. Orders(R, G)
  BY <1>2, QueueIsStrict DEF Orders
<1>4. PICK g \in G : \A h \in G \ {g} : <<h, g>> \in R
  BY <1>1, <1>3, LastOfSet
<1> QED
  BY <1>2, <1>4

\* Two decisions over the same copies agree: the first machine in the queue that
\* they would treat differently found the same machines ahead of it in both.
LEMMA DecisionsAgree ==
    ASSUME TypeOK, NEW lagging, NEW g1, Grants(g1, lagging), NEW g2, Grants(g2, lagging)
    PROVE  g1 = g2
<1> DEFINE D == (g1 \ g2) \cup (g2 \ g1)
<1>1. g1 \in SUBSET Waiting /\ g2 \in SUBSET Waiting
  BY DEF Grants
<1>2. ASSUME D # {} PROVE FALSE
  <2>1. PICK m \in D : \A h \in D \ {m} : Before(m, h)
    BY <1>1, <1>2, FirstInQueue
  <2>2. \A h \in Waiting : Before(h, m) => h \notin D
    BY <1>1, <2>1, QueueIsStrict
  <2>3. {g \in g1 : Before(g, m)} = {g \in g2 : Before(g, m)}
    BY <1>1, <2>2
  <2>4. m \in Waiting
    BY <1>1, <2>1
  <2>5. m \in g1 <=> Admitted(m, {g \in g1 : Before(g, m)}, lagging)
    BY <2>4 DEF Grants
  <2>6. m \in g2 <=> Admitted(m, {g \in g2 : Before(g, m)}, lagging)
    BY <2>4 DEF Grants
  <2> QED
    BY <2>1, <2>3, <2>5, <2>6
<1> QED
  BY <1>2

\* The machines of S are the first ones of the queue.
Leads(S) == \A m \in S, n \in Waiting : Before(n, m) => n \in S

\* The walk's choice among the machines of S.
WalksOver(S, given, lagging) ==
    /\ given \subseteq S
    /\ \A m \in S : m \in given <=> Admitted(m, {g \in given : Before(g, m)}, lagging)

\* One step of the walk: the last machine of S is given a turn or passed over, and
\* what was chosen among those ahead of it stands.
LEMMA WalkGoesOn ==
    ASSUME TypeOK, NEW lagging, NEW S \in SUBSET Waiting, NEW l \in S,
           \A h \in S \ {l} : Before(h, l),
           NEW given, WalksOver(S \ {l}, given, lagging)
    PROVE  \E longer : WalksOver(S, longer, lagging)
<1>1. \A m \in S : ~Before(l, m)
  BY QueueIsStrict
<1>2. /\ given \subseteq S \ {l}
      /\ \A m \in S \ {l} : m \in given <=> Admitted(m, {g \in given : Before(g, m)}, lagging)
  BY DEF WalksOver
<1>3. CASE Admitted(l, {g \in given : Before(g, l)}, lagging)
  <2> DEFINE longer == given \cup {l}
  <2>1. \A m \in S : {g \in longer : Before(g, m)} = {g \in given : Before(g, m)}
    BY <1>1
  <2>2. ASSUME NEW m \in S
        PROVE  m \in longer <=> Admitted(m, {g \in longer : Before(g, m)}, lagging)
    <3>1. {g \in longer : Before(g, m)} = {g \in given : Before(g, m)}
      BY <2>1
    <3>2. m \in longer <=> Admitted(m, {g \in given : Before(g, m)}, lagging)
      BY <1>2, <1>3
    <3> QED
      BY <3>1, <3>2
  <2>3. WalksOver(S, longer, lagging)
    BY <1>2, <2>2 DEF WalksOver
  <2> QED
    BY <2>3
<1>4. CASE ~Admitted(l, {g \in given : Before(g, l)}, lagging)
  <2>1. WalksOver(S, given, lagging)
    BY <1>2, <1>4 DEF WalksOver
  <2> QED
    BY <2>1
<1> QED
  BY <1>3, <1>4

\* The walk comes to a decision: a shortest part of the queue over which it did
\* not would have a last machine, and the walk over the others would go on to it.
LEMMA WalkDecides ==
    ASSUME TypeOK, NEW lagging
    PROVE  \E given : Grants(given, lagging)
<1> DEFINE Stuck == {S \in SUBSET Waiting : Leads(S) /\ ~ \E given : WalksOver(S, given, lagging)}
           T == {Cardinality(S) : S \in Stuck}
<1>1. \A S \in SUBSET Waiting : IsFiniteSet(S) /\ Cardinality(S) \in Nat
  <2>1. IsFiniteSet(Waiting)
    BY FS_Subset, FleetAssumption DEF Waiting
  <2> QED
    BY <2>1, FS_Subset, FS_CardinalityType
<1>2. ASSUME Stuck # {} PROVE FALSE
  <2>1. T \in SUBSET Nat /\ T # {}
    BY <1>1, <1>2
  <2>2. PICK x \in T : \A y \in T : x <= y
    BY <2>1, SmallestNat
  <2>3. PICK S \in Stuck : x = Cardinality(S)
    BY <2>2
  <2>4. S # {}
    <3>1. WalksOver({}, {}, lagging)
      BY DEF WalksOver
    <3> QED
      BY <2>3, <3>1
  <2>5. PICK l \in S : \A h \in S \ {l} : Before(h, l)
    BY <2>3, <2>4, LastInQueue
  <2>6. Leads(S \ {l})
    <3>1. ASSUME NEW m \in S \ {l}, NEW n \in Waiting, Before(n, m) PROVE n \in S \ {l}
      <4>1. n \in S
        BY <2>3, <3>1 DEF Leads
      <4>2. ~Before(l, m)
        BY <2>3, <2>5, QueueIsStrict
      <4> QED
        BY <3>1, <4>1, <4>2
    <3> QED
      BY <3>1 DEF Leads
  <2>7. S \ {l} \in Stuck
    <3>1. ASSUME NEW given, WalksOver(S \ {l}, given, lagging) PROVE FALSE
      <4>1. \E longer : WalksOver(S, longer, lagging)
        BY <2>3, <2>5, <3>1, WalkGoesOn
      <4> QED
        BY <2>3, <4>1
    <3> QED
      BY <2>3, <2>6, <3>1
  <2> HIDE DEF Stuck
  <2>8. Cardinality(S \ {l}) \in T /\ S \in SUBSET Waiting
    BY <2>3, <2>7 DEF Stuck
  <2>9. Cardinality(S \ {l}) < Cardinality(S)
    BY <1>1, <2>5, <2>8, FS_Subset
  <2>10. Cardinality(S) <= Cardinality(S \ {l})
    BY <2>2, <2>3, <2>8
  <2> QED
    BY <1>1, <2>8, <2>9, <2>10
<1>3. Leads(Waiting)
  BY DEF Leads
<1>4. PICK given : WalksOver(Waiting, given, lagging)
  BY <1>2, <1>3
<1>5. Grants(given, lagging)
  BY <1>4 DEF WalksOver, Grants
<1> QED
  BY <1>5

\* Over one set of copies a sweep has exactly one decision to make, whatever the
\* fleet (rollout.go: "Name order makes the decision deterministic, so two sweeps
\* of the same fleet agree").
OneDecision ==
    \A lagging \in BOOLEAN :
        \E given \in SUBSET Machines :
            \A g : Grants(g, lagging) <=> g = given

\* The walk over the queue comes to a decision, and no other one is possible
\* (rollout.go, decideRollout).
THEOREM SweepsAgree == Spec => []OneDecision
<1>1. TypeOK => OneDecision
  <2> SUFFICES ASSUME TypeOK, NEW lagging \in BOOLEAN
               PROVE  \E given \in SUBSET Machines : \A g : Grants(g, lagging) <=> g = given
    BY DEF OneDecision
  <2>1. PICK given : Grants(given, lagging)
    BY WalkDecides
  <2>2. given \in SUBSET Machines
    BY <2>1 DEF Grants, Waiting
  <2>3. \A g : Grants(g, lagging) <=> g = given
    BY <2>1, DecisionsAgree
  <2> QED
    BY <2>2, <2>3
<1> QED
  BY <1>1, TypeCorrect, PTL
=============================================================================
