---------------------------- MODULE RolloutProofs ----------------------------
(***************************************************************************)
(* The rollout conductor keeps its types, covers its grants, and keeps the *)
(* budgets: for every fleet, every set of budgets and every bound.         *)
(***************************************************************************)
EXTENDS RolloutInv, FiniteSetTheorems, WellFoundedInduction, TLAPS

-----------------------------------------------------------------------------
\* Types.

\* The ledger that a sweep decides is a ledger.
LEMMA TurnsType ==
    ASSUME TypeOK, NEW given \in SUBSET Machines
    PROVE  /\ DecidedTurns(given) \in [Machines -> Entry]
           /\ withoutGrants(DecidedTurns(given), given) \in [Machines -> Entry]
<1>1. NoTurn \in Entry
  BY DEF NoTurn, Entry
<1>2. \A m \in Machines : open(m) \in SUBSET Requests
  BY DEF open
<1>3. \A m \in Machines : /\ seen[m].rv \in Nat
                          /\ doc.turns[m].rv \in Nat
                          /\ doc.turns[m].ds \in SUBSET Requests
  BY DEF TypeOK, Machine, Cluster, Entry
<1>4. \A m \in Machines : TurnVersion(m) \in Nat /\ TurnRequests(m) \in SUBSET Requests
  BY <1>2, <1>3 DEF TurnVersion, TurnRequests
<1>5. DecidedTurns(given) \in [Machines -> Entry]
  BY <1>1, <1>2, <1>3, <1>4 DEF DecidedTurns, Entry
<1>6. withoutGrants(DecidedTurns(given), given) \in [Machines -> Entry]
  BY <1>1, <1>5 DEF withoutGrants
<1> QED
  BY <1>5, <1>6

\* The Machine writes of a sweep are writes.
LEMMA WritesType ==
    ASSUME TypeOK, NEW granted \in SUBSET Machines, NEW stored
    PROVE  MachineWrites(granted, stored) \in SUBSET Write
<1>1. Confirmed \in SUBSET Machines /\ Revoked \in SUBSET Machines /\ DeclaredLost \in SUBSET Machines
  BY DEF Confirmed, Revoked, DeclaredLost, Spent
<1>2. \A m \in Machines : seen[m].rv \in Nat /\ seen[m].grant \in BOOLEAN /\ seen[m].phase \in Phases
  BY DEF TypeOK, Machine
<1>3. "Lost" \in Phases
  BY DEF Phases
<1>4. ASSUME NEW w \in MachineWrites(granted, stored)
      PROVE  w \in Write
  <2>1. CASE w \in {[to |-> m, rv |-> seen[m].rv, grant |-> TRUE, phase |-> seen[m].phase] :
                      m \in {n \in granted \cup Confirmed : stored[n].rv = seen[n].rv}}
    <3>1. PICK m \in granted \cup Confirmed :
            w = [to |-> m, rv |-> seen[m].rv, grant |-> TRUE, phase |-> seen[m].phase]
      BY <2>1
    <3>2. m \in Machines
      BY <1>1
    <3> QED
      BY <1>2, <3>1, <3>2 DEF Write
  <2>2. CASE w \in {[to |-> m, rv |-> seen[m].rv, grant |-> FALSE, phase |-> seen[m].phase] :
                      m \in Revoked}
    <3>1. PICK m \in Revoked :
            w = [to |-> m, rv |-> seen[m].rv, grant |-> FALSE, phase |-> seen[m].phase]
      BY <2>2
    <3>2. m \in Machines
      BY <1>1
    <3> QED
      BY <1>2, <3>1, <3>2 DEF Write
  <2>3. CASE w \in {[to |-> m, rv |-> seen[m].rv, grant |-> seen[m].grant, phase |-> "Lost"] :
                      m \in DeclaredLost}
    <3>1. PICK m \in DeclaredLost :
            w = [to |-> m, rv |-> seen[m].rv, grant |-> seen[m].grant, phase |-> "Lost"]
      BY <2>3
    <3>2. m \in Machines
      BY <1>1
    <3> QED
      BY <1>2, <1>3, <3>1, <3>2 DEF Write
  <2> QED
    BY <1>4, <2>1, <2>2, <2>3 DEF MachineWrites
<1> QED
  BY <1>4

\* Applying a Machine write keeps the Machines Machines.
LEMMA ApplyType ==
    ASSUME TypeOK, NEW w \in Write, Apply(w)
    PROVE  mach' \in [Machines -> Machine] /\ overdue' \in SUBSET Machines
<1>1. w.to \in Machines /\ w.rv \in Nat /\ w.grant \in BOOLEAN /\ w.phase \in Phases
  BY DEF Write
<1>2. [rv |-> w.rv + 1, grant |-> w.grant, phase |-> w.phase] \in Machine
  BY <1>1 DEF Machine
<1>3. mach' \in [Machines -> Machine]
  BY <1>2 DEF Apply, TypeOK
<1> QED
  BY <1>3 DEF Apply, TypeOK

\* TypeOK holds at first.
LEMMA InitType == Init => TypeOK
<1> SUFFICES ASSUME Init PROVE TypeOK
  OBVIOUS
<1>1. NoTurns \in [Machines -> Entry] /\ NoRequests \in [Requests -> Nat]
  BY DEF NoTurns, NoTurn, Entry, NoRequests
<1>2. cluster \in Cluster /\ doc \in Cluster
  BY <1>1 DEF Init, Cluster
<1>3. mach \in [Machines -> Machine] /\ seen \in [Machines -> Machine]
  BY DEF Init, Machine, Phases
<1>4. asked \in [Requests -> Nat] /\ reqs \in [Requests -> Nat]
  BY <1>1 DEF Init
<1> QED
  BY <1>2, <1>3, <1>4 DEF Init, TypeOK

\* Publishing a ledger keeps the Cluster, its copy and the writes well typed.
LEMMA PublishType ==
    ASSUME TypeOK, NEW turns \in [Machines -> Entry], NEW granted \in SUBSET Machines,
           PublishCluster(turns, granted)
    PROVE  /\ cluster' \in Cluster
           /\ doc' \in Cluster
           /\ todo' \in SUBSET Write
           /\ lateCluster' \in SUBSET Cluster
<1>1. \A stored : MachineWrites(granted, stored) \in SUBSET Write
  BY WritesType
<1>2. NoDoc \in Cluster
  BY DEF NoDoc, NoTurns, NoTurn, Cluster, Entry
<1>3. [rv |-> cluster.rv + 1, turns |-> turns] \in Cluster /\ [rv |-> doc.rv, turns |-> turns] \in Cluster
  BY DEF TypeOK, Cluster
<1>4. todo' \in SUBSET Write
  BY <1>1 DEF PublishCluster
<1>5. cluster' \in Cluster /\ doc' \in Cluster /\ lateCluster' \in SUBSET Cluster
  BY <1>2, <1>3 DEF PublishCluster, TypeOK
<1> QED
  BY <1>4, <1>5

\* Each step keeps the types.
LEMMA NextType == TypeOK /\ [Next]_vars => TypeOK'
<1> SUFFICES ASSUME TypeOK, [Next]_vars PROVE TypeOK'
  OBVIOUS
<1> USE DEF apiVars, lateVars, copyVars, sweepVars, heartVars
<1>1. ASSUME NEW m \in Machines, Deliver(m) PROVE TypeOK'
  <2>1. seen' \in [Machines -> Machine]
    BY <1>1 DEF Deliver, TypeOK
  <2> QED
    BY <1>1, <2>1 DEF Deliver, TypeOK
<1>2. CASE DeliverCluster
  BY <1>2 DEF DeliverCluster, TypeOK
<1>3. CASE BeginSweep
  BY <1>3 DEF BeginSweep, TypeOK
<1>4. ASSUME NEW m \in Machines, ReadTurn(m) PROVE TypeOK'
  <2>1. seen' \in [Machines -> Machine]
    BY <1>4 DEF ReadTurn, TypeOK
  <2> QED
    BY <1>4, <2>1 DEF ReadTurn, TypeOK
<1>5. EndReading => /\ sweeping' \in BOOLEAN
                    /\ fresh' \in SUBSET Machines
                    /\ reqs' \in [Requests -> Nat]
  <2>1. NoRequests \in [Requests -> Nat]
    BY DEF NoRequests
  <2> QED
    BY <2>1 DEF EndReading
<1>6. CASE AbortSweep
  BY <1>5, <1>6 DEF AbortSweep, TypeOK
<1>7. ASSUME NEW given \in SUBSET Machines, SweepFleet(given) PROVE TypeOK'
  <2>1. Regranted \in SUBSET Machines
    BY DEF Regranted, Rejoining
  <2>2. /\ cluster' \in Cluster
        /\ doc' \in Cluster
        /\ todo' \in SUBSET Write
        /\ lateCluster' \in SUBSET Cluster
    <3>1. CASE PublishCluster(DecidedTurns(given), given \cup Regranted)
      BY <2>1, <3>1, TurnsType, PublishType
    <3>2. CASE PublishCluster(withoutGrants(DecidedTurns(given), given), {})
      BY <3>2, TurnsType, PublishType
    <3> QED
      BY <1>7, <3>1, <3>2 DEF SweepFleet
  <2> QED
    BY <1>5, <1>7, <2>2 DEF SweepFleet, TypeOK
<1>8. ASSUME NEW w \in todo, Send(w) PROVE TypeOK'
  <2>1. w \in Write
    BY DEF TypeOK
  <2>2. NoCopy \in Machine
    BY DEF NoCopy, Machine, Phases
  <2>3. /\ mach' \in [Machines -> Machine]
        /\ overdue' \in SUBSET Machines
        /\ late' \in SUBSET Write
        /\ seen' \in [Machines -> Machine]
    <3>1. CASE /\ Apply(w)
               /\ seen' = [seen EXCEPT ![w.to] = mach'[w.to]]
               /\ UNCHANGED late
      <4>1. mach' \in [Machines -> Machine] /\ overdue' \in SUBSET Machines
        BY <2>1, <3>1, ApplyType
      <4>2. w.to \in Machines
        BY <2>1 DEF Write
      <4> QED
        BY <3>1, <4>1, <4>2 DEF TypeOK
    <3>2. CASE /\ seen' = [seen EXCEPT ![w.to] = NoCopy]
               /\ late' = late \/ late' = late \cup {w}
               /\ UNCHANGED <<mach, overdue>>
      BY <2>1, <2>2, <3>2 DEF TypeOK
    <3> QED
      BY <1>8, <3>1, <3>2 DEF Send
  <2>4. todo' \in SUBSET Write
    BY <1>8 DEF Send, TypeOK
  <2> QED
    BY <1>8, <2>3, <2>4 DEF Send, TypeOK
<1>9. CASE NewConductor
  BY <1>5, <1>9 DEF NewConductor, TypeOK
<1>10. ASSUME NEW m \in Machines, GoSilent(m) \/ Hear(m) \/ GrowOverdue(m) PROVE TypeOK'
  BY <1>10 DEF GoSilent, Hear, GrowOverdue, TypeOK
<1>11. CASE Judge
  BY <1>11 DEF Judge, TypeOK
<1>12. ASSUME NEW w \in late, LandLate(w) PROVE TypeOK'
  <2>1. w \in Write
    BY DEF TypeOK
  <2>2. mach' \in [Machines -> Machine] /\ overdue' \in SUBSET Machines
    <3>1. CASE Apply(w)
      BY <2>1, <3>1, ApplyType
    <3>2. CASE UNCHANGED <<mach, overdue>>
      BY <3>2 DEF TypeOK
    <3> QED
      BY <1>12, <3>1, <3>2 DEF LandLate
  <2> QED
    BY <1>12, <2>2 DEF LandLate, TypeOK
<1>13. ASSUME NEW w \in lateCluster, LandLateCluster(w) PROVE TypeOK'
  <2>1. cluster' \in Cluster
    BY <1>13 DEF LandLateCluster, TypeOK, Cluster
  <2> QED
    BY <1>13, <2>1 DEF LandLateCluster, TypeOK
<1>14. ASSUME NEW m \in Machines, NEW phase \in Reports, Report(m, phase) PROVE TypeOK'
  <2>1. [rv |-> mach[m].rv + 1, grant |-> mach[m].grant, phase |-> phase] \in Machine
    BY FleetAssumption DEF TypeOK, Machine, Phases
  <2>2. mach' \in [Machines -> Machine]
    BY <1>14, <2>1 DEF Report, TypeOK
  <2> QED
    BY <1>14, <2>2 DEF Report, TypeOK
<1>15. ASSUME NEW m \in Machines, GoDown(m) \/ Boot(m) PROVE TypeOK'
  BY <1>15 DEF GoDown, Boot, TypeOK
<1>16. ASSUME NEW r \in Requests, File(r) \/ Close(r) PROVE TypeOK'
  <2>1. tick' \in Nat
    BY <1>16, BoundAssumption DEF File, Close, TypeOK
  <2>2. asked' \in [Requests -> Nat]
    BY <1>16, <2>1 DEF File, Close, TypeOK
  <2> QED
    BY <1>16, <2>1, <2>2 DEF File, Close, TypeOK
<1>17. CASE EditCluster
  <2>1. cluster' \in Cluster
    BY <1>17 DEF EditCluster, TypeOK, Cluster
  <2> QED
    BY <1>17, <2>1 DEF EditCluster, TypeOK
<1>18. CASE UNCHANGED vars
  BY <1>18 DEF vars, TypeOK
<1>19. CASE Conductor
  BY <1>1, <1>2, <1>3, <1>4, <1>6, <1>7, <1>8, <1>9, <1>10, <1>11, <1>19, FleetAssumption
    DEF Conductor
<1>20. CASE Environment
  BY <1>12, <1>13, <1>14, <1>15, <1>16, <1>17, <1>20, FleetAssumption DEF Environment
<1> QED
  BY <1>18, <1>19, <1>20 DEF Next

\* Every reachable state is well typed.
THEOREM TypeCorrect == Spec => []TypeOK
  BY InitType, NextType, PTL DEF Spec

-----------------------------------------------------------------------------
\* The ledger covers the grants: one lemma per way a step changes the state.

\* A Machine takes its next version, by a report of its own operator or by a
\* write that named the current version.
LEMMA MachStep ==
    ASSUME TypeOK, LedgerInv,
           NEW m \in Machines, NEW r \in Machine,
           r.rv = mach[m].rv + 1,
           mach' = [mach EXCEPT ![m] = r],
           r.grant => mach[m].grant \/ Landable(m),
           todo' \subseteq todo, late' \subseteq late,
           \/ seen' = seen
           \/ seen' = [seen EXCEPT ![m] = r] /\ ~sweeping,
           UNCHANGED <<cluster, doc, lateCluster, sweeping, fresh>>
    PROVE  LedgerInv'
<1> USE DEF LedgerInv
<1>1. \A k \in Machines : /\ mach[k].rv \in Nat /\ seen[k].rv \in Nat
                          /\ cluster.turns[k].rv \in Nat /\ doc.turns[k].rv \in Nat
                          /\ mach'[k] = IF k = m THEN r ELSE mach[k]
                          /\ seen'[k] = seen[k] \/ (k = m /\ seen'[k] = r)
  BY DEF TypeOK, Machine, Cluster, Entry
<1>2. \A w \in todo \cup late : w.rv \in Nat /\ w.to \in Machines
  BY DEF TypeOK, Write
<1>3. \A w \in lateCluster, k \in Machines : w.turns[k].rv \in Nat
  BY DEF TypeOK, Cluster, Entry
<1>4. \A k \in Machines : Landable(k)' => Landable(k) /\ k # m
  BY <1>1, <1>2 DEF Landable, VersionInv
<1>5. \A k \in Machines : Quiet(k) => Quiet(k)'
  BY <1>1, <1>4 DEF Quiet
<1>6. VersionInv'
  BY <1>1, <1>2, <1>3 DEF VersionInv
<1>7. SweepInv'
  BY <1>1 DEF SweepInv, TypeOK
<1>8. CoverInv'
  BY <1>1, <1>4 DEF CoverInv, VersionInv
<1>9. FreshInv'
  <2>1. fresh = {} \/ seen' = seen
    BY DEF SweepInv
  <2> QED
    BY <1>1, <1>5, <2>1 DEF FreshInv, VersionInv, TypeOK
<1>10. LateInv'
  BY <1>1, <1>5 DEF LateInv, VersionInv, TypeOK
<1> QED
  BY <1>6, <1>7, <1>8, <1>9, <1>10

\* The conductor forgets its copies or reads them again, and gives up writes
\* or leaves them in flight.
LEMMA CopyStep ==
    ASSUME TypeOK, LedgerInv,
           UNCHANGED <<cluster, mach, lateCluster>>,
           todo' \cup late' \subseteq todo \cup late,
           \A k \in Machines : seen'[k] \in {seen[k], mach[k], NoCopy},
           doc' \in {doc, cluster}
    PROVE  /\ VersionInv' /\ CoverInv' /\ LateInv'
           /\ \A k \in Machines : Quiet(k) => Quiet(k)'
<1> USE DEF LedgerInv
<1>1. \A k \in Machines : /\ mach[k].rv \in Nat /\ seen[k].rv \in Nat
                          /\ cluster.turns[k].rv \in Nat /\ doc.turns[k].rv \in Nat
  BY DEF TypeOK, Machine, Cluster, Entry
<1>2. \A k \in Machines : Landable(k)' => Landable(k)
  BY DEF Landable
<1>3. NoCopy.rv = 0 /\ ~NoCopy.grant
  BY DEF NoCopy
<1>4. \A k \in Machines : Quiet(k) => Quiet(k)'
  BY <1>2, <1>3 DEF Quiet
<1>5. VersionInv'
  BY <1>1, <1>3 DEF VersionInv, TypeOK, Cluster
<1>6. CoverInv'
  BY <1>1, <1>2, <1>3 DEF CoverInv
<1>7. LateInv'
  BY <1>4 DEF LateInv
<1> QED
  BY <1>4, <1>5, <1>6, <1>7

\* A person's edit gives the Cluster a version that no copy and no write names.
LEMMA EditStep == TypeOK /\ LedgerInv /\ EditCluster => LedgerInv'
<1> SUFFICES ASSUME TypeOK, LedgerInv, EditCluster PROVE LedgerInv'
  OBVIOUS
<1> USE DEF LedgerInv, apiVars, lateVars, copyVars, sweepVars, heartVars
<1>1. /\ cluster'.rv = cluster.rv + 1
      /\ cluster'.turns = cluster.turns
      /\ cluster.rv \in Nat /\ doc.rv \in Nat
      /\ \A w \in lateCluster : w.rv \in Nat
      /\ UNCHANGED <<mach, seen, doc, late, lateCluster, todo, sweeping, fresh>>
  BY DEF EditCluster, TypeOK, Cluster
<1>2. \A k \in Machines : (Landable(k)' <=> Landable(k)) /\ (Quiet(k)' <=> Quiet(k))
  BY <1>1 DEF Landable, Quiet
<1>3. VersionInv'
  BY <1>1 DEF VersionInv
<1>4. SweepInv' /\ CoverInv'
  BY <1>1, <1>2 DEF SweepInv, CoverInv
<1>5. FreshInv' /\ LateInv'
  BY <1>1, <1>2, <1>3 DEF FreshInv, LateInv, VersionInv
<1> QED
  BY <1>3, <1>4, <1>5

\* A Cluster write of an earlier conductor lands, or conflicts.
LEMMA LateClusterStep ==
    ASSUME TypeOK, LedgerInv, NEW w \in lateCluster, LandLateCluster(w)
    PROVE  LedgerInv'
<1> USE DEF LedgerInv, copyVars, sweepVars, heartVars
<1>1. /\ lateCluster' = lateCluster \ {w}
      /\ UNCHANGED <<mach, seen, doc, late, todo, sweeping, fresh>>
  BY DEF LandLateCluster
<1>2. \A k \in Machines : (Landable(k)' <=> Landable(k)) /\ (Quiet(k)' <=> Quiet(k))
  BY <1>1 DEF Landable, Quiet
<1>3. CASE UNCHANGED cluster
  <2>1. VersionInv' /\ SweepInv'
    BY <1>1, <1>3 DEF VersionInv, SweepInv
  <2>2. CoverInv'
    BY <1>1, <1>2, <1>3 DEF CoverInv
  <2>3. FreshInv'
    BY <1>1, <1>2, <1>3 DEF FreshInv, TypeOK
  <2>4. LateInv'
    BY <1>1, <1>2, <1>3 DEF LateInv
  <2> QED
    BY <2>1, <2>2, <2>3, <2>4
<1>4. CASE w.rv = cluster.rv /\ cluster' = [rv |-> w.rv + 1, turns |-> w.turns]
  <2>1. /\ cluster'.rv = cluster.rv + 1
        /\ cluster'.turns = w.turns
        /\ cluster.rv \in Nat /\ doc.rv \in Nat
        /\ \A v \in lateCluster : v.rv \in Nat
    BY <1>4 DEF TypeOK, Cluster
  <2>2. \A k \in Machines :
          cluster.turns[k].rv \notin {0, w.turns[k].rv} =>
              Quiet(k) /\ cluster.turns[k].rv # mach[k].rv
    BY <1>4 DEF LateInv
  <2>3. VersionInv'
    BY <1>1, <2>1 DEF VersionInv
  <2>4. SweepInv'
    BY <1>1 DEF SweepInv
  <2>5. CoverInv'
    BY <1>1, <1>2, <2>1, <2>2 DEF CoverInv, VersionInv, Quiet
  <2>6. FreshInv' /\ LateInv'
    BY <1>1, <2>1 DEF FreshInv, LateInv, VersionInv
  <2> QED
    BY <2>3, <2>4, <2>5, <2>6
<1> QED
  BY <1>3, <1>4 DEF LandLateCluster

\* A sweep drops or moves the entries of quiet Machines only.
LEMMA MovedTurnsAreQuiet ==
    ASSUME TypeOK, LedgerInv, sweeping, doc.rv = cluster.rv,
           \A m \in Machines : ~NeedsRead(m),
           NEW given \in SUBSET Waiting,
           NEW turns \in {DecidedTurns(given), withoutGrants(DecidedTurns(given), given)},
           NEW m \in Machines,
           cluster.turns[m].rv \notin {0, turns[m].rv}
    PROVE  Quiet(m) /\ cluster.turns[m].rv # mach[m].rv
<1>1. doc = cluster /\ mach[m].rv > 0
  BY DEF LedgerInv, VersionInv
<1>2. doc.turns[m].rv # 0
  BY <1>1
<1>3. ASSUME doc.turns[m].rv # 0, ~seen[m].grant, seen[m].rv # doc.turns[m].rv
      PROVE  Quiet(m) /\ cluster.turns[m].rv # mach[m].rv
  <2>1. m \in fresh
    BY <1>3 DEF NeedsRead
  <2> QED
    BY <1>3, <2>1 DEF LedgerInv, FreshInv
<1>4. CASE Freed(m)
  BY <1>3, <1>4 DEF Freed
<1>5. CASE m \in Regranted
  <2>1. Recorded(m) /\ ~seen[m].grant /\ seen[m].rv # TurnVersion(m)
    BY <1>5 DEF Regranted, Rejoining, Pending
  <2>2. Keeps(m)
    BY <2>1 DEF Recorded
  <2> QED
    BY <1>3, <2>1, <2>2 DEF Keeps, TurnVersion
<1>6. CASE Keeps(m) /\ m \notin Regranted
  <2>1. m \notin given /\ Recorded(m)
    BY <1>6 DEF Waiting, Occupying, Recorded
  <2>2. DecidedTurns(given)[m].rv = doc.turns[m].rv
    BY <1>6, <2>1 DEF DecidedTurns, TurnVersion
  <2>3. turns[m] = DecidedTurns(given)[m]
    BY <1>6, <2>1 DEF withoutGrants
  <2> QED
    BY <1>1, <2>2, <2>3
<1> QED
  BY <1>2, <1>4, <1>5, <1>6 DEF Keeps

\* A decided entry names no version that its Machine has not reached.
LEMMA DecidedVersions ==
    ASSUME TypeOK, LedgerInv,
           NEW given \in SUBSET Machines,
           NEW turns \in {DecidedTurns(given), withoutGrants(DecidedTurns(given), given)},
           NEW m \in Machines
    PROVE  turns[m].rv <= mach[m].rv
<1>1. /\ mach[m].rv \in Nat /\ seen[m].rv \in Nat /\ doc.turns[m].rv \in Nat
      /\ seen[m].rv <= mach[m].rv /\ doc.turns[m].rv <= mach[m].rv
  BY DEF TypeOK, Machine, Cluster, Entry, LedgerInv, VersionInv
<1>2. DecidedTurns(given)[m].rv \in {0, seen[m].rv, doc.turns[m].rv}
  BY DEF DecidedTurns, TurnVersion, NoTurn
<1>3. turns[m].rv = DecidedTurns(given)[m].rv \/ turns[m].rv = 0
  BY DEF withoutGrants, NoTurn
<1> QED
  BY <1>1, <1>2, <1>3

\* Each Machine write names the version of the copy, and one that carries a
\* grant either keeps the one the copy holds or has an entry at that version.
LEMMA WritesAreCovered ==
    ASSUME TypeOK, NEW granted \in SUBSET Machines, NEW stored,
           NEW w \in MachineWrites(granted, stored)
    PROVE  /\ w.to \in Machines
           /\ w.rv = seen[w.to].rv
           /\ w.grant => seen[w.to].grant \/ stored[w.to].rv = w.rv
<1>1. CASE w \in {[to |-> m, rv |-> seen[m].rv, grant |-> TRUE, phase |-> seen[m].phase] :
                    m \in {n \in granted \cup Confirmed : stored[n].rv = seen[n].rv}}
  <2>1. PICK m \in granted \cup Confirmed :
          /\ stored[m].rv = seen[m].rv
          /\ w = [to |-> m, rv |-> seen[m].rv, grant |-> TRUE, phase |-> seen[m].phase]
    BY <1>1
  <2> QED
    BY <2>1 DEF Confirmed
<1>2. CASE w \in {[to |-> m, rv |-> seen[m].rv, grant |-> FALSE, phase |-> seen[m].phase] :
                    m \in Revoked}
  <2>1. PICK m \in Revoked :
          w = [to |-> m, rv |-> seen[m].rv, grant |-> FALSE, phase |-> seen[m].phase]
    BY <1>2
  <2> QED
    BY <2>1 DEF Revoked, Spent
<1>3. CASE w \in {[to |-> m, rv |-> seen[m].rv, grant |-> seen[m].grant, phase |-> "Lost"] :
                    m \in DeclaredLost}
  <2>1. PICK m \in DeclaredLost :
          w = [to |-> m, rv |-> seen[m].rv, grant |-> seen[m].grant, phase |-> "Lost"]
    BY <1>3
  <2> QED
    BY <2>1 DEF DeclaredLost
<1> QED
  BY <1>1, <1>2, <1>3 DEF MachineWrites

\* The Cluster write of a sweep keeps the invariant, however it is answered.
LEMMA PublishStep ==
    ASSUME TypeOK, LedgerInv, sweeping,
           NEW turns \in [Machines -> Entry], NEW granted \in SUBSET Machines,
           \A m \in Machines : turns[m].rv <= mach[m].rv,
           doc.rv = cluster.rv => \A m \in Machines :
               cluster.turns[m].rv \notin {0, turns[m].rv} =>
                   Quiet(m) /\ cluster.turns[m].rv # mach[m].rv,
           PublishCluster(turns, granted), EndReading,
           UNCHANGED <<mach, late, seen>>
    PROVE  LedgerInv'
<1> USE DEF LedgerInv
<1>1. /\ cluster.rv \in Nat /\ doc.rv \in Nat
      /\ \A w \in lateCluster : w.rv \in Nat
      /\ \A m \in Machines : mach[m].rv \in Nat /\ seen[m].rv \in Nat /\ turns[m].rv \in Nat
  BY DEF TypeOK, Cluster, Machine, Entry
<1>2. \A m \in Machines : NoTurns[m].rv = 0
  BY DEF NoTurns, NoTurn
<1>3. NoDoc.rv = 0 /\ NoDoc.turns = NoTurns
  BY DEF NoDoc
<1>4. SweepInv' /\ FreshInv'
  BY DEF EndReading, SweepInv, FreshInv
<1>5. ASSUME NEW stored, todo' = MachineWrites(granted, stored)
      PROVE  /\ \A w \in todo' \cup late' : w.rv <= mach[w.to].rv
             /\ \A m \in Machines :
                  Landable(m)' => Landable(m) \/ mach[m].grant \/ stored[m].rv = mach[m].rv
  <2>1. \A w \in todo' : /\ w.to \in Machines
                         /\ w.rv = seen[w.to].rv
                         /\ w.grant => seen[w.to].grant \/ stored[w.to].rv = w.rv
    BY <1>5, WritesAreCovered
  <2>2. \A w \in todo' \cup late' : w.rv <= mach[w.to].rv
    BY <2>1 DEF VersionInv
  <2>3. \A m \in Machines : Landable(m)' => Landable(m) \/ mach[m].grant \/ stored[m].rv = mach[m].rv
    BY <2>1 DEF VersionInv, Landable
  <2> QED
    BY <2>2, <2>3
<1>6. CASE /\ turns = doc.turns
           /\ todo' = MachineWrites(granted, doc.turns)
           /\ UNCHANGED <<cluster, doc, lateCluster>>
  <2>1. /\ \A w \in todo' \cup late' : w.rv <= mach[w.to].rv
        /\ \A m \in Machines :
             Landable(m)' => Landable(m) \/ mach[m].grant \/ doc.turns[m].rv = mach[m].rv
    BY <1>5, <1>6
  <2>2. VersionInv'
    BY <1>6, <2>1 DEF VersionInv
  <2>3. CoverInv'
    BY <1>6, <2>1 DEF CoverInv
  <2>4. LateInv'
    BY <1>6, <2>1 DEF CoverInv, LateInv, Quiet
  <2> QED
    BY <1>4, <2>2, <2>3, <2>4
<1>7. CASE /\ doc.rv = cluster.rv
           /\ cluster' = [rv |-> cluster.rv + 1, turns |-> turns]
           /\ doc' = cluster'
           /\ todo' = MachineWrites(granted, turns)
           /\ UNCHANGED lateCluster
  <2>1. /\ \A w \in todo' \cup late' : w.rv <= mach[w.to].rv
        /\ \A m \in Machines :
             Landable(m)' => Landable(m) \/ mach[m].grant \/ turns[m].rv = mach[m].rv
    BY <1>5, <1>7
  <2>2. cluster'.rv = cluster.rv + 1 /\ cluster'.turns = turns
    BY <1>7
  <2>3. VersionInv'
    BY <1>1, <1>7, <2>1, <2>2 DEF VersionInv
  <2>4. CoverInv'
    BY <1>7, <2>1, <2>2 DEF CoverInv, VersionInv, Quiet
  <2>5. LateInv'
    BY <1>1, <1>7, <2>2 DEF LateInv, VersionInv
  <2> QED
    BY <1>4, <2>3, <2>4, <2>5
<1>8. CASE /\ doc' = NoDoc
           /\ todo' = MachineWrites(granted, NoTurns)
           /\ UNCHANGED cluster
           /\ \/ UNCHANGED lateCluster
              \/ lateCluster' = lateCluster \cup {[rv |-> doc.rv, turns |-> turns]}
  <2>1. /\ \A w \in todo' \cup late' : w.rv <= mach[w.to].rv
        /\ \A m \in Machines : Landable(m)' => Landable(m) \/ mach[m].grant
    BY <1>2, <1>5, <1>8 DEF VersionInv
  <2>2. VersionInv'
    BY <1>1, <1>2, <1>3, <1>8, <2>1 DEF VersionInv
  <2>3. CoverInv'
    BY <1>2, <1>3, <1>8, <2>1 DEF CoverInv, VersionInv
  <2>4. \A m \in Machines : Quiet(m) => Quiet(m)'
    BY <2>1 DEF Quiet
  <2>5. LateInv'
    BY <1>8, <2>4 DEF LateInv
  <2> QED
    BY <1>4, <2>2, <2>3, <2>5
<1> QED
  BY <1>6, <1>7, <1>8 DEF PublishCluster

\* The invariant holds at first.
LEMMA InitLedger == Init => LedgerInv
<1> SUFFICES ASSUME Init PROVE LedgerInv
  OBVIOUS
<1>1. \A m \in Machines : mach[m].rv = 1 /\ seen[m] = mach[m] /\ cluster.turns[m].rv = 0
  BY DEF Init, NoTurns, NoTurn
<1>2. \A m \in Machines \ Legacy : ~mach[m].grant
  BY DEF Init
<1>3. VersionInv
  BY <1>1 DEF Init, VersionInv
<1>4. CoverInv
  BY <1>1, <1>2 DEF Init, CoverInv, Landable
<1> QED
  BY <1>3, <1>4 DEF Init, LedgerInv, SweepInv, FreshInv, LateInv

\* A step that touches neither an object, a copy nor a write keeps it.
LEMMA StillStep ==
    LedgerInv /\ UNCHANGED <<cluster, mach, lateVars, seen, doc, sweepVars>> => LedgerInv'
<1> SUFFICES ASSUME LedgerInv, UNCHANGED <<cluster, mach, late, lateCluster, seen, doc,
                                            sweeping, fresh, todo>>
             PROVE  LedgerInv'
  BY DEF lateVars, sweepVars
<1>1. \A m : (Landable(m)' <=> Landable(m)) /\ (Quiet(m)' <=> Quiet(m))
  BY DEF Landable, Quiet
<1>2. VersionInv' /\ SweepInv'
  BY DEF LedgerInv, VersionInv, SweepInv
<1>3. CoverInv'
  BY <1>1 DEF LedgerInv, CoverInv
<1>4. FreshInv'
  BY <1>1 DEF LedgerInv, FreshInv
<1>5. LateInv'
  BY <1>1 DEF LedgerInv, LateInv
<1> QED
  BY <1>2, <1>3, <1>4, <1>5 DEF LedgerInv

\* The steps that read: a watch delivers, a sweep begins, reads and aborts, and
\* a new process starts.
LEMMA ReadingSteps ==
    ASSUME TypeOK, LedgerInv
    PROVE  /\ \A m \in Machines : Deliver(m) \/ ReadTurn(m) => LedgerInv'
           /\ DeliverCluster \/ BeginSweep \/ AbortSweep \/ NewConductor => LedgerInv'
<1> USE DEF apiVars, lateVars, copyVars, sweepVars, heartVars
<1>1. ASSUME NEW m \in Machines, Deliver(m) PROVE LedgerInv'
  <2>1. VersionInv' /\ CoverInv' /\ LateInv'
    BY <1>1, CopyStep DEF Deliver, TypeOK
  <2>2. SweepInv' /\ FreshInv'
    BY <1>1 DEF Deliver, LedgerInv, SweepInv, FreshInv
  <2> QED
    BY <2>1, <2>2 DEF LedgerInv
<1>2. ASSUME NEW m \in Machines, ReadTurn(m) PROVE LedgerInv'
  <2>1. /\ UNCHANGED <<cluster, mach, late, lateCluster, doc, sweeping, todo>>
        /\ fresh' = fresh \cup {m}
        /\ \A k \in Machines : seen'[k] = IF k = m THEN mach[k] ELSE seen[k]
        /\ sweeping
    BY <1>2 DEF ReadTurn, TypeOK
  <2>2. /\ VersionInv' /\ CoverInv' /\ LateInv'
        /\ \A k \in Machines : Quiet(k) => Quiet(k)'
    BY <2>1, CopyStep
  <2>3. SweepInv'
    BY <2>1 DEF LedgerInv, SweepInv, VersionInv
  <2>4. ASSUME NEW k \in fresh',
               doc'.rv = cluster'.rv, ~seen'[k].grant, doc'.turns[k].rv # seen'[k].rv
        PROVE  Quiet(k)' /\ cluster'.turns[k].rv # mach'[k].rv
    <3>1. CASE k = m
      <4>1. doc = cluster /\ seen'[k] = mach[k]
        BY <2>1, <2>4, <3>1 DEF LedgerInv, VersionInv
      <4>2. ~Landable(k)
        BY <2>4, <2>1, <3>1, <4>1 DEF LedgerInv, CoverInv
      <4> QED
        BY <2>1, <2>4, <4>1, <4>2 DEF Quiet, Landable
    <3>2. CASE k # m
      <4>1. k \in fresh /\ k \in Machines /\ seen'[k] = seen[k]
        BY <2>1, <3>2 DEF TypeOK
      <4> QED
        BY <2>1, <2>2, <2>4, <4>1 DEF LedgerInv, FreshInv
    <3> QED
      BY <3>1, <3>2
  <2>5. FreshInv'
    BY <2>4 DEF FreshInv
  <2> QED
    BY <2>2, <2>3, <2>5 DEF LedgerInv
<1>3. CASE DeliverCluster
  <2>1. VersionInv' /\ CoverInv' /\ LateInv'
    BY <1>3, CopyStep DEF DeliverCluster
  <2>2. SweepInv' /\ FreshInv'
    BY <1>3 DEF DeliverCluster, LedgerInv, SweepInv, FreshInv
  <2> QED
    BY <2>1, <2>2 DEF LedgerInv
<1>4. CASE BeginSweep
  <2>1. VersionInv' /\ CoverInv' /\ LateInv'
    BY <1>4, CopyStep DEF BeginSweep
  <2>2. SweepInv' /\ FreshInv'
    BY <1>4 DEF BeginSweep, LedgerInv, SweepInv, FreshInv
  <2> QED
    BY <2>1, <2>2 DEF LedgerInv
<1>5. CASE AbortSweep
  <2>1. VersionInv' /\ CoverInv' /\ LateInv'
    BY <1>5, CopyStep DEF AbortSweep
  <2>2. SweepInv' /\ FreshInv'
    BY <1>5 DEF AbortSweep, EndReading, LedgerInv, SweepInv, FreshInv
  <2> QED
    BY <2>1, <2>2 DEF LedgerInv
<1>6. CASE NewConductor
  <2>1. VersionInv' /\ CoverInv' /\ LateInv'
    BY <1>6, CopyStep DEF NewConductor
  <2>2. SweepInv' /\ FreshInv'
    BY <1>6 DEF NewConductor, EndReading, LedgerInv, SweepInv, FreshInv
  <2> QED
    BY <2>1, <2>2 DEF LedgerInv
<1> QED
  BY <1>1, <1>2, <1>3, <1>4, <1>5, <1>6

\* One Machine write of the sweep, however it is answered.
LEMMA SendStep ==
    ASSUME TypeOK, LedgerInv, NEW w \in todo, Send(w)
    PROVE  LedgerInv'
<1>1. /\ w \in Write /\ w.to \in Machines /\ w.rv \in Nat
      /\ ~sweeping /\ fresh = {}
      /\ UNCHANGED <<cluster, lateCluster, doc, sweeping, fresh>>
      /\ todo' = todo \ {w}
  BY DEF Send, TypeOK, Write, LedgerInv, SweepInv
<1>2. CASE /\ Applies(w) /\ Apply(w)
           /\ seen' = [seen EXCEPT ![w.to] = mach'[w.to]]
           /\ UNCHANGED late
  <2> DEFINE r == [rv |-> w.rv + 1, grant |-> w.grant, phase |-> w.phase]
  <2>1. /\ r \in Machine
        /\ r.rv = mach[w.to].rv + 1
        /\ mach' = [mach EXCEPT ![w.to] = r]
        /\ seen' = [seen EXCEPT ![w.to] = r]
    BY <1>1, <1>2 DEF Applies, Apply, Machine, Write, TypeOK
  <2>2. r.grant => Landable(w.to)
    BY <1>1, <1>2 DEF Applies, Landable
  <2> HIDE DEF r
  <2> QED
    BY <1>1, <1>2, <2>1, <2>2, MachStep
<1>3. CASE /\ seen' = [seen EXCEPT ![w.to] = NoCopy]
           /\ late' = late \/ late' = late \cup {w}
           /\ UNCHANGED mach
  <2>1. VersionInv' /\ CoverInv' /\ LateInv'
    BY <1>1, <1>3, CopyStep DEF TypeOK
  <2>2. SweepInv' /\ FreshInv'
    BY <1>1 DEF SweepInv, FreshInv
  <2> QED
    BY <2>1, <2>2 DEF LedgerInv
<1> QED
  BY <1>2, <1>3 DEF Send

\* A late Machine write lands or conflicts, or a machine publishes its status.
LEMMA MachineSteps ==
    ASSUME TypeOK, LedgerInv
    PROVE  /\ \A w \in late : LandLate(w) => LedgerInv'
           /\ \A m \in Machines, phase \in Reports : Report(m, phase) => LedgerInv'
<1> USE DEF copyVars, sweepVars, heartVars
<1>1. ASSUME NEW w \in late, LandLate(w) PROVE LedgerInv'
  <2>1. /\ w \in Write /\ w.to \in Machines
        /\ late' \subseteq late
        /\ UNCHANGED <<cluster, lateCluster, seen, doc, todo, sweeping, fresh>>
    BY <1>1 DEF LandLate, TypeOK, Write
  <2>2. CASE Applies(w) /\ Apply(w)
    <3> DEFINE r == [rv |-> w.rv + 1, grant |-> w.grant, phase |-> w.phase]
    <3>1. /\ r \in Machine
          /\ r.rv = mach[w.to].rv + 1
          /\ mach' = [mach EXCEPT ![w.to] = r]
      BY <2>1, <2>2 DEF Applies, Apply, Machine, Write
    <3>2. r.grant => Landable(w.to)
      BY <2>1, <2>2 DEF Applies, Landable
    <3> HIDE DEF r
    <3> QED
      BY <2>1, <3>1, <3>2, MachStep
  <2>3. CASE UNCHANGED mach
    <3>1. VersionInv' /\ CoverInv' /\ LateInv' /\ \A k \in Machines : Quiet(k) => Quiet(k)'
      BY <2>1, <2>3, CopyStep
    <3>2. SweepInv' /\ FreshInv'
      BY <2>1, <2>3, <3>1 DEF LedgerInv, SweepInv, FreshInv, TypeOK
    <3> QED
      BY <3>1, <3>2 DEF LedgerInv
  <2> QED
    BY <1>1, <2>2, <2>3 DEF LandLate
<1>2. ASSUME NEW m \in Machines, NEW phase \in Reports, Report(m, phase) PROVE LedgerInv'
  <2> DEFINE r == [rv |-> mach[m].rv + 1, grant |-> mach[m].grant, phase |-> phase]
  <2>1. /\ r \in Machine
        /\ r.rv = mach[m].rv + 1
        /\ r.grant => mach[m].grant
        /\ mach' = [mach EXCEPT ![m] = r]
    BY <1>2, FleetAssumption DEF Report, Machine, TypeOK, Phases
  <2>2. UNCHANGED <<cluster, late, lateCluster, seen, doc, todo, sweeping, fresh>>
    BY <1>2 DEF Report, lateVars
  <2> HIDE DEF r
  <2> QED
    BY <2>1, <2>2, MachStep
<1> QED
  BY <1>1, <1>2

\* A whole sweep keeps the invariant.
LEMMA SweepStep ==
    ASSUME TypeOK, LedgerInv, NEW given \in SUBSET Machines, SweepFleet(given)
    PROVE  LedgerInv'
<1>1. /\ sweeping /\ EndReading
      /\ \A m \in Machines : ~NeedsRead(m)
      /\ UNCHANGED <<mach, late, seen>>
      /\ given \in SUBSET Waiting
  BY DEF SweepFleet, Grants
<1>2. given \cup Regranted \in SUBSET Machines
  BY DEF Regranted, Rejoining
<1>3. ASSUME NEW turns \in {DecidedTurns(given), withoutGrants(DecidedTurns(given), given)},
             NEW granted \in SUBSET Machines, PublishCluster(turns, granted)
      PROVE  LedgerInv'
  <2>1. turns \in [Machines -> Entry]
    BY TurnsType
  <2>2. \A m \in Machines : turns[m].rv <= mach[m].rv
    BY DecidedVersions
  <2>3. doc.rv = cluster.rv => \A m \in Machines :
          cluster.turns[m].rv \notin {0, turns[m].rv} => Quiet(m) /\ cluster.turns[m].rv # mach[m].rv
    BY <1>1, MovedTurnsAreQuiet
  <2> QED
    BY <1>1, <1>3, <2>1, <2>2, <2>3, PublishStep
<1>4. CASE PublishCluster(DecidedTurns(given), given \cup Regranted)
  BY <1>2, <1>3, <1>4
<1>5. CASE PublishCluster(withoutGrants(DecidedTurns(given), given), {})
  BY <1>3, <1>5
<1> QED
  BY <1>4, <1>5 DEF SweepFleet

\* Each step keeps the invariant.
LEMMA NextLedger == TypeOK /\ LedgerInv /\ [Next]_vars => LedgerInv'
<1> SUFFICES ASSUME TypeOK, LedgerInv, [Next]_vars PROVE LedgerInv'
  OBVIOUS
<1>1. ASSUME \/ \E m \in Machines : GoSilent(m) \/ Hear(m) \/ GrowOverdue(m)
             \/ Judge
             \/ \E m \in Machines : GoDown(m) \/ Boot(m)
             \/ \E r \in Requests : File(r) \/ Close(r)
             \/ UNCHANGED vars
      PROVE  LedgerInv'
  <2>1. UNCHANGED <<cluster, mach, lateVars, seen, doc, sweepVars>>
    BY <1>1 DEF GoSilent, Hear, GrowOverdue, Judge, GoDown, Boot, File, Close, vars,
                apiVars, copyVars
  <2> QED
    BY <2>1, StillStep
<1>2. CASE Conductor
  BY <1>1, <1>2, ReadingSteps, SendStep, SweepStep, FleetAssumption DEF Conductor
<1>3. CASE Environment
  BY <1>1, <1>3, MachineSteps, LateClusterStep, EditStep, FleetAssumption DEF Environment
<1> QED
  BY <1>1, <1>2, <1>3 DEF Next

\* The ledger's inductive invariant holds for every fleet and every bound.
THEOREM LedgerInvariant == Spec => []LedgerInv
<1>1. Init => TypeOK /\ LedgerInv
  BY InitType, InitLedger
<1>2. TypeOK /\ LedgerInv /\ [Next]_vars => (TypeOK /\ LedgerInv)'
  BY NextType, NextLedger
<1> QED
  BY <1>1, <1>2, PTL DEF Spec

\* A grant, on a Machine or in flight, always has an entry in the ledger
\* (rollout.go: "An entry counts against the budget until no grant that it
\* covers can land").
THEOREM GrantsAreCovered == Spec => []GrantsCovered
<1>1. TypeOK /\ LedgerInv => GrantsCovered
  <2> SUFFICES ASSUME TypeOK, LedgerInv, NEW m \in Machines \ Legacy, cluster.turns[m].rv = 0
               PROVE  /\ ~mach[m].grant
                      /\ \A w \in todo \cup late : w.to = m /\ w.grant => w.rv # mach[m].rv
    BY DEF GrantsCovered
  <2>1. ~mach[m].grant /\ mach[m].rv > 0
    BY DEF LedgerInv, CoverInv, VersionInv
  <2>2. ~Landable(m)
    BY <2>1 DEF LedgerInv, CoverInv
  <2> QED
    BY <2>1, <2>2 DEF Landable
<1> QED
  BY <1>1, TypeCorrect, LedgerInvariant, PTL
=============================================================================
