------------------------------- MODULE Rollout -------------------------------
(***************************************************************************)
(* The rollout conductor of cluster-operator: the program that hands out   *)
(* reboot turns to the machines of a fleet so that no disruption budget is *)
(* exceeded and never two leaders are out at once.                         *)
(*                                                                         *)
(* The conductor keeps its decisions in the API server alone.  A turn is   *)
(* an entry of the grant ledger (Cluster status.rebootTurns), added by a   *)
(* compare-and-swap on the Cluster, and then reported by a RebootApproved  *)
(* condition on the Machine (the grant).  This module models one sweep as  *)
(* separate reads, one Cluster write and one write per Machine, each of    *)
(* which races with the machines' own operators, with people, and with     *)
(* writes that an earlier conductor sent and that land late.               *)
(*                                                                         *)
(* The conductor reads through copies that its watches keep: seen, doc and *)
(* reqs are older values of mach, cluster and asked.                       *)
(***************************************************************************)
EXTENDS Naturals, FiniteSets

CONSTANTS
    Machines,           \* the Machines of the fleet
    Leaders,            \* the Machines that spec.leaders names
    Requests,           \* the names of Disruptions
    For,                \* For[r] is the Machine that the Disruption r names
    Rank,               \* the name order of the Machines
    Budgets,            \* the MachineDisruptionBudgets, the default one included
    Selects,            \* Selects[b] is the set of Machines that b selects
    MaxUnavailable,     \* MaxUnavailable[b] is b's limit
    Legacy,             \* Machines that start with a grant that no entry names
    Failing,            \* Machines that may go down, and whose turn may stall
    Reports,            \* the phases that a machine's own operator may publish
    MaxVersion,         \* bound: the last resourceVersion of each Machine
    MaxClusterVersion,  \* bound: the last resourceVersion of the Cluster
    MaxLate,            \* bound: writes in flight that nobody waits for
    MaxTick             \* bound: the last second of a request's creation

ASSUME FleetAssumption ==
    /\ IsFiniteSet(Machines)
    /\ Leaders \subseteq Machines
    /\ Legacy \subseteq Machines
    /\ Failing \subseteq Machines
    /\ Reports \subseteq {"Ready", "Downloading", "Updating"}
    /\ For \in [Requests -> Machines]
    /\ Rank \in [Machines -> Nat]
    /\ \A m, n \in Machines : Rank[m] = Rank[n] => m = n

ASSUME BudgetAssumption ==
    /\ Selects \in [Budgets -> SUBSET Machines]
    /\ MaxUnavailable \in [Budgets -> Nat]

ASSUME BoundAssumption ==
    /\ MaxVersion \in [Machines -> Nat]
    /\ MaxClusterVersion \in Nat
    /\ MaxLate \in Nat
    /\ MaxTick \in Nat

VARIABLES
    \* The API server.
    cluster,      \* the Cluster: its resourceVersion and status.rebootTurns
    mach,         \* the Machines: resourceVersion, RebootApproved, phase
    asked,        \* per Disruption, when it was created; 0 while it is not open
    tick,         \* the current second
    \* The machines themselves.
    up,           \* the machines whose operators renew their heartbeat Leases
    \* Writes whose sender stopped waiting for the answer.
    late,         \* Machine status writes in flight
    lateCluster,  \* Cluster status writes in flight
    \* The conductor's process.
    seen,         \* its copy of each Machine
    doc,          \* its copy of the Cluster
    reqs,         \* the Disruptions that this sweep read
    sweeping,     \* a sweep has listed the Machines and not yet decided
    fresh,        \* the Machines this sweep read from the API server
    todo,         \* the Machine writes that this sweep has still to send
    silent,       \* the machines whose Lease it has not seen change in time
    listening,    \* its record of the heartbeats is too young to judge by
    dead,         \* the machines that were down when its record began, and still are
    overdue       \* the machines whose grant is older than rolloutStallAfter

apiVars == <<cluster, mach, asked, tick>>
lateVars == <<late, lateCluster>>
copyVars == <<seen, doc, reqs>>
sweepVars == <<sweeping, fresh, todo>>
heartVars == <<silent, listening, dead>>
vars == <<apiVars, up, lateVars, copyVars, sweepVars, heartVars, overdue>>

-----------------------------------------------------------------------------
\* The objects.

Phases == {"Ready", "Downloading", "Updating", "Lost"}
Entry == [rv : Nat, ds : SUBSET Requests]
Machine == [rv : Nat, grant : BOOLEAN, phase : Phases]
Cluster == [rv : Nat, turns : [Machines -> Entry]]
Write == [to : Machines, rv : Nat, grant : BOOLEAN, phase : Phases]

\* Version 0 stands for an absent object: an entry that the ledger does not
\* hold, or a copy that the process must read again before it uses it.
NoTurn == [rv |-> 0, ds |-> {}]
NoTurns == [m \in Machines |-> NoTurn]
NoCopy == [rv |-> 0, grant |-> FALSE, phase |-> "Lost"]
NoRequests == [r \in Requests |-> 0]
NoDoc == [rv |-> 0, turns |-> NoTurns]

\* The Machines that a ledger names.
Entries(turns) == {m \in Machines : turns[m].rv # 0}

TypeOK ==
    /\ cluster \in Cluster
    /\ mach \in [Machines -> Machine]
    /\ asked \in [Requests -> Nat]
    /\ tick \in Nat
    /\ up \subseteq Machines
    /\ late \subseteq Write
    /\ lateCluster \subseteq Cluster
    /\ seen \in [Machines -> Machine]
    /\ doc \in Cluster
    /\ reqs \in [Requests -> Nat]
    /\ sweeping \in BOOLEAN
    /\ fresh \subseteq Machines
    /\ todo \subseteq Write
    /\ silent \subseteq Machines
    /\ listening \in BOOLEAN
    /\ dead \subseteq Machines
    /\ overdue \subseteq Machines

-----------------------------------------------------------------------------
\* The decision, over the copies.

available(phase) == phase \in {"Ready", "Downloading"}

\* A machine's claim while its heartbeat is fresh.  Silence reads Lost, except
\* that the silence of a machine that was told to reboot reads Updating until
\* its grant is old enough to be a stall.
effectivePhase(m) ==
    IF m \notin silent THEN seen[m].phase
    ELSE IF seen[m].grant /\ m \notin overdue THEN "Updating" ELSE "Lost"

Up(m) == available(effectivePhase(m))

open(m) == {r \in Requests : For[r] = m /\ reqs[r] # 0}

wantsTurn(m) == open(m) # {}

downloading(m) == seen[m].phase = "Downloading"

\* When the machine's oldest open request was made.
oldestOpen(m) ==
    CHOOSE t \in {reqs[r] : r \in open(m)} : \A r \in open(m) : t <= reqs[r]

\* An entry without a grant outlives its version while its turn is not over.
holdsEntry(m) ==
    /\ doc.turns[m].ds # {}
    /\ Up(m) => doc.turns[m].ds \cap open(m) # {}

\* Mutant: the entry is freed although its grant can still land.
FreedTooEarly(m) ==
    /\ doc.turns[m].rv # 0
    /\ ~seen[m].grant
    /\ ~holdsEntry(m)

\* No grant that the entry covers can land, and nothing else holds the entry.
Freed(m) ==
    /\ doc.turns[m].rv # 0
    /\ ~seen[m].grant
    /\ seen[m].rv # doc.turns[m].rv
    /\ ~holdsEntry(m)

\* The entry that the ledger holds stays; a grant that no entry names is
\* adopted.  Either way the machine's open requests join the entry.
Keeps(m) == doc.turns[m].rv # 0 /\ ~Freed(m)
Recorded(m) == Keeps(m) \/ seen[m].grant
TurnVersion(m) == IF Keeps(m) THEN doc.turns[m].rv ELSE seen[m].rv
TurnRequests(m) == (IF Keeps(m) THEN doc.turns[m].ds ELSE {}) \cup open(m)

Pending(m) == Recorded(m) /\ ~seen[m].grant

\* Mutant: the entries whose grant is still to be written are not counted.
OccupyingByGrant == {m \in Machines : seen[m].grant \/ ~Up(m)}

Occupying == {m \in Machines : Recorded(m) \/ ~Up(m)}

Spent == {m \in Machines : seen[m].grant /\ Up(m) /\ ~wantsTurn(m)}
Stalled == {m \in Machines : seen[m].grant /\ ~Up(m) /\ m \in overdue}

\* The entry outlived its grant, and the machine asks for a turn again.
Rejoining ==
    {m \in Machines : /\ Pending(m) /\ Up(m) /\ wantsTurn(m)
                      /\ seen[m].rv # TurnVersion(m)}

\* The entry's grant is still to be written, at the version it recorded.
Confirmed ==
    IF listening THEN {}
    ELSE {m \in Machines : Pending(m) /\ Up(m)} \ Rejoining

Revoked == IF listening THEN {} ELSE Spent

DeclaredLost ==
    {m \in Machines : effectivePhase(m) = "Lost" /\ seen[m].phase # "Lost"}

\* Mutant: a young record of the heartbeats holds nothing back.
HeldByStallsOnly == Stalled # {}

\* No machine takes a grant while a granted machine is stalled, or while the
\* heartbeats cannot be judged.
Held == Stalled # {} \/ listening

Regranted == IF Held THEN {} ELSE {m \in Rejoining : ~downloading(m)}

Waiting ==
    {m \in Machines : m \notin Occupying /\ wantsTurn(m) /\ ~downloading(m)}

LeaderBusy == (Occupying \ Stalled) \cap Leaders # {}
LeaderAdvancing ==
    \E m \in Leaders : Recorded(m) /\ m \notin Spent /\ m \notin Stalled

\* While the applied system-pod template lags the fleet's target, a leader
\* that can take or that holds a turn goes before the workers.
HoldWorkers(lagging) ==
    /\ lagging
    /\ \/ Waiting \cap Leaders # {} /\ ~LeaderBusy
       \/ LeaderAdvancing

\* Mutant: the order is not strict.
BeforeOrEqual(m, n) ==
    \/ oldestOpen(m) < oldestOpen(n)
    \/ /\ oldestOpen(m) = oldestOpen(n)
       /\ \/ m \notin Leaders /\ n \in Leaders
          \/ (m \in Leaders <=> n \in Leaders) /\ Rank[m] <= Rank[n]

\* The queue: the oldest request first, then workers before leaders, then
\* the name order.
Before(m, n) ==
    \/ oldestOpen(m) < oldestOpen(n)
    \/ /\ oldestOpen(m) = oldestOpen(n)
       /\ \/ m \notin Leaders /\ n \in Leaders
          \/ (m \in Leaders <=> n \in Leaders) /\ Rank[m] < Rank[n]

\* Every budget that selects m has room when the machines of out are out.
HasRoom(m, out) ==
    \A b \in Budgets : m \in Selects[b] =>
        Cardinality(Selects[b] \cap out) < MaxUnavailable[b]

\* Mutant: the walk forgets the leader that it has just given a turn.
AdmittedByBudget(m, ahead, lagging) ==
    /\ ~Held
    /\ m \notin Leaders => ~HoldWorkers(lagging)
    /\ m \in Leaders => ~LeaderBusy
    /\ HasRoom(m, Occupying \cup ahead)

\* Whether m takes a turn once the machines of ahead, which precede it in the
\* queue, took theirs.
Admitted(m, ahead, lagging) ==
    /\ ~Held
    /\ m \notin Leaders => ~HoldWorkers(lagging)
    /\ m \in Leaders => ~LeaderBusy /\ ahead \cap Leaders = {}
    /\ HasRoom(m, Occupying \cup ahead)

\* The machines that one walk over the queue gives a turn.
Grants(given, lagging) ==
    /\ given \subseteq Waiting
    /\ \A m \in Waiting :
         m \in given <=> Admitted(m, {g \in given : Before(g, m)}, lagging)

\* The ledger that the sweep writes.
DecidedTurns(given) ==
    [m \in Machines |->
        CASE m \in given     -> [rv |-> seen[m].rv, ds |-> open(m)]
          [] m \in Regranted -> [rv |-> seen[m].rv, ds |-> TurnRequests(m)]
          [] m \notin given /\ m \notin Regranted /\ Recorded(m)
                             -> [rv |-> TurnVersion(m), ds |-> TurnRequests(m)]
          [] OTHER           -> NoTurn]

\* A sweep that cannot read the applied template withholds every grant, and
\* takes the withheld turns out of the ledger.
withoutGrants(turns, given) ==
    [m \in Machines |-> IF m \in given \cup Regranted THEN NoTurn ELSE turns[m]]

\* Mutant: a machine that is declared lost is written with its condition's status word.
MarksUnknown(granted, stored) ==
    {[to |-> m, rv |-> seen[m].rv, grant |-> seen[m].grant, phase |-> "Unknown"] :
        m \in DeclaredLost}

\* Mutant: a grant is sent whether or not the ledger that names it was stored.
GrantsAnyway(granted, stored) ==
    {[to |-> m, rv |-> seen[m].rv, grant |-> TRUE, phase |-> seen[m].phase] :
        m \in granted \cup Confirmed}

\* The Machine writes of the sweep, given the grants it decided and the ledger
\* that the API server stored.  Each one names the version of the copy.
MachineWrites(granted, stored) ==
    {[to |-> m, rv |-> seen[m].rv, grant |-> TRUE, phase |-> seen[m].phase] :
        m \in {n \in granted \cup Confirmed : stored[n].rv = seen[n].rv}}
    \cup
    {[to |-> m, rv |-> seen[m].rv, grant |-> FALSE, phase |-> seen[m].phase] :
        m \in Revoked}
    \cup
    {[to |-> m, rv |-> seen[m].rv, grant |-> seen[m].grant, phase |-> "Lost"] :
        m \in DeclaredLost}

-----------------------------------------------------------------------------
Init ==
    /\ cluster = [rv |-> 1, turns |-> NoTurns]
    /\ mach = [m \in Machines |-> [rv |-> 1, grant |-> m \in Legacy, phase |-> "Ready"]]
    /\ asked = NoRequests
    /\ tick = 1
    /\ up = Machines
    /\ late = {}
    /\ lateCluster = {}
    /\ seen = mach
    /\ doc = cluster
    /\ reqs = NoRequests
    /\ sweeping = FALSE
    /\ fresh = {}
    /\ todo = {}
    /\ silent = {}
    /\ listening = TRUE
    /\ dead = {}
    /\ overdue = {}

-----------------------------------------------------------------------------
\* The API server applies a status write that names the current version.

Applies(w) == w.rv = mach[w.to].rv /\ w.rv < MaxVersion[w.to]

Apply(w) ==
    /\ mach' = [mach EXCEPT ![w.to] =
                  [rv |-> w.rv + 1, grant |-> w.grant, phase |-> w.phase]]
    /\ overdue' = IF w.grant = mach[w.to].grant THEN overdue ELSE overdue \ {w.to}

-----------------------------------------------------------------------------
\* The conductor.

\* The watches deliver an object, or a read of a copy that a failed write
\* invalidated goes to the API server.
Deliver(m) ==
    /\ ~sweeping /\ todo = {}
    /\ seen[m] # mach[m]
    /\ seen' = [seen EXCEPT ![m] = mach[m]]
    /\ UNCHANGED <<apiVars, up, lateVars, doc, reqs, sweepVars, heartVars, overdue>>

DeliverCluster ==
    /\ ~sweeping /\ todo = {}
    /\ doc # cluster
    /\ doc' = cluster
    /\ UNCHANGED <<apiVars, up, lateVars, seen, reqs, sweepVars, heartVars, overdue>>

\* A sweep lists the fleet and the Disruptions.
BeginSweep ==
    /\ ~sweeping /\ todo = {}
    /\ doc.rv # 0
    /\ \A m \in Machines : seen[m].rv # 0
    /\ sweeping' = TRUE
    /\ reqs' = asked
    /\ UNCHANGED <<apiVars, up, lateVars, seen, doc, fresh, todo, heartVars, overdue>>

\* readTurns: an entry whose Machine shows no grant in the copy.
NeedsRead(m) == doc.turns[m].rv # 0 /\ ~seen[m].grant /\ m \notin fresh

ReadTurn(m) ==
    /\ sweeping
    /\ NeedsRead(m)
    /\ seen' = [seen EXCEPT ![m] = mach[m]]
    /\ fresh' = fresh \cup {m}
    /\ UNCHANGED <<apiVars, up, lateVars, doc, reqs, sweeping, todo, heartVars, overdue>>

\* What a sweep read does not outlive it.
EndReading ==
    /\ sweeping' = FALSE
    /\ fresh' = {}
    /\ reqs' = NoRequests

\* A read that fails ends the sweep.
AbortSweep ==
    /\ sweeping
    /\ EndReading
    /\ UNCHANGED <<apiVars, up, lateVars, seen, doc, todo, heartVars, overdue>>

\* The sweep decides, and writes the Cluster's status before any Machine.
\* The four answers: nothing changed, so nothing is written; the API server
\* stored the status; the write failed, by a conflict or before it was sent; no
\* answer arrived, and the write can still land.
PublishCluster(turns, granted) ==
    \/ /\ turns = doc.turns
       /\ todo' = MachineWrites(granted, doc.turns)
       /\ UNCHANGED <<cluster, doc, lateCluster>>
    \/ /\ doc.rv = cluster.rv
       /\ cluster.rv < MaxClusterVersion
       /\ cluster' = [rv |-> cluster.rv + 1, turns |-> turns]
       /\ doc' = cluster'
       /\ todo' = MachineWrites(granted, turns)
       /\ UNCHANGED lateCluster
    \/ /\ doc' = NoDoc
       /\ todo' = MachineWrites(granted, NoTurns)
       /\ UNCHANGED <<cluster, lateCluster>>
    \/ /\ Cardinality(lateCluster) < MaxLate
       /\ lateCluster' = lateCluster \cup {[rv |-> doc.rv, turns |-> turns]}
       /\ doc' = NoDoc
       /\ todo' = MachineWrites(granted, NoTurns)
       /\ UNCHANGED cluster

SweepFleet(given) ==
    /\ sweeping
    /\ \A m \in Machines : ~NeedsRead(m)
    /\ \/ \E lagging \in BOOLEAN :
            /\ Grants(given, lagging)
            /\ PublishCluster(DecidedTurns(given), given \cup Regranted)
       \/ /\ Grants(given, FALSE)
          /\ PublishCluster(withoutGrants(DecidedTurns(given), given), {})
    /\ EndReading
    /\ UNCHANGED <<mach, asked, tick, up, late, seen, heartVars, overdue>>

\* carryOutRollout and markLost: one Machine write of the sweep.  A write that
\* fails, or that nobody answered, leaves the process without a copy.
Send(w) ==
    /\ todo' = todo \ {w}
    /\ \/ /\ Applies(w)
          /\ Apply(w)
          /\ seen' = [seen EXCEPT ![w.to] = mach'[w.to]]
          /\ UNCHANGED late
       \/ /\ seen' = [seen EXCEPT ![w.to] = NoCopy]
          /\ UNCHANGED <<mach, late, overdue>>
       \/ /\ Cardinality(late) < MaxLate
          /\ late' = late \cup {w}
          /\ seen' = [seen EXCEPT ![w.to] = NoCopy]
          /\ UNCHANGED <<mach, overdue>>
    /\ UNCHANGED <<cluster, asked, tick, up, lateCluster, doc, reqs, sweeping, fresh, heartVars>>

\* The process loses the lead or ends, at any point, and a new one starts.
\* Its watches list every object, and its record of the heartbeats begins.
NewConductor ==
    /\ seen' = mach
    /\ doc' = cluster
    /\ EndReading
    /\ todo' = {}
    /\ silent' = {}
    /\ listening' = TRUE
    /\ dead' = Machines \ up
    /\ UNCHANGED <<apiVars, up, lateVars, overdue>>

\* The heartbeats, on the process's own clock.
GoSilent(m) ==
    /\ m \notin up /\ m \notin silent
    /\ silent' = silent \cup {m}
    /\ UNCHANGED <<apiVars, up, lateVars, copyVars, sweepVars, listening, dead, overdue>>

Hear(m) ==
    /\ m \in up /\ m \in silent
    /\ silent' = silent \ {m}
    /\ UNCHANGED <<apiVars, up, lateVars, copyVars, sweepVars, listening, dead, overdue>>

\* Mutant: the record is judged by before HeartbeatStaleAfter has passed.
JudgeTooEarly ==
    /\ listening
    /\ listening' = FALSE
    /\ UNCHANGED <<apiVars, up, lateVars, copyVars, sweepVars, silent, dead, overdue>>

\* HeartbeatStaleAfter has passed since the first read of the Leases, so every
\* Lease that did not change since then reads stale.
Judge ==
    /\ listening
    /\ dead \subseteq silent
    /\ listening' = FALSE
    /\ UNCHANGED <<apiVars, up, lateVars, copyVars, sweepVars, silent, dead, overdue>>

\* A grant grows older than rolloutStallAfter.
GrowOverdue(m) ==
    /\ mach[m].grant /\ m \notin overdue
    /\ overdue' = overdue \cup {m}
    /\ UNCHANGED <<apiVars, up, lateVars, copyVars, sweepVars, heartVars>>

Conductor ==
    \/ \E m \in Machines : Deliver(m)
    \/ DeliverCluster
    \/ BeginSweep
    \/ \E m \in Machines : ReadTurn(m)
    \/ AbortSweep
    \/ \E given \in SUBSET Machines : SweepFleet(given)
    \/ \E w \in todo : Send(w)
    \/ NewConductor
    \/ \E m \in Machines : GoSilent(m)
    \/ \E m \in Machines : Hear(m)
    \/ Judge
    \/ \E m \in Failing : GrowOverdue(m)

-----------------------------------------------------------------------------
\* Everybody else who writes the API.

\* A write whose sender gave up on it reaches the API server.
LandLate(w) ==
    /\ late' = late \ {w}
    /\ IF Applies(w) THEN Apply(w) ELSE UNCHANGED <<mach, overdue>>
    /\ UNCHANGED <<cluster, asked, tick, up, lateCluster, copyVars, sweepVars, heartVars>>

LandLateCluster(w) ==
    /\ lateCluster' = lateCluster \ {w}
    /\ cluster' = IF w.rv = cluster.rv /\ w.rv < MaxClusterVersion
                    THEN [rv |-> w.rv + 1, turns |-> w.turns]
                    ELSE cluster
    /\ UNCHANGED <<mach, asked, tick, up, late, copyVars, sweepVars, heartVars, overdue>>

\* A machine's own operator publishes its status, and carries the grant along.
Report(m, phase) ==
    /\ m \in up
    /\ mach[m].rv < MaxVersion[m]
    /\ mach' = [mach EXCEPT ![m] = [rv |-> mach[m].rv + 1,
                                    grant |-> mach[m].grant, phase |-> phase]]
    /\ UNCHANGED <<cluster, asked, tick, up, lateVars, copyVars, sweepVars, heartVars, overdue>>

\* A machine goes down, for its reboot or by a failure, and comes back.
GoDown(m) ==
    /\ m \in up
    /\ up' = up \ {m}
    /\ UNCHANGED <<apiVars, lateVars, copyVars, sweepVars, heartVars, overdue>>

Boot(m) ==
    /\ m \notin up
    /\ up' = up \cup {m}
    /\ dead' = dead \ {m}
    /\ UNCHANGED <<apiVars, lateVars, copyVars, sweepVars, silent, listening, overdue>>

\* A Disruption is filed or approved; it completes, is withdrawn or loses its
\* approval.
File(r) ==
    /\ asked[r] = 0
    /\ tick' \in {tick, tick + 1} \cap (0 .. MaxTick)
    /\ asked' = [asked EXCEPT ![r] = tick']
    /\ UNCHANGED <<cluster, mach, up, lateVars, copyVars, sweepVars, heartVars, overdue>>

Close(r) ==
    /\ asked[r] # 0
    /\ asked' = [asked EXCEPT ![r] = 0]
    /\ UNCHANGED <<cluster, mach, tick, up, lateVars, copyVars, sweepVars, heartVars, overdue>>

\* A person edits the Cluster.
EditCluster ==
    /\ cluster.rv < MaxClusterVersion
    /\ cluster' = [cluster EXCEPT !.rv = @ + 1]
    /\ UNCHANGED <<mach, asked, tick, up, lateVars, copyVars, sweepVars, heartVars, overdue>>

Environment ==
    \/ \E w \in late : LandLate(w)
    \/ \E w \in lateCluster : LandLateCluster(w)
    \/ \E m \in Machines, phase \in Reports : Report(m, phase)
    \/ \E m \in Failing : GoDown(m)
    \/ \E m \in Machines : Boot(m)
    \/ \E r \in Requests : File(r)
    \/ \E r \in Requests : Close(r)
    \/ EditCluster

Next == Conductor \/ Environment

Spec == Init /\ [][Next]_vars

-----------------------------------------------------------------------------
\* What the ledger promises.

\* A grant on a Machine, and a grant write that the API server would still
\* accept, whoever sent it and however late, is covered by an entry of the
\* ledger (rollout.go: "An entry counts against the budget until no grant that
\* it covers can land").  A grant from before the ledger is the exception.
GrantsCovered ==
    \A m \in Machines \ Legacy :
        \/ cluster.turns[m].rv # 0
        \/ /\ ~mach[m].grant
           /\ \A w \in todo \cup late :
                w.to = m /\ w.grant => w.rv # mach[m].rv

\* However many conductors came and went, and whatever they left in flight, the
\* ledger never holds more turns of a budget than the budget allows.
BudgetKept ==
    \A b \in Budgets :
        Cardinality(Selects[b] \cap (Entries(cluster.turns) \ Legacy)) <= MaxUnavailable[b]

\* The floor that no budget overrides: one leader holds a turn at a time.
OneLeaderTurn ==
    \A m, n \in (Entries(cluster.turns) \ Legacy) \cap Leaders : m = n

\* The ledger and the grants, wherever the conductors and their writes are, are
\* those of one atomic ledger: turns change together and within the limits, a
\* grant follows its turn, and a turn outlives its grant (rollout.go: "the budget
\* is one compare-and-swap on one object").
Holders == Entries(cluster.turns) \ Legacy
Granted == {m \in Machines \ Legacy : mach[m].grant}
Ledger == INSTANCE TurnLedger WITH holders <- Holders, granted <- Granted
OneLedger == Ledger!Spec

\* A turn that a sweep adds counts every machine that holds a turn or a grant,
\* and every machine that was already down when the conductor's record of the
\* heartbeats began (heartbeats.go: without the hold, a new leader "could count
\* that dead machine as up and grant a second leader its turn").
NewTurn(w) ==
    /\ todo = {} /\ w.grant /\ ~seen[w.to].grant
    /\ cluster.turns[w.to].rv = 0 /\ cluster'.turns[w.to].rv # 0

NewTurnsCountEveryoneOut ==
    [][ \A w \in todo' : NewTurn(w) =>
          LET out == Entries(cluster'.turns) \cup dead \cup {m \in Machines : mach[m].grant}
          IN  /\ \A b \in Budgets : w.to \in Selects[b] =>
                    Cardinality(Selects[b] \cap out) <= MaxUnavailable[b]
              /\ w.to \in Leaders => out \cap Leaders = {w.to} ]_vars

\* A sweep that finds one of an entry's requests open leaves the entry in the
\* ledger (requests.go, holdsEntry: an entry stays when "one of the entry's
\* requests is still open", because a machine-operator that acts on the entry
\* "needs the entry to stay for as long as it works on the turn").
HeldEntriesStay ==
    [][ \A m \in Entries(cluster.turns) :
          cluster.turns[m].ds \cap open(m) # {} => m \in Entries(cluster'.turns) ]_vars
=============================================================================
