----------------------------- MODULE RolloutInv -----------------------------
(***************************************************************************)
(* Why the ledger keeps the budget: the inductive invariant behind         *)
(* GrantsCovered, BudgetKept and OneLeaderTurn.                            *)
(*                                                                         *)
(* The argument.  Every write names a version, and versions only grow, so  *)
(* a grant can only appear on a Machine through a write that names its     *)
(* current version.  The entry that covers such a write records exactly    *)
(* that version until the grant lands.  So an entry at another version,    *)
(* on a Machine without a grant, covers nothing any more: the Machine is   *)
(* quiet, and stays quiet until a new entry is stored.  Everything that    *)
(* drops or moves an entry (a sweep, or a Cluster write of an earlier      *)
(* conductor that lands late) drops or moves the entry of a quiet Machine. *)
(*                                                                         *)
(* CountInv adds what NewTurnsCountEveryoneOut needs: a decision sees each *)
(* grant, those from before the ledger too, and each dead machine.         *)
(***************************************************************************)
EXTENDS Rollout

\* A grant that the API server would accept is on its way.
Landable(m) ==
    \E w \in todo \cup late : w.to = m /\ w.grant /\ w.rv = mach[m].rv

\* Nobody holds, sees, or can still write a grant of m.
Quiet(m) == ~mach[m].grant /\ ~seen[m].grant /\ ~Landable(m)

\* Copies, entries and writes are as old as, or older than, what they name,
\* and a copy at the current version is the object.
VersionInv ==
    /\ cluster.rv > 0
    /\ doc.rv <= cluster.rv
    /\ doc.rv = cluster.rv => doc = cluster
    /\ \A m \in Machines :
         /\ mach[m].rv > 0
         /\ seen[m].rv <= mach[m].rv
         /\ seen[m].rv = mach[m].rv => seen[m] = mach[m]
         /\ cluster.turns[m].rv <= mach[m].rv
         /\ doc.turns[m].rv <= mach[m].rv
    /\ \A w \in todo \cup late : w.rv <= mach[w.to].rv
    /\ \A w \in lateCluster :
         /\ w.rv <= cluster.rv
         /\ \A m \in Machines : w.turns[m].rv <= mach[m].rv

\* A sweep reads with no write of its own outstanding.
SweepInv ==
    /\ sweeping => /\ todo = {}
                   /\ doc.rv # 0
                   /\ \A m \in Machines : seen[m].rv # 0
    /\ ~sweeping => fresh = {}

\* An entry covers every grant, and names the version of a grant to come.  A
\* grant from before the ledger has no entry, and the copy shows it.
CoverInv ==
    \A m \in Machines :
        /\ (mach[m].grant \/ seen[m].grant) /\ m \notin Legacy => cluster.turns[m].rv # 0
        /\ mach[m].grant /\ seen[m].rv # 0 => cluster.turns[m].rv # 0 \/ seen[m].grant
        /\ Landable(m) /\ ~mach[m].grant => cluster.turns[m].rv = mach[m].rv
        /\ doc.turns[m].rv = mach[m].rv => cluster.turns[m].rv = mach[m].rv

\* What readTurns finds at another version than the entry's is quiet.
FreshInv ==
    \A m \in fresh :
        doc.rv = cluster.rv /\ ~seen[m].grant /\ doc.turns[m].rv # seen[m].rv =>
            Quiet(m) /\ cluster.turns[m].rv # mach[m].rv

\* A late Cluster write that can land drops or moves only the entries of quiet
\* Machines.
LateInv ==
    \A w \in lateCluster : \A m \in Machines :
        w.rv = cluster.rv /\ cluster.turns[m].rv \notin {0, w.turns[m].rv} =>
            Quiet(m) /\ cluster.turns[m].rv # mach[m].rv

\* The inductive invariant of the ledger: at every step of a sweep, however
\* many Cluster and Machine writes are in flight, an entry of the ledger
\* (rollout.go, readTurns, publishClusterStatus) covers each grant that exists
\* or can still land, and only entries that cover nothing are dropped.
LedgerInv == VersionInv /\ SweepInv /\ CoverInv /\ FreshInv /\ LateInv

\* No budget is exceeded, and no two leaders hold a turn, in a ledger.
Fits(turns) ==
    /\ \A b \in Budgets :
         Cardinality(Selects[b] \cap (Entries(turns) \ Legacy)) <= MaxUnavailable[b]
    /\ \A m, n \in (Entries(turns) \ Legacy) \cap Leaders : m = n

\* The stored ledger fits, and so does each late one that can still land.
FitInv ==
    /\ Fits(cluster.turns)
    /\ \A w \in lateCluster : w.rv = cluster.rv => Fits(w.turns)

\* Once the record of the heartbeats can be judged by, the machines that were
\* down when it began read silent.
HeartInv == dead \cap up = {} /\ (~listening => dead \subseteq silent)

\* What a decision rests on when it counts the machines that are out: the copy or
\* the ledger shows each grant, and the record shows each machine that was down.
CountInv == LedgerInv /\ HeartInv
=============================================================================
