----------------------------- MODULE RolloutWalk -----------------------------
(***************************************************************************)
(* The walk over the queue as the code takes it: two name-sorted lists,    *)
(* one after the other, a stable sort by the oldest request, and then one  *)
(* machine after the other, with the leader flag and the budget book as    *)
(* they stand.  Rollout states the choice that the walk makes as a set     *)
(* (Grants); DecisionIsTheWalk says that the two are the same.             *)
(*                                                                         *)
(* The sorts are chosen by what a sort returns, and the loop is a function *)
(* of the place in the queue, so that both can be reasoned about.          *)
(***************************************************************************)
EXTENDS Rollout, Sequences

\* The elements of S, each one before those that R says it precedes.
Arranged(S, R) ==
    CHOOSE q \in [1 .. Cardinality(S) -> S] :
        \A i, j \in 1 .. Cardinality(S) : i < j => <<q[i], q[j]>> \in R

sortedByName(S) == Arranged(S, {p \in S \X S : Rank[p[1]] < Rank[p[2]]})

workers == Waiting \ Leaders
leaders == Waiting \cap Leaders

\* slices.Concat(workers, leaders), before the stable sort.
listed == sortedByName(workers) \o sortedByName(leaders)
place ==
    LET list == listed
    IN  [m \in Waiting |-> CHOOSE i \in DOMAIN list : list[i] = m]

\* The comparison of the stable sort: the oldest request, then workers first.
sortsBefore(m, n) ==
    \/ oldestOpen(m) < oldestOpen(n)
    \/ oldestOpen(m) = oldestOpen(n) /\ m \notin leaders /\ n \in leaders

\* A stable sort leaves equal elements in the places that they had.
queue ==
    LET at == place
    IN  Arranged(Waiting, {p \in Waiting \X Waiting :
                              \/ sortsBefore(p[1], p[2])
                              \/ ~sortsBefore(p[2], p[1]) /\ at[p[1]] < at[p[2]]})

\* The leader flag and the budget book when the walk begins (newBudgetBook).
Opened ==
    [given |-> {}, leaderBusy |-> LeaderBusy,
     out |-> [b \in Budgets |-> Selects[b] \cap Occupying]]

\* Some budget that selects m has no room in the book (refusal).
refuses(book, m) ==
    \E b \in Budgets : m \in Selects[b] /\ Cardinality(book.out[b]) >= MaxUnavailable[b]

\* The machine waits on: one case of the loop's switch, or the book's refusal.
Waits(book, m, lagging) ==
    \/ m \notin leaders /\ HoldWorkers(lagging)
    \/ Held
    \/ m \in leaders /\ book.leaderBusy
    \/ refuses(book, m)

\* give: the turn, a slot of every budget that selects m, and the leader flag.
give(book, m) ==
    [given |-> book.given \cup {m},
     leaderBusy |-> book.leaderBusy \/ m \in leaders,
     out |-> [b \in Budgets |-> book.out[b] \cup (Selects[b] \cap {m})]]

\* The state of the loop after each place of the queue.
books(lagging) ==
    LET q == queue
        book[i \in 0 .. Cardinality(Waiting)] ==
          IF i = 0 THEN Opened
          ELSE IF Waits(book[i - 1], q[i], lagging) THEN book[i - 1]
               ELSE give(book[i - 1], q[i])
    IN  book

Walk(lagging) == books(lagging)[Cardinality(Waiting)].given

\* The greedy choice that the sweep's specification describes is the one that
\* the walk over the sorted queue makes, and the only one ("Name order makes
\* the decision deterministic, so two sweeps of the same fleet agree").
DecisionIsTheWalk ==
    sweeping /\ (\A m \in Machines : ~NeedsRead(m)) =>
        \A lagging \in BOOLEAN :
            {given \in SUBSET Waiting : Grants(given, lagging)} = {Walk(lagging)}
=============================================================================
