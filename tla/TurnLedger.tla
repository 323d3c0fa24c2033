----------------------------- MODULE TurnLedger -----------------------------
(***************************************************************************)
(* What the rollout promises: one ledger governs the reboots of a fleet.   *)
(* It changes in one step, to a set of turns that fits every budget and    *)
(* holds one leader at most, and no turn ends before its grant does.  A    *)
(* grant comes after the turn that it needs, never in the same step.       *)
(***************************************************************************)
EXTENDS Naturals, FiniteSets

CONSTANTS
    Machines,        \* the machines of the fleet
    Leaders,         \* the machines of which one at a time holds a turn
    Budgets,         \* the budgets
    Selects,         \* Selects[b] is the set of machines that b selects
    MaxUnavailable   \* MaxUnavailable[b] is b's limit

VARIABLES
    holders,         \* the machines that hold a turn
    granted          \* the machines that were told to reboot

WithinLimits(S) ==
    /\ \A b \in Budgets : Cardinality(Selects[b] \cap S) <= MaxUnavailable[b]
    /\ \A m, n \in S \cap Leaders : m = n

Init ==
    /\ holders = {}
    /\ granted = {}

Decide(S) ==
    /\ granted \subseteq S
    /\ WithinLimits(S)
    /\ holders' = S
    /\ UNCHANGED granted

Grant(m) ==
    /\ m \in holders \ granted
    /\ granted' = granted \cup {m}
    /\ UNCHANGED holders

Revoke(m) ==
    /\ m \in granted
    /\ granted' = granted \ {m}
    /\ UNCHANGED holders

Next ==
    \/ \E S \in SUBSET Machines : Decide(S)
    \/ \E m \in Machines : Grant(m) \/ Revoke(m)

Spec == Init /\ [][Next]_<<holders, granted>>
=============================================================================
