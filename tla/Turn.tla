-------------------------------- MODULE Turn --------------------------------
(***************************************************************************)
(* The machine's side of a turn (machine-operator/turn.go, disruptions.go, *)
(* drain.go, hold.go, requests.go): one machine whose operator runs one    *)
(* pass after the other.  A pass reads the ledger, its Node, the requests  *)
(* and the pods, each from a copy of the watch, then it cordons, asks pods *)
(* to leave, writes the reboot's intent and keeps its requests current.    *)
(*                                                                         *)
(* The conductor is what Rollout makes of it for one machine: it records   *)
(* an entry for the open requests, lets requests join, and frees the entry *)
(* of a machine that is in service when none of them is open.              *)
(*                                                                         *)
(* People, the kubelet and the clock act between two passes: a pass reads  *)
(* each object once, so what happens while it runs looks to it like a copy *)
(* that was behind.  The one exception is a pod that the scheduler binds   *)
(* after the pods were listed and before the Node is cordoned.             *)
(***************************************************************************)
EXTENDS Naturals

CONSTANTS
    Holders,    \* the pods that hold a claim on a device
    Drivers,    \* the pods that prepare and unprepare the claims
    None,       \* no request, and a request that names no boot
    MaxEdits,   \* bound: edits of the documents that only a boot applies
    MaxTroubles \* bound: failed calls, copies that are behind, restarts of the operator,
                \* withdrawn requests, and cordons and uncordons by a person

ASSUME PodsAssumption == Holders \cap Drivers = {}
ASSUME BoundsAssumption ==
    MaxEdits \in Nat /\ MaxTroubles \in Nat /\ None \notin Nat

Pods == Holders \cup Drivers
Boots == 0 .. (MaxEdits + 1)

VARIABLES
    entry,      \* the requests that the ledger's entry names; {} for no entry
    status,     \* what the Machine publishes: out of service, and the boot
    own,        \* the operator's own Disruption exists
    req,        \* a requester's Disruption
    node,       \* the Node: unschedulable, and the drain's two annotations
    pods,       \* where each pod of this node is
    boot,       \* the running boot
    drift,      \* a document waits for a reboot
    intent,     \* the reboot's intent in /run, which init reads
    seen,       \* the operator's copies
    pass,       \* the running pass
    filed, edits, troubles,         \* the counters of the bounds
    ended       \* history: the entry left the ledger since the pass began

api == <<own, req, node>>
bounds == <<filed, edits, troubles>>
vars == <<entry, status, api, pods, boot, drift, intent, seen, pass, bounds, ended>>

Request == [hash : Boots \cup {None}, hold : BOOLEAN, held : BOOLEAN, complete : BOOLEAN]
Node == [unschedulable : BOOLEAN, cordoned : BOOLEAN, since : {"none", "young", "old"}]
Where == [Pods -> {"away", "running", "leaving"}]
Steps == {"idle", "node", "requests", "gate", "cordon", "ask", "tidy", "settle"}
Copies == [entry : BOOLEAN, own : BOOLEAN, req : Request \cup {None}, node : Node, pods : Where]
Passes ==
    [at : Steps, doc : {"none", "spec", "request"}, drift : BOOLEAN, granted : BOOLEAN,
     nodeRead : BOOLEAN, requestsRead : BOOLEAN,
     draining : BOOLEAN, rebooting : BOOLEAN, drained : BOOLEAN]

\* Each object and each copy has its shape, the Node's record of the drain and
\* the boot that a request names among them.
TypeOK ==
    /\ entry \in SUBSET {"own", "req"}
    /\ status \in [away : BOOLEAN, boot : Boots]
    /\ req \in Request \cup {None}
    /\ node \in Node /\ pods \in Where /\ boot \in Boots
    /\ own \in BOOLEAN /\ drift \in BOOLEAN /\ intent \in BOOLEAN
    /\ filed \in BOOLEAN /\ ended \in BOOLEAN
    /\ seen \in Copies /\ pass \in Passes
    /\ edits \in 0 .. MaxEdits /\ troubles \in 0 .. MaxTroubles

NoPass ==
    [at |-> "idle", doc |-> "none", drift |-> FALSE, granted |-> FALSE,
     nodeRead |-> FALSE, requestsRead |-> FALSE,
     draining |-> FALSE, rebooting |-> FALSE, drained |-> FALSE]

\* The Node's annotations go with its cordon, or stay behind a person's.
Uncordoned == [unschedulable |-> FALSE, cordoned |-> FALSE, since |-> "none"]

-----------------------------------------------------------------------------
(* The requests. *)

Spent(r, b) == r.hash # b

Done(r, b) == r.complete \/ Spent(r, b)

\* The conductor judges with the boot that the Machine published.
open ==
    {r \in {"own", "req"} : IF r = "own" THEN own ELSE req # None /\ ~Done(req, status.boot)}

requestForBoot(r) == r # None /\ ~r.complete /\ ~Spent(r, boot)

\* Mutant: the end of the drain ends the hold too.
HoldsUntilHeld ==
    pass.requestsRead /\ seen.req # None /\ seen.req.hold /\ ~seen.req.held /\ ~Done(seen.req, boot)

holdingRequests ==
    pass.requestsRead /\ seen.req # None /\ seen.req.hold /\ ~Done(seen.req, boot)

-----------------------------------------------------------------------------
(* The conductor. *)

Grant ==
    /\ entry = {} /\ open # {} /\ ~status.away
    /\ entry' = open
    /\ UNCHANGED <<status, api, pods, boot, drift, intent, seen, pass, bounds, ended>>

Join ==
    /\ entry # {} /\ ~(open \subseteq entry)
    /\ entry' = entry \cup open
    /\ UNCHANGED <<status, api, pods, boot, drift, intent, seen, pass, bounds, ended>>

holdsEntry == status.away \/ entry \cap open # {}

Free ==
    /\ entry # {} /\ ~holdsEntry
    /\ entry' = {} /\ ended' = (pass.at # "idle")
    /\ UNCHANGED <<status, api, pods, boot, drift, intent, seen, pass, bounds>>

Trouble == troubles < MaxTroubles /\ troubles' = troubles + 1

-----------------------------------------------------------------------------
(* People, requesters, the scheduler and the kubelet. *)

Edit ==
    /\ pass.at = "idle" /\ edits < MaxEdits /\ ~intent
    /\ drift' = ~drift /\ edits' = edits + 1
    /\ UNCHANGED <<entry, status, api, pods, boot, intent, seen, pass, filed, troubles, ended>>

FileRequest ==
    /\ pass.at = "idle" /\ ~filed /\ filed' = TRUE
    /\ \E hold \in BOOLEAN :
         req' = [hash |-> IF hold THEN boot ELSE None, hold |-> hold, held |-> FALSE, complete |-> FALSE]
    /\ UNCHANGED <<entry, status, own, node, pods, boot, drift, intent, seen, pass,
                   edits, troubles, ended>>

\* The requester has checked its work, or a person releases the turn.
RemoveHold ==
    /\ pass.at = "idle" /\ req # None /\ req.hold
    /\ req' = [req EXCEPT !.hold = FALSE]
    /\ UNCHANGED <<entry, status, own, node, pods, boot, drift, intent, seen, pass, bounds, ended>>

Withdraw ==
    /\ pass.at = "idle" /\ Trouble
    /\ req # None /\ req' = None
    /\ UNCHANGED <<entry, status, own, node, pods, boot, drift, intent, seen, pass, filed, edits, ended>>

\* kubectl cordon and kubectl uncordon write the one field.
PersonTurns ==
    /\ pass.at = "idle" /\ Trouble
    /\ node' = [node EXCEPT !.unschedulable = ~@]
    /\ UNCHANGED <<entry, status, own, req, pods, boot, drift, intent, seen, pass,
                   filed, edits, ended>>

Bind(p) ==
    /\ pass.at \in {"idle", "cordon"}
    /\ pods[p] = "away" /\ ~node.unschedulable
    /\ p \in Holders => \E d \in Drivers : pods[d] = "running"
    /\ pods' = [pods EXCEPT ![p] = "running"]
    /\ UNCHANGED <<entry, status, api, boot, drift, intent, seen, pass, bounds, ended>>

\* The kubelet retries the unprepare of a claim until its driver answers.
Leave(p) ==
    /\ pass.at = "idle" /\ pods[p] = "leaving"
    /\ p \in Holders => \E d \in Drivers : pods[d] # "away"
    /\ pods' = [pods EXCEPT ![p] = "away"]
    /\ UNCHANGED <<entry, status, api, boot, drift, intent, seen, pass, bounds, ended>>

\* Five minutes pass.  A pass compares the annotation with the time it began.
DeadlinePasses ==
    LET aged(since) == IF since = "young" THEN "old" ELSE since
    IN  /\ pass.at = "idle" /\ "young" \in {node.since, seen.node.since}
        /\ node' = [node EXCEPT !.since = aged(@)]
        /\ seen' = [seen EXCEPT !.node.since = aged(@)]
        /\ UNCHANGED <<entry, status, own, req, pods, boot, drift, intent, pass, bounds, ended>>

-----------------------------------------------------------------------------
(* The pass's reads.  A copy answers what the object is, or, when it is       *)
(* behind, what it held on the last read.                                     *)

Fresh == [entry |-> entry # {}, own |-> own, req |-> req, node |-> node, pods |-> pods]

\* A watch brings the copy up to date, or the copy answers as it is.
Copy(current) ==
    \/ seen' = current /\ UNCHANGED troubles
    \/ current # seen /\ UNCHANGED seen /\ Trouble

\* Mutant: the copy answers alone.
HoldsInCopy(copy) == copy

\* An entry in the copy is read again from the API server.
holdsTurn(copy) == copy /\ entry # {}

\* Init's watch of /run wakes on the intent, before the operator's next pass.
Begin ==
    /\ pass.at = "idle" /\ ~intent
    /\ \/ /\ Copy([seen EXCEPT !.entry = entry # {}])
          /\ pass' = [NoPass EXCEPT !.at = "node", !.drift = drift, !.granted = holdsTurn(seen'.entry)]
       \/ /\ seen.entry /\ UNCHANGED seen /\ Trouble
          /\ pass' = [NoPass EXCEPT !.at = "node", !.drift = drift]
    /\ UNCHANGED <<entry, status, api, pods, boot, drift, intent, filed, edits, ended>>

ReadNode ==
    /\ pass.at = "node"
    /\ \/ /\ Copy([seen EXCEPT !.node = node])
          /\ pass' = [pass EXCEPT !.at = "requests", !.nodeRead = TRUE]
       \/ Trouble /\ pass' = [pass EXCEPT !.at = "requests"] /\ UNCHANGED seen
    /\ UNCHANGED <<entry, status, api, pods, boot, drift, intent, filed, edits, ended>>

\* What asks for the reboot of a granted turn, after the documents before it.
Onward(p, r) ==
    IF p.doc = "none" /\ p.granted /\ p.drift
    THEN [p EXCEPT !.at = "gate", !.doc = "spec"]
    ELSE IF p.doc # "request" /\ p.granted /\ p.requestsRead /\ requestForBoot(r)
    THEN [p EXCEPT !.at = "gate", !.doc = "request"]
    ELSE [p EXCEPT !.at = "tidy"]

ReadRequests ==
    /\ pass.at = "requests"
    /\ \/ /\ Copy([seen EXCEPT !.own = own, !.req = req])
          /\ pass' = Onward([pass EXCEPT !.requestsRead = TRUE], seen'.req)
       \/ Trouble /\ pass' = Onward(pass, None) /\ UNCHANGED seen
    /\ UNCHANGED <<entry, status, api, pods, boot, drift, intent, filed, edits, ended>>

-----------------------------------------------------------------------------
(* The gate: the staged documents first, a person's request last. *)

Reboots == pass' = Onward([pass EXCEPT !.rebooting = TRUE], seen.req) /\ intent' = TRUE

Holds == pass' = Onward([pass EXCEPT !.draining = TRUE], seen.req) /\ UNCHANGED intent

HoldsForRequester ==
    pass' = Onward([pass EXCEPT !.draining = TRUE, !.drained = TRUE], seen.req) /\ UNCHANGED intent

\* A demotion has no Node to cordon, and the reboot must still happen.
SkipDrain ==
    /\ pass.at = "gate" /\ ~pass.nodeRead
    /\ Reboots
    /\ UNCHANGED <<entry, status, api, pods, boot, drift, seen, bounds, ended>>

\* The requester's pod works on the drained machine.
StayHeld ==
    /\ pass.at = "gate" /\ pass.nodeRead /\ holdingRequests /\ seen.req.held
    /\ HoldsForRequester
    /\ UNCHANGED <<entry, status, api, pods, boot, drift, seen, bounds, ended>>

ListPods ==
    /\ pass.at = "gate" /\ pass.nodeRead
    /\ ~(holdingRequests /\ seen.req.held)
    /\ \/ /\ Copy([seen EXCEPT !.pods = pods])
          /\ pass' = [pass EXCEPT !.at = "cordon"]
          /\ UNCHANGED intent
       \/ Trouble /\ Holds /\ UNCHANGED seen
    /\ UNCHANGED <<entry, status, api, pods, boot, drift, filed, edits, ended>>

-----------------------------------------------------------------------------
(* The drain. *)

\* Mutant: each pass of the drain starts the deadline again.
RecordsEveryPass == TRUE

Records == ~seen.node.unschedulable \/ seen.node.since = "none"

\* Mutant: the cordon does not say whose it is.
CordonsUnmarked ==
    IF seen.node.unschedulable THEN [node EXCEPT !.since = "young"]
    ELSE [unschedulable |-> TRUE, since |-> "young"]

CordonPatch ==
    IF seen.node.unschedulable THEN [node EXCEPT !.since = "young"]
    ELSE [unschedulable |-> TRUE, cordoned |-> TRUE, since |-> "young"]

Cordon ==
    /\ pass.at = "cordon"
    /\ \/ /\ node' = IF Records THEN CordonPatch ELSE node
          /\ pass' = [pass EXCEPT !.at = "ask"]
          /\ UNCHANGED <<intent, troubles>>
       \/ Records /\ Trouble /\ Holds /\ UNCHANGED node
    /\ UNCHANGED <<entry, status, own, req, pods, boot, drift, seen, filed, edits, ended>>

PastDeadline == ~Records /\ seen.node.since = "old"

evictablePods == {p \in Pods : seen.pods[p] # "away"}

\* Mutant: a holder that was asked already does not hold its driver back.
OrderByRunning ==
    LET asked == {p \in evictablePods : seen.pods[p] = "running"}
    IN  IF asked \cap Holders # {} THEN asked \ Drivers ELSE asked

drainOrder ==
    LET asked == {p \in evictablePods : seen.pods[p] = "running"}
    IN  IF evictablePods \cap Holders # {} THEN asked \ Drivers ELSE asked

\* A PodDisruptionBudget refuses an eviction, and a pod may be gone already.
Ask ==
    /\ pass.at = "ask"
    /\ \E accepted \in SUBSET (IF PastDeadline THEN {} ELSE drainOrder) :
         pods' = [p \in Pods |-> IF p \in accepted /\ pods[p] = "running" THEN "leaving" ELSE pods[p]]
    /\ IF ~PastDeadline /\ evictablePods # {} THEN Holds
       ELSE IF holdingRequests THEN HoldsForRequester
       ELSE Reboots
    /\ UNCHANGED <<entry, status, api, boot, drift, seen, bounds, ended>>

-----------------------------------------------------------------------------
(* The end of the pass. *)

\* Mutant: the request stays when nothing waits any more.
KeepsOwnRequest == own \/ pass.drift

\* A create that finds the object, and a delete that finds none, change nothing.
syncOwnRequest ==
    CASE pass.drift /\ ~seen.own -> TRUE
      [] ~pass.drift /\ seen.own -> FALSE
      [] OTHER -> own

\* Mutant: the uncordon is a part of the turn.
UncordonsInTurn ==
    /\ ~pass.rebooting /\ ~pass.draining /\ pass.granted
    /\ seen.node.unschedulable /\ seen.node.cordoned

decideUncordon ==
    ~pass.rebooting /\ ~pass.draining /\ seen.node.unschedulable /\ seen.node.cordoned

\* A call that fails may have taken effect or not, and the pass goes on.
Tidy ==
    /\ pass.at = "tidy"
    /\ pass' = [pass EXCEPT !.at = "settle"]
    /\ LET synced == IF pass.nodeRead /\ pass.requestsRead THEN syncOwnRequest ELSE own
           tidied == IF pass.nodeRead /\ decideUncordon THEN Uncordoned ELSE node
       IN  \/ own' = synced /\ node' = tidied /\ UNCHANGED troubles
           \/ own' \in {own, synced} /\ node' \in {node, tidied} /\ Trouble
    /\ UNCHANGED <<entry, status, req, pods, boot, drift, intent, seen, filed, edits, ended>>

settlePeopleRequests(r) ==
    CASE r.complete -> r
      [] ~r.complete /\ r.hash = None -> [r EXCEPT !.hash = boot]
      [] ~r.complete /\ r.hash # None /\ Spent(r, boot) -> [r EXCEPT !.complete = TRUE]
      [] OTHER -> r

settleHolds(r) ==
    CASE pass.drained /\ ~r.held /\ holdingRequests -> [r EXCEPT !.held = TRUE]
      [] r.held /\ ~r.hold -> [r EXCEPT !.held = FALSE]
      [] OTHER -> r

\* A write names the version that the pass read, so the second one of a pass
\* conflicts, and so does one from a copy that is behind.
Settled ==
    IF ~pass.requestsRead \/ req = None \/ req # seen.req THEN req
    ELSE IF settlePeopleRequests(req) # req THEN settlePeopleRequests(req)
    ELSE settleHolds(req)

\* The first write fails and leaves the version as it was, so the second one is
\* stored.
SettledLast ==
    IF ~pass.requestsRead \/ req = None \/ req # seen.req THEN req ELSE settleHolds(req)

\* Draining, Held and RebootRequested all count as out of service.
Settle ==
    /\ pass.at = "settle"
    /\ LET published == [away |-> pass.draining \/ pass.rebooting, boot |-> boot]
       IN  \/ req' = Settled /\ status' = published /\ UNCHANGED troubles
           \/ /\ req' \in {req, Settled, SettledLast}
              /\ status' \in {status, published}
              /\ Trouble
    /\ pass' = NoPass /\ ended' = FALSE
    /\ UNCHANGED <<entry, own, node, pods, boot, drift, intent, seen, filed, edits>>

-----------------------------------------------------------------------------
(* The operator ends, and init reboots the machine. *)

RestartOperator ==
    /\ pass.at # "idle" /\ Trouble
    /\ pass' = NoPass /\ seen' = Fresh /\ ended' = FALSE
    /\ UNCHANGED <<entry, status, api, pods, boot, drift, intent, filed, edits>>

\* The pods that stayed start again with the machine.
Reboot ==
    /\ intent /\ intent' = FALSE
    /\ boot' = boot + 1 /\ drift' = FALSE
    /\ pods' = [p \in Pods |-> IF pods[p] = "leaving" THEN "away" ELSE pods[p]]
    /\ pass' = NoPass /\ seen' = [Fresh EXCEPT !.pods = pods'] /\ ended' = FALSE
    /\ UNCHANGED <<entry, status, api, bounds>>

Init ==
    /\ entry = {} /\ status = [away |-> FALSE, boot |-> 0]
    /\ own = FALSE /\ req = None /\ node = Uncordoned
    /\ pods = [p \in Pods |-> "running"]
    /\ boot = 0 /\ drift = FALSE /\ intent = FALSE
    /\ seen = Fresh /\ pass = NoPass
    /\ filed = FALSE /\ edits = 0 /\ troubles = 0
    /\ ended = FALSE

Conductor == Grant \/ Join \/ Free

People == Edit \/ FileRequest \/ RemoveHold \/ Withdraw \/ PersonTurns

Kubelet == \E p \in Pods : Bind(p) \/ Leave(p)

Pass ==
    \/ Begin \/ ReadNode \/ ReadRequests
    \/ SkipDrain \/ StayHeld \/ ListPods
    \/ Cordon \/ Ask \/ Tidy \/ Settle

Next == Conductor \/ People \/ Kubelet \/ DeadlinePasses \/ Pass \/ RestartOperator \/ Reboot

Spec == Init /\ [][Next]_vars

\* The loop runs pass after pass, the conductor sweeps, and init acts on the
\* intent.  Time passes, and a requester removes its hold once it learns that
\* the machine is drained: both happen between passes, hence the strong form.
\* No fairness makes a pod leave, and none makes an eviction succeed.
Fairness ==
    /\ WF_vars(Grant) /\ WF_vars(Free) /\ WF_vars(Pass) /\ WF_vars(Reboot)
    /\ SF_vars(DeadlinePasses)
    /\ SF_vars(req # None /\ req.held /\ RemoveHold)

FairSpec == Spec /\ Fairness

-----------------------------------------------------------------------------
(* The properties. *)

\* A driver is never asked to leave while a pod whose claim it prepared is on
\* its way out, for the kubelet's unprepare call would find nobody and the pod
\* would terminate for good, nor while one that the pass knows of runs.  One
\* that was bound after the list of the pods is the exception (drainOrder).
DriversLeaveLast ==
    [][\A d \in Drivers : pods[d] = "running" /\ pods'[d] = "leaving" =>
         \A h \in Holders :
            /\ pods[h] # "leaving"
            /\ pods[h] = "running" => seen.pods[h] = "away"]_vars

\* The operator asks init for a reboot only inside a turn, or when the
\* conductor took the turn back after the pass read it: neither a copy of the
\* ledger that still shows the last turn nor a failed read starts one
\* (holdsTurn).
RebootsInTurn == [][~intent /\ intent' => entry # {} \/ ended]_vars

\* While a requester works on the drained machine, no document and no other
\* request reboots it, provided that the pass could read the Node and the
\* requests (gate, holdingRequests).
HoldStands ==
    [][~intent /\ intent' /\ pass.nodeRead /\ pass.requestsRead =>
         ~(req # None /\ req.held /\ req.hold /\ ~Done(req, boot))]_vars

\* A turn ends, so its slot of the budget is free again: evictions may be
\* refused for ever, requests may join, be held, be withdrawn or name no boot,
\* and the operator may restart (decideDrainStep, settlePeopleRequests,
\* syncOwnRequest, holdsEntry).
TurnEnds == entry # {} ~> entry = {}

\* The drain's cordon does not outlive its reason, whether the machine
\* rebooted or the reason went away (decideUncordon).
CordonEnds == node.cordoned /\ node.unschedulable ~> ~(node.cordoned /\ node.unschedulable)

\* A document that waits for a reboot gets it, or is taken back: the request,
\* the turn, the drain, the hold and the reboot never wait for one another.
DriftBoots == drift ~> ~drift
=============================================================================
