----------------------------- MODULE TurnProofs -----------------------------
(***************************************************************************)
(* A machine reboots inside its turn, no more often than it was asked to,  *)
(* never under a requester that works on it, and its drivers leave after   *)
(* the pods that need them: for every set of pods and every bound.         *)
(***************************************************************************)
EXTENDS Turn, TLAPS

One(b) == IF b THEN 1 ELSE 0

\* What a pass has found out stands until its end: it was granted a turn, and the
\* document that asks for the reboot still asks.
PassInv ==
    /\ pass.at = "idle" => pass = NoPass
    /\ pass.at \in {"node", "requests"} => pass.doc = "none"
    /\ pass.at \in {"gate", "cordon", "ask"} => pass.doc # "none"
    /\ pass.doc # "none" => pass.granted
    /\ pass.granted => entry # {} \/ ended
    /\ pass.drift => drift
    /\ pass.doc = "spec" => pass.drift
    /\ pass.doc = "request" => requestForBoot(seen.req)

\* A request's hash is a boot that was, and a hold names one.
HashInv == \A r \in {req, seen.req} :
    r # None => filed /\ (r.hash # None => r.hash <= boot) /\ (r.hold => r.hash # None)

\* The copy of the one request is the request as it was.
CopyInv == req # None =>
    /\ req.held => seen.req # None
    /\ seen.req # None =>
        /\ req.hold => seen.req.hold
        /\ seen.req.complete => req.complete
        /\ seen.req.hash # None => req.hash = seen.req.hash

\* A request that no boot has spent.
Live(r) == r # None /\ r.hash \in {None, boot}

\* Each boot was paid for by an edit or by the request, which pays for one.
BootInv ==
    /\ boot + One(drift) <= edits + One(filed)
    /\ Live(req) \/ Live(seen.req) => boot + One(drift) <= edits
    /\ intent /\ ~drift => boot <= edits /\ filed /\ \A r \in {req, seen.req} : r # None => r.hash # None

\* A pod that was asked to leave is in the copy until it has left.
AskedInv == \A p \in Pods : pods[p] = "leaving" => seen.pods[p] # "away"

IInv == PassInv /\ HashInv /\ CopyInv /\ BootInv /\ AskedInv
-----------------------------------------------------------------------------
\* The successors of a pass keep its type, and Onward changes where it is and what
\* document it is at.
LEMMA PassTypes ==
    /\ NoPass \in Passes
    /\ \A d \in BOOLEAN, g \in BOOLEAN :
            [NoPass EXCEPT !.at = "node", !.drift = d, !.granted = g] \in Passes
    /\ \A d \in BOOLEAN : [NoPass EXCEPT !.at = "node", !.drift = d] \in Passes
    /\ \A p \in Passes : /\ [p EXCEPT !.at = "requests", !.nodeRead = TRUE] \in Passes
                           /\ [p EXCEPT !.draining = TRUE, !.drained = TRUE] \in Passes
                           /\ [p EXCEPT !.draining = TRUE] \in Passes
                           /\ [p EXCEPT !.rebooting = TRUE] \in Passes
                           /\ [p EXCEPT !.requestsRead = TRUE] \in Passes
    /\ \A p \in Passes : \A at \in Steps : [p EXCEPT !.at = at] \in Passes
<1>1. NoPass \in Passes
  BY DEF NoPass, Passes, Steps
<1>2. \A p \in Passes : \A d \in BOOLEAN, g \in BOOLEAN :
         [p EXCEPT !.at = "node", !.drift = d, !.granted = g] \in Passes
  BY DEF Passes, Steps
<1>3. \A p \in Passes : \A d \in BOOLEAN : [p EXCEPT !.at = "node", !.drift = d] \in Passes
  BY DEF Passes, Steps
<1>4. \A p \in Passes : [p EXCEPT !.at = "requests", !.nodeRead = TRUE] \in Passes
  BY DEF Passes, Steps
<1>5. \A p \in Passes : [p EXCEPT !.draining = TRUE, !.drained = TRUE] \in Passes
  BY DEF Passes
<1>6. \A p \in Passes : /\ [p EXCEPT !.draining = TRUE] \in Passes
                          /\ [p EXCEPT !.rebooting = TRUE] \in Passes
                          /\ [p EXCEPT !.requestsRead = TRUE] \in Passes
  BY DEF Passes
<1>7. \A p \in Passes : \A at \in Steps : [p EXCEPT !.at = at] \in Passes
  BY DEF Passes
<1> QED
  BY <1>1, <1>2, <1>3, <1>4, <1>5, <1>6, <1>7

LEMMA OnwardType ==
    ASSUME NEW p \in Passes, NEW r
    PROVE  Onward(p, r) \in Passes
  BY DEF Onward, Passes, Steps

\* What Onward leaves alone, and where it leads.
LEMMA OnwardFields ==
    ASSUME NEW p \in Passes, NEW r
    PROVE  LET q == Onward(p, r)
           IN  /\ q.drift = p.drift /\ q.granted = p.granted /\ q.nodeRead = p.nodeRead
               /\ q.requestsRead = p.requestsRead /\ q.draining = p.draining
               /\ q.rebooting = p.rebooting /\ q.drained = p.drained
               /\ \/ q.at = "gate" /\ q.doc = "spec" /\ p.granted /\ p.drift
                  \/ q.at = "gate" /\ q.doc = "request" /\ p.granted /\ p.requestsRead /\ requestForBoot(r)
                  \/ q.at = "tidy" /\ q.doc = p.doc
  BY DEF Onward, Passes, Steps

\* The copies keep their type.
LEMMA CopyTypes ==
    ASSUME TypeOK
    PROVE  /\ Fresh \in Copies
           /\ [seen EXCEPT !.entry = entry # {}] \in Copies
           /\ [seen EXCEPT !.node = node] \in Copies
           /\ [seen EXCEPT !.own = own, !.req = req] \in Copies
           /\ [seen EXCEPT !.pods = pods] \in Copies
<1>1. Fresh \in Copies
  BY DEF TypeOK, Fresh, Copies
<1>2. [seen EXCEPT !.entry = entry # {}] \in Copies
  BY DEF TypeOK, Copies
<1>3. [seen EXCEPT !.node = node] \in Copies /\ [seen EXCEPT !.pods = pods] \in Copies
  BY DEF TypeOK, Copies
<1>4. [seen EXCEPT !.own = own, !.req = req] \in Copies
  BY DEF TypeOK, Copies
<1> QED
  BY <1>1, <1>2, <1>3, <1>4

\* The initial states have the types.
LEMMA InitType == Init => TypeOK
<1> SUFFICES ASSUME Init PROVE TypeOK
  OBVIOUS
<1>1. pass \in Passes
  BY PassTypes DEF Init
<1>2. node \in Node /\ pods \in Where /\ boot \in Boots
  BY BoundsAssumption DEF Init, Node, Uncordoned, Where, Boots
<1>3. status \in [away : BOOLEAN, boot : Boots]
  BY BoundsAssumption DEF Init, Boots
<1>4. seen \in Copies
  BY <1>2 DEF Init, Fresh, Copies
<1>5. entry \in SUBSET {"own", "req"} /\ edits \in 0 .. MaxEdits /\ troubles \in 0 .. MaxTroubles
  BY BoundsAssumption DEF Init
<1>6. own \in BOOLEAN /\ drift \in BOOLEAN /\ intent \in BOOLEAN /\ filed \in BOOLEAN /\ ended \in BOOLEAN
  BY DEF Init
<1>7. req \in Request \cup {None}
  BY DEF Init
<1> QED
  BY <1>1, <1>2, <1>3, <1>4, <1>5, <1>6, <1>7 DEF TypeOK

\* A failed call, a copy that is behind and a restart are counted.
LEMMA TroubleType == TypeOK /\ (Trouble \/ UNCHANGED troubles) => troubles' \in 0 .. MaxTroubles
  BY BoundsAssumption DEF TypeOK, Trouble

\* What the gate and the drain make of a pass.
LEMMA DrainType ==
    ASSUME TypeOK, Reboots \/ Holds \/ HoldsForRequester
    PROVE  pass' \in Passes /\ intent' \in BOOLEAN
<1>1. pass \in Passes /\ intent \in BOOLEAN
  BY DEF TypeOK
<1>2. CASE Reboots
  BY <1>1, <1>2, PassTypes, OnwardType DEF Reboots
<1>3. CASE Holds
  BY <1>1, <1>3, PassTypes, OnwardType DEF Holds
<1>4. CASE HoldsForRequester
  BY <1>1, <1>4, PassTypes, OnwardType DEF HoldsForRequester
<1> QED
  BY <1>2, <1>3, <1>4

\* The reads keep the types.
LEMMA ReadsType == TypeOK /\ (Begin \/ ReadNode \/ ReadRequests) => TypeOK'
<1> SUFFICES ASSUME TypeOK, Begin \/ ReadNode \/ ReadRequests PROVE TypeOK'
  OBVIOUS
<1>1. seen \in Copies /\ pass \in Passes /\ drift \in BOOLEAN
  BY DEF TypeOK
<1>2. seen' \in Copies
  BY <1>1, CopyTypes DEF Begin, ReadNode, ReadRequests, Copy
<1>3. troubles' \in 0 .. MaxTroubles
  BY TroubleType DEF Begin, ReadNode, ReadRequests, Copy
<1>4. pass' \in Passes
  <2>1. CASE Begin
    <3>1. holdsTurn(seen'.entry) \in BOOLEAN
      BY <1>2 DEF holdsTurn, Copies
    <3> QED
      BY <1>1, <2>1, <3>1, PassTypes DEF Begin
  <2>2. CASE ReadNode
    <3>1. [pass EXCEPT !.at = "requests", !.nodeRead = TRUE] \in Passes
      BY <1>1, PassTypes
    <3>2. [pass EXCEPT !.at = "requests"] \in Passes
      BY <1>1, PassTypes DEF Steps
    <3> QED
      BY <2>2, <3>1, <3>2 DEF ReadNode
  <2>3. CASE ReadRequests
    <3>1. [pass EXCEPT !.requestsRead = TRUE] \in Passes
      BY <1>1, PassTypes
    <3>2. Onward([pass EXCEPT !.requestsRead = TRUE], seen'.req) \in Passes
      BY <3>1, OnwardType
    <3>3. Onward(pass, None) \in Passes
      BY <1>1, OnwardType
    <3> QED
      BY <2>3, <3>2, <3>3 DEF ReadRequests
  <2> QED
    BY <2>1, <2>2, <2>3
<1>5. UNCHANGED <<entry, status, own, req, node, pods, boot, drift, intent, filed, edits, ended>>
  BY DEF Begin, ReadNode, ReadRequests, api
<1> QED
  BY <1>2, <1>3, <1>4, <1>5 DEF TypeOK

\* The steps of people and of the kubelet keep the types.
LEMMA WorldType == TypeOK /\ (Conductor \/ People \/ Kubelet \/ DeadlinePasses) => TypeOK'
<1> SUFFICES ASSUME TypeOK, Conductor \/ People \/ Kubelet \/ DeadlinePasses PROVE TypeOK'
  OBVIOUS
<1> USE DEF api, bounds
<1>1. CASE Conductor
  BY <1>1 DEF TypeOK, Conductor, Grant, Join, Free, open
<1>2. CASE Edit
  BY <1>2, BoundsAssumption DEF TypeOK, Edit
<1>3. CASE FileRequest
  BY <1>3 DEF TypeOK, FileRequest, Request
<1>4. CASE RemoveHold
  <2>1. req \in Request => [req EXCEPT !.hold = FALSE] \in Request
    BY DEF Request
  <2> QED
    BY <1>4, <2>1 DEF TypeOK, RemoveHold
<1>5. CASE Withdraw
  BY <1>5, TroubleType DEF TypeOK, Withdraw
<1>6. CASE PersonTurns
  <2>1. [node EXCEPT !.unschedulable = ~@] \in Node
    BY DEF TypeOK, Node
  <2> QED
    BY <1>6, <2>1, TroubleType DEF TypeOK, PersonTurns
<1>7. CASE Kubelet
  <2>1. pods' \in Where
    BY <1>7 DEF TypeOK, Kubelet, Bind, Leave, Where
  <2> QED
    BY <1>7, <2>1 DEF TypeOK, Kubelet, Bind, Leave
<1>8. CASE DeadlinePasses
  <2>1. node' \in Node
    BY <1>8 DEF TypeOK, DeadlinePasses, Node
  <2>2. seen' \in Copies
    BY <1>8 DEF TypeOK, DeadlinePasses, Copies, Node
  <2> QED
    BY <1>8, <2>1, <2>2 DEF TypeOK, DeadlinePasses
<1> QED
  BY <1>1, <1>2, <1>3, <1>4, <1>5, <1>6, <1>7, <1>8 DEF People

\* The gate and the drain keep the types.
LEMMA DrainStepType == TypeOK /\ (SkipDrain \/ StayHeld \/ ListPods \/ Cordon \/ Ask) => TypeOK'
<1> SUFFICES ASSUME TypeOK, SkipDrain \/ StayHeld \/ ListPods \/ Cordon \/ Ask PROVE TypeOK'
  OBVIOUS
<1>1. seen \in Copies /\ pass \in Passes /\ node \in Node /\ pods \in Where /\ intent \in BOOLEAN
  BY DEF TypeOK
<1>2. [pass EXCEPT !.at = "cordon"] \in Passes /\ [pass EXCEPT !.at = "ask"] \in Passes
  BY <1>1, PassTypes DEF Steps
<1>3. pass' \in Passes /\ intent' \in BOOLEAN
  BY <1>1, <1>2, DrainType DEF SkipDrain, StayHeld, ListPods, Cordon, Ask
<1>4. seen' \in Copies
  BY <1>1, CopyTypes DEF SkipDrain, StayHeld, ListPods, Cordon, Ask, Copy
<1>5. node' \in Node
  <2>1. CordonPatch \in Node
    BY <1>1 DEF CordonPatch, Node
  <2> QED
    BY <1>1, <2>1 DEF SkipDrain, StayHeld, ListPods, Cordon, Ask, api
<1>6. pods' \in Where
  <2>1. CASE Ask
    BY <1>1, <2>1 DEF Ask, Where
  <2> QED
    BY <1>1, <2>1 DEF SkipDrain, StayHeld, ListPods, Cordon
<1>7. troubles' \in 0 .. MaxTroubles
  BY TroubleType DEF SkipDrain, StayHeld, ListPods, Cordon, Ask, Copy, bounds
<1>8. UNCHANGED <<entry, status, own, req, boot, drift, filed, edits, ended>>
  BY DEF SkipDrain, StayHeld, ListPods, Cordon, Ask, api, bounds
<1> QED
  BY <1>3, <1>4, <1>5, <1>6, <1>7, <1>8 DEF TypeOK

\* The end of a pass keeps the types.
LEMMA EndType == TypeOK /\ (Tidy \/ Settle) => TypeOK'
<1> SUFFICES ASSUME TypeOK, Tidy \/ Settle PROVE TypeOK'
  OBVIOUS
<1>1. seen \in Copies /\ pass \in Passes /\ node \in Node
  BY DEF TypeOK
<1>2. pass' \in Passes
  <2>1. [pass EXCEPT !.at = "settle"] \in Passes
    BY <1>1, PassTypes DEF Steps
  <2> QED
    BY <2>1, PassTypes DEF Tidy, Settle
<1>3. own' \in BOOLEAN
  BY DEF TypeOK, Tidy, Settle, syncOwnRequest
<1>4. node' \in Node
  <2>1. Uncordoned \in Node
    BY DEF Uncordoned, Node
  <2> QED
    BY <1>1, <2>1 DEF Tidy, Settle
<1>5. troubles' \in 0 .. MaxTroubles
  BY TroubleType DEF Tidy, Settle, bounds
<1>6. req' \in Request \cup {None}
  <2>1. \A r \in Request : settlePeopleRequests(r) \in Request
    BY DEF TypeOK, settlePeopleRequests, Request
  <2>2. \A r \in Request : settleHolds(r) \in Request
    BY DEF settleHolds, Request
  <2>3. req \in Request \cup {None}
    BY DEF TypeOK
  <2> QED
    BY <2>1, <2>2, <2>3 DEF Tidy, Settle, Settled, SettledLast
<1>7. status' \in [away : BOOLEAN, boot : Boots]
  <2>1. boot \in Boots /\ (pass.draining \/ pass.rebooting) \in BOOLEAN
    BY DEF TypeOK
  <2>2. status \in [away : BOOLEAN, boot : Boots]
    BY DEF TypeOK
  <2>3. [away |-> pass.draining \/ pass.rebooting, boot |-> boot] \in [away : BOOLEAN, boot : Boots]
    BY <2>1
  <2> QED
    BY <2>2, <2>3 DEF Tidy, Settle
<1>8. ended' \in BOOLEAN
  BY DEF TypeOK, Tidy, Settle
<1>9. UNCHANGED <<entry, pods, boot, drift, intent, seen, filed, edits>>
  BY DEF Tidy, Settle, bounds
<1> QED
  BY <1>1, <1>2, <1>3, <1>4, <1>5, <1>6, <1>7, <1>8, <1>9 DEF TypeOK

\* A new operator has read everything.
LEMMA RestartType == TypeOK /\ RestartOperator => TypeOK'
<1> SUFFICES ASSUME TypeOK, RestartOperator PROVE TypeOK'
  OBVIOUS
<1>1. pass' \in Passes /\ seen' \in Copies /\ ended' \in BOOLEAN
  BY PassTypes, CopyTypes DEF RestartOperator
<1>2. troubles' \in 0 .. MaxTroubles
  BY TroubleType DEF RestartOperator
<1>3. UNCHANGED <<entry, status, own, req, node, pods, boot, drift, intent, filed, edits>>
  BY DEF RestartOperator, api
<1> QED
  BY <1>1, <1>2, <1>3 DEF TypeOK

\* The boot stays below its bound, for an edit or the request paid for it.
LEMMA RebootType == TypeOK /\ BootInv /\ Reboot => TypeOK'
<1> SUFFICES ASSUME TypeOK, BootInv, Reboot PROVE TypeOK'
  OBVIOUS
<1>1. boot' \in Boots
  <2>1. boot \in Nat /\ edits \in 0 .. MaxEdits /\ MaxEdits \in Nat
    BY BoundsAssumption DEF TypeOK, Boots
  <2>2. boot <= MaxEdits
    <3>1. CASE drift
      BY <2>1, <3>1 DEF BootInv, One
    <3>2. CASE ~drift
      BY <2>1, <3>2 DEF BootInv, Reboot
    <3> QED
      BY <3>1, <3>2
  <2>3. boot' = boot + 1
    BY DEF Reboot
  <2> QED
    BY <2>1, <2>2, <2>3 DEF Boots
<1>2. pods' \in Where
  BY DEF TypeOK, Reboot, Where
<1>3. seen' \in Copies
  <2>1. Fresh \in Copies
    BY CopyTypes
  <2>2. [Fresh EXCEPT !.pods = pods'] \in Copies
    BY <1>2, <2>1 DEF Copies
  <2> QED
    BY <2>2 DEF Reboot
<1>4. pass' \in Passes /\ drift' \in BOOLEAN /\ intent' \in BOOLEAN /\ ended' \in BOOLEAN
  BY PassTypes DEF Reboot
<1>5. UNCHANGED <<entry, status, own, req, node, filed, edits, troubles>>
  BY DEF Reboot, api, bounds
<1> QED
  BY <1>1, <1>2, <1>3, <1>4, <1>5 DEF TypeOK

\* Every step keeps the types.
LEMMA TypeStep == TypeOK /\ BootInv /\ [Next]_vars => TypeOK'
<1> SUFFICES ASSUME TypeOK, BootInv, [Next]_vars PROVE TypeOK'
  OBVIOUS
<1>1. CASE UNCHANGED vars
  BY <1>1 DEF TypeOK, vars, api, bounds
<1> QED
  BY <1>1, ReadsType, WorldType, DrainStepType, EndType, RestartType, RebootType DEF Next, Pass
-----------------------------------------------------------------------------
\* What each object changes by.

\* The request changes in the hands of its requester, and when a pass settles it.
LEMMA ReqFrame ==
    [Next]_vars => UNCHANGED req \/ FileRequest \/ RemoveHold \/ Withdraw \/ Settle
  BY DEF Next, vars, api, bounds, Conductor, Grant, Join, Free, People, Edit, PersonTurns, Kubelet, Bind,
         Leave, DeadlinePasses, Pass, Begin, ReadNode, ReadRequests, SkipDrain, StayHeld, ListPods,
         Cordon, Ask, Tidy, RestartOperator, Reboot

\* The copy of the request stays, or it becomes the request.
LEMMA CopyFrame ==
    ASSUME TypeOK, [Next]_vars
    PROVE  seen'.req = seen.req \/ (seen'.req = req /\ UNCHANGED req)
<1>1. seen \in Copies
  BY DEF TypeOK
<1>2. CASE UNCHANGED seen
  BY <1>2
<1>3. CASE DeadlinePasses \/ Begin \/ ReadNode \/ ListPods
  <2>1. ASSUME NEW x PROVE [seen EXCEPT !.entry = x].req = seen.req
    BY <1>1 DEF Copies
  <2>2. ASSUME NEW x PROVE [seen EXCEPT !.node = x].req = seen.req
    BY <1>1 DEF Copies
  <2>3. ASSUME NEW x PROVE [seen EXCEPT !.pods = x].req = seen.req
    BY <1>1 DEF Copies
  <2>4. ASSUME DeadlinePasses PROVE seen'.req = seen.req
    BY <1>1, <2>4 DEF DeadlinePasses, Copies
  <2> QED
    BY <1>3, <2>1, <2>2, <2>3, <2>4 DEF Begin, ReadNode, ListPods, Copy
<1>4. CASE ReadRequests
  <2>1. [seen EXCEPT !.own = own, !.req = req].req = req
    BY <1>1 DEF Copies
  <2> QED
    BY <1>4, <2>1 DEF ReadRequests, Copy, api
<1>5. CASE RestartOperator
  BY <1>5 DEF RestartOperator, Fresh, api
<1>6. CASE Reboot
  BY <1>6 DEF Reboot, Fresh, api
<1>7. UNCHANGED seen \/ DeadlinePasses \/ Begin \/ ReadNode \/ ListPods \/ ReadRequests \/ RestartOperator \/ Reboot
  BY DEF Next, vars, Conductor, Grant, Join, Free, People, Edit, FileRequest, RemoveHold, Withdraw,
         PersonTurns, Kubelet, Bind, Leave, Pass, SkipDrain, StayHeld, Cordon, Ask, Tidy, Settle
<1> QED
  BY <1>2, <1>3, <1>4, <1>5, <1>6, <1>7

\* Only a reboot changes the boot, and only an edit or a reboot changes what waits for one.
LEMMA BootFrame ==
    [Next]_vars =>
      /\ UNCHANGED boot \/ Reboot
      /\ UNCHANGED <<drift, edits>> \/ Edit \/ Reboot
      /\ UNCHANGED filed \/ FileRequest
  BY DEF Next, vars, api, bounds, Conductor, Grant, Join, Free, People, Edit, FileRequest, RemoveHold, Withdraw,
         PersonTurns, Kubelet, Bind, Leave, DeadlinePasses, Pass, Begin, ReadNode, ReadRequests, SkipDrain,
         StayHeld, ListPods, Cordon, Ask, Tidy, Settle, RestartOperator, Reboot

\* The intent is written by a pass at the gate, or after the pods were asked, and init takes it.
LEMMA IntentFrame ==
    [Next]_vars =>
      \/ UNCHANGED intent
      \/ intent' = FALSE
      \/ pass.at = "gate" /\ ~pass.nodeRead /\ SkipDrain /\ Reboots
      \/ pass.at = "ask" /\ ~holdingRequests /\ Ask /\ Reboots
  BY DEF Next, vars, api, bounds, Conductor, Grant, Join, Free, People, Edit, FileRequest, RemoveHold, Withdraw,
         PersonTurns, Kubelet, Bind, Leave, DeadlinePasses, Pass, Begin, ReadNode, ReadRequests, SkipDrain,
         StayHeld, ListPods, Cordon, Ask, Tidy, Settle, RestartOperator, Reboot, Holds, HoldsForRequester
-----------------------------------------------------------------------------
\* A request keeps the boot it names, and that boot is one that was.
LEMMA HashStep == TypeOK /\ HashInv /\ [Next]_vars => HashInv'
<1> SUFFICES ASSUME TypeOK, HashInv, [Next]_vars PROVE HashInv'
  OBVIOUS
<1> DEFINE Sound(r, b) == (r.hash # None => r.hash <= b) /\ (r.hold => r.hash # None)
<1>1. boot \in Nat /\ None \notin Nat
  BY BoundsAssumption DEF TypeOK, Boots
<1>2. boot' \in Nat /\ boot <= boot'
  BY <1>1, BootFrame DEF Reboot
<1>3. filed => filed'
  BY BootFrame DEF FileRequest
<1>4. \A r \in Request : Sound(r, boot) => Sound(r, boot')
  BY <1>1, <1>2, BoundsAssumption DEF Request, Boots
<1>5. req \in Request \cup {None} /\ seen.req \in Request \cup {None}
  BY DEF TypeOK, Copies
<1>6. req' # None => filed' /\ Sound(req', boot')
  <2>1. CASE UNCHANGED req
    BY <1>3, <1>4, <1>5, <2>1 DEF HashInv
  <2>2. CASE FileRequest
    <3>1. PICK hold \in BOOLEAN :
             req' = [hash |-> IF hold THEN boot ELSE None, hold |-> hold, held |-> FALSE, complete |-> FALSE]
      BY <2>2 DEF FileRequest
    <3>2. filed' /\ boot' = boot
      BY <2>2 DEF FileRequest
    <3> QED
      BY <1>1, <3>1, <3>2
  <2>3. CASE RemoveHold
    <3>1. req \in Request /\ boot' = boot
      BY <1>5, <2>3 DEF RemoveHold
    <3>2. req'.hash = req.hash /\ ~req'.hold
      BY <2>3, <3>1 DEF RemoveHold, Request
    <3> QED
      BY <1>3, <2>3, <3>1, <3>2 DEF HashInv, RemoveHold
  <2>4. CASE Withdraw
    BY <2>4 DEF Withdraw
  <2>5. CASE Settle
    <3>1. boot' = boot
      BY <2>5 DEF Settle
    <3>2. ASSUME NEW r \in Request, Sound(r, boot) PROVE Sound(settlePeopleRequests(r), boot)
      BY <1>1, <3>2 DEF settlePeopleRequests, Request
    <3>3. ASSUME NEW r \in Request, Sound(r, boot) PROVE Sound(settleHolds(r), boot)
      BY <3>3 DEF settleHolds, Request
    <3>4. req # None => Sound(req, boot) /\ filed
      BY DEF HashInv
    <3>5. req' # None => req # None
      BY <1>5, <2>5 DEF Settle, Settled, SettledLast
    <3>6. req' \in {req, settlePeopleRequests(req), settleHolds(req)}
      BY <2>5 DEF Settle, Settled, SettledLast
    <3> HIDE DEF Sound
    <3>7. req # None => Sound(req', boot)
      BY <1>5, <3>2, <3>3, <3>4, <3>6
    <3> QED
      BY <1>3, <3>1, <3>4, <3>5, <3>7
  <2> QED
    BY <2>1, <2>2, <2>3, <2>4, <2>5, ReqFrame
<1>7. seen'.req # None => filed' /\ Sound(seen'.req, boot')
  <2>1. seen'.req = seen.req \/ seen'.req = req
    BY CopyFrame
  <2> HIDE DEF Sound
  <2>2. \A r \in {req, seen.req} : r # None => filed /\ Sound(r, boot)
    BY DEF HashInv, Sound
  <2> QED
    BY <1>3, <1>4, <1>5, <2>1, <2>2
<1> QED
  BY <1>6, <1>7 DEF HashInv

\* A copy tells of a hold for as long as the request has it, and of a boot that
\* the request still names.
LEMMA CopyStep == TypeOK /\ HashInv /\ CopyInv /\ [Next]_vars => CopyInv'
<1> SUFFICES ASSUME TypeOK, HashInv, CopyInv, [Next]_vars, req' # None
             PROVE  /\ req'.held => seen'.req # None
                    /\ seen'.req # None =>
                        /\ req'.hold => seen'.req.hold
                        /\ seen'.req.complete => req'.complete
                        /\ seen'.req.hash # None => req'.hash = seen'.req.hash
  BY DEF CopyInv
<1>1. CASE seen'.req = req /\ UNCHANGED req
  BY <1>1
<1>2. CASE seen'.req = seen.req
  <2>1. CASE UNCHANGED req
    BY <1>2, <2>1 DEF CopyInv
  <2>2. CASE FileRequest
    <3>1. seen.req = None
      BY <2>2 DEF FileRequest, HashInv
    <3>2. ~req'.held
      BY <2>2 DEF FileRequest
    <3> QED
      BY <1>2, <3>1, <3>2
  <2>3. CASE RemoveHold
    <3>1. req \in Request
      BY <2>3 DEF TypeOK, RemoveHold
    <3>2. req'.hash = req.hash /\ ~req'.hold /\ req'.held = req.held /\ req'.complete = req.complete
      BY <2>3, <3>1 DEF RemoveHold, Request
    <3> QED
      BY <1>2, <2>3, <3>2 DEF CopyInv, RemoveHold
  <2>4. CASE Withdraw
    BY <2>4 DEF Withdraw
  <2>5. CASE Settle
    <3>1. CASE req' = req
      BY <1>2, <3>1 DEF CopyInv
    <3>2. CASE req' # req
      <4>1. req = seen.req /\ req # None /\ req \in Request
        BY <2>5, <3>2 DEF TypeOK, Settle, Settled, SettledLast
      <4>2. req' = settlePeopleRequests(req) \/ req' = settleHolds(req)
        BY <2>5, <3>2 DEF Settle, Settled, SettledLast
      <4>3. /\ req'.hold = req.hold /\ (req.complete => req'.complete)
            /\ (req.hash # None => req'.hash = req.hash)
        BY <4>1, <4>2 DEF settlePeopleRequests, settleHolds, Request
      <4> QED
        BY <1>2, <4>1, <4>3
    <3> QED
      BY <3>1, <3>2
  <2> QED
    BY <2>1, <2>2, <2>3, <2>4, <2>5, ReqFrame
<1> QED
  BY <1>1, <1>2, CopyFrame
-----------------------------------------------------------------------------
\* The boots.

\* A pass that asks for a reboot read a request that no boot has spent, or the
\* document that waits for one.
LEMMA IntentIsPaid ==
    ASSUME TypeOK, PassInv, HashInv, CopyInv, BootInv, pass.doc # "none", ~drift
    PROVE  boot <= edits /\ filed /\ \A r \in {req, seen.req} : r # None => r.hash # None
<1>1. pass.doc = "request"
  BY DEF TypeOK, Passes, PassInv
<1>2. seen.req # None /\ seen.req.hash = boot
  BY <1>1 DEF PassInv, requestForBoot, Spent
<1>3. boot \in Nat /\ boot # None /\ edits \in Nat
  BY BoundsAssumption DEF TypeOK, Boots
<1>4. boot <= edits
  BY <1>2, <1>3 DEF BootInv, Live, One
<1>5. filed
  BY <1>2 DEF HashInv
<1>6. req # None => req.hash # None
  BY <1>2, <1>3 DEF CopyInv
<1> QED
  BY <1>2, <1>3, <1>4, <1>5, <1>6

\* A step keeps each boot paid for.
LEMMA BootStep ==
    TypeOK /\ PassInv /\ HashInv /\ CopyInv /\ BootInv /\ [Next]_vars => BootInv'
<1> SUFFICES ASSUME TypeOK, PassInv, HashInv, CopyInv, BootInv, [Next]_vars PROVE BootInv'
  OBVIOUS
<1>1. /\ boot \in Nat /\ edits \in Nat /\ None \notin Nat
      /\ filed \in BOOLEAN /\ drift \in BOOLEAN /\ intent \in BOOLEAN
      /\ req \in Request \cup {None} /\ seen.req \in Request \cup {None}
  BY BoundsAssumption DEF TypeOK, Boots, Copies
<1>2. seen'.req = seen.req \/ (seen'.req = req /\ UNCHANGED req)
  BY CopyFrame
<1>3. CASE Reboot
  <2>1. boot' = boot + 1 /\ drift' = FALSE /\ intent /\ intent' = FALSE
    BY <1>3 DEF Reboot
  <2>2. req' = req /\ seen'.req = req /\ edits' = edits /\ filed' = filed
    BY <1>3 DEF Reboot, Fresh, api, bounds
  <2>3. boot' + One(drift') <= edits' + One(filed')
    <3>1. CASE drift
      BY <1>1, <2>1, <2>2, <3>1 DEF BootInv, One
    <3>2. CASE ~drift
      BY <1>1, <2>1, <2>2, <3>2 DEF BootInv, One
    <3> QED
      BY <3>1, <3>2
  <2>4. ASSUME req # None, req.hash \in {None, boot + 1} PROVE boot + 1 <= edits
    <3>1. req.hash = None
      BY <1>1, <2>4 DEF HashInv
    <3>2. drift
      BY <2>1, <2>4, <3>1 DEF BootInv
    <3>3. boot + 1 <= edits
      BY <1>1, <2>4, <3>1, <3>2 DEF BootInv, Live, One
    <3> QED
      BY <3>3
  <2> QED
    BY <1>1, <2>1, <2>2, <2>3, <2>4 DEF BootInv, Live, One
<1>4. CASE Edit
  <2>1. boot' = boot /\ drift' = ~drift /\ edits' = edits + 1 /\ ~intent /\ intent' = intent
    BY <1>4 DEF Edit
  <2>2. req' = req /\ seen'.req = seen.req /\ filed' = filed
    BY <1>4 DEF Edit, api
  <2> QED
    BY <1>1, <2>1, <2>2 DEF BootInv, Live, One
<1>5. CASE FileRequest
  <2>1. boot' = boot /\ drift' = drift /\ edits' = edits /\ ~filed /\ filed' /\ intent' = intent
    BY <1>5 DEF FileRequest
  <2>2. ~(intent /\ ~drift)
    BY <2>1 DEF BootInv
  <2> QED
    BY <1>1, <2>1, <2>2 DEF BootInv, One
<1>6. CASE ~Reboot /\ ~Edit /\ ~FileRequest
  <2>1. boot' = boot /\ drift' = drift /\ edits' = edits /\ filed' = filed
    BY <1>6, BootFrame
  <2>2. req' # None => req # None /\ req'.hash \in {req.hash, boot} /\ (req.hash # None => req'.hash = req.hash)
    <3>1. CASE UNCHANGED req
      BY <3>1
    <3>2. CASE RemoveHold
      BY <1>1, <3>2 DEF RemoveHold, Request
    <3>3. CASE Withdraw
      BY <3>3 DEF Withdraw
    <3>4. CASE Settle
      <4>1. ASSUME NEW r \in Request
            PROVE  /\ settlePeopleRequests(r).hash \in {r.hash, boot}
                   /\ r.hash # None => settlePeopleRequests(r).hash = r.hash
                   /\ settleHolds(r).hash = r.hash
        BY DEF settlePeopleRequests, settleHolds, Request
      <4>2. req' \in {req, settlePeopleRequests(req), settleHolds(req)} /\ (req' # None => req # None)
        BY <1>1, <3>4 DEF Settle, Settled, SettledLast
      <4> QED
        BY <1>1, <4>1, <4>2
    <3> QED
      BY <1>6, <3>1, <3>2, <3>3, <3>4, ReqFrame
  <2>3. Live(req)' \/ Live(seen.req)' => Live(req) \/ Live(seen.req)
    <3>1. Live(req)' => Live(req)
      BY <1>1, <2>1, <2>2 DEF Live
    <3>2. Live(seen.req)' => Live(seen.req) \/ Live(req)
      BY <1>2, <2>1 DEF Live
    <3> QED
      BY <3>1, <3>2
  <2>4. ASSUME intent', ~drift'
        PROVE  boot <= edits /\ filed /\ \A r \in {req, seen.req} : r # None => r.hash # None
    <3>1. CASE intent
      BY <2>1, <2>4, <3>1 DEF BootInv
    <3>2. CASE ~intent
      <4>1. pass.at \in {"gate", "ask"}
        BY <1>1, <2>4, <3>2, IntentFrame
      <4>2. pass.doc # "none"
        BY <4>1 DEF PassInv
      <4> QED
        BY <2>1, <2>4, <4>2, IntentIsPaid
    <3> QED
      BY <3>1, <3>2
  <2>5. boot' + One(drift') <= edits' + One(filed')
    BY <2>1 DEF BootInv
  <2>6. Live(req)' \/ Live(seen.req)' => boot' + One(drift') <= edits'
    BY <2>1, <2>3 DEF BootInv
  <2>7. intent' /\ ~drift' => boot' <= edits' /\ filed' /\ \A r \in {req', seen'.req} : r # None => r.hash # None
    BY <1>2, <2>1, <2>2, <2>4
  <2> QED
    BY <2>5, <2>6, <2>7 DEF BootInv
<1> QED
  BY <1>3, <1>4, <1>5, <1>6
-----------------------------------------------------------------------------
\* The pods.

\* A pod is asked to leave only when the copy shows that it runs.
LEMMA Asked ==
    ASSUME TypeOK, [Next]_vars, NEW p \in Pods, pods[p] # "leaving", pods'[p] = "leaving"
    PROVE  Ask /\ p \in drainOrder
<1>1. pods \in Where
  BY DEF TypeOK
<1>2. pods' # pods
  OBVIOUS
<1>3. Kubelet \/ Ask \/ Reboot
  BY <1>2 DEF Next, vars, api, bounds, Conductor, Grant, Join, Free, People, Edit, FileRequest, RemoveHold, Withdraw,
         PersonTurns, DeadlinePasses, Pass, Begin, ReadNode, ReadRequests, SkipDrain,
         StayHeld, ListPods, Cordon, Tidy, Settle, RestartOperator
<1>4. ~Kubelet
  BY <1>1 DEF Kubelet, Bind, Leave, Where
<1>5. ~Reboot
  BY <1>1 DEF Reboot
<1>6. Ask
  BY <1>3, <1>4, <1>5
<1>7. p \in drainOrder
  BY <1>6 DEF Ask
<1> QED
  BY <1>6, <1>7

\* A step keeps a pod that is on its way out in the copy.
LEMMA AskedStep == TypeOK /\ AskedInv /\ [Next]_vars => AskedInv'
<1> SUFFICES ASSUME TypeOK, AskedInv, [Next]_vars, NEW p \in Pods, pods'[p] = "leaving"
             PROVE  seen'.pods[p] # "away"
  BY DEF AskedInv
<1>1. seen \in Copies /\ pods \in Where
  BY DEF TypeOK
<1>2. CASE pods[p] # "leaving"
  <2>1. Ask /\ p \in drainOrder
    BY <1>2, Asked
  <2>2. seen' = seen
    BY <2>1 DEF Ask
  <2> QED
    BY <2>1, <2>2 DEF drainOrder, evictablePods
<1>3. CASE pods[p] = "leaving"
  <2>1. seen.pods[p] # "away"
    BY <1>3 DEF AskedInv
  <2>2. ~Reboot
    BY <1>1, <1>3 DEF Reboot
  <2>3. seen'.pods = seen.pods \/ seen'.pods = pods
    <3>1. ASSUME NEW x PROVE [seen EXCEPT !.entry = x].pods = seen.pods
      BY <1>1 DEF Copies
    <3>2. ASSUME NEW x PROVE [seen EXCEPT !.node = x].pods = seen.pods
      BY <1>1 DEF Copies
    <3>3. ASSUME NEW x, NEW y PROVE [seen EXCEPT !.own = x, !.req = y].pods = seen.pods
      BY <1>1 DEF Copies
    <3>4. [seen EXCEPT !.pods = pods].pods = pods
      BY <1>1 DEF Copies
    <3>5. DeadlinePasses => seen'.pods = seen.pods
      BY <1>1 DEF DeadlinePasses, Copies
    <3>6. RestartOperator => seen'.pods = pods
      BY DEF RestartOperator, Fresh
    <3>7. UNCHANGED seen \/ DeadlinePasses \/ Begin \/ ReadNode \/ ListPods \/ ReadRequests \/ RestartOperator
      BY <2>2 DEF Next, vars, Conductor, Grant, Join, Free, People, Edit, FileRequest, RemoveHold, Withdraw,
           PersonTurns, Kubelet, Bind, Leave, Pass, SkipDrain, StayHeld, Cordon, Ask, Tidy, Settle
    <3>8. Begin => seen'.pods = seen.pods
      BY <3>1 DEF Begin, Copy
    <3>9. ReadNode => seen'.pods = seen.pods
      BY <3>2 DEF ReadNode, Copy
    <3>10. ReadRequests => seen'.pods = seen.pods
      <4>1. [seen EXCEPT !.own = own, !.req = req].pods = seen.pods
        BY <3>3
      <4>2. ReadRequests => seen' = [seen EXCEPT !.own = own, !.req = req] \/ seen' = seen
        BY DEF ReadRequests, Copy
      <4> QED
        BY <4>1, <4>2
    <3>11. ListPods => seen'.pods = seen.pods \/ seen'.pods = pods
      BY <3>4 DEF ListPods, Copy
    <3> QED
      BY <3>5, <3>6, <3>7, <3>8, <3>9, <3>10, <3>11
  <2> QED
    BY <1>3, <2>1, <2>3
<1> QED
  BY <1>2, <1>3
-----------------------------------------------------------------------------
\* The pass.

\* A pass that has ended, or has not begun, has found out nothing.
LEMMA NoPassInv == NoPass.at = "idle" /\ NoPass.doc = "none" /\ ~NoPass.granted /\ ~NoPass.drift
  BY DEF NoPass

\* A pass goes on to the next document that asks.
LEMMA OnwardInv ==
    ASSUME TypeOK, PassInv, NEW p \in Passes, NEW r,
           p.doc = pass.doc, p.granted = pass.granted, p.drift = pass.drift,
           pass.at # "idle", pass' = Onward(p, r), r # None => r = seen'.req,
           UNCHANGED <<entry, ended, drift, boot>>,
           pass.doc = "request" => seen'.req = seen.req
    PROVE  PassInv'
<1>1. /\ pass'.drift = pass.drift /\ pass'.granted = pass.granted
      /\ \/ pass'.at = "gate" /\ pass'.doc = "spec" /\ pass.granted /\ pass.drift
         \/ pass'.at = "gate" /\ pass'.doc = "request" /\ pass.granted /\ requestForBoot(r)
         \/ pass'.at = "tidy" /\ pass'.doc = pass.doc
  BY OnwardFields
<1>2. \A x : requestForBoot(x)' <=> requestForBoot(x)
  BY DEF requestForBoot, Spent
<1>3. ~requestForBoot(None)
  BY DEF requestForBoot
<1>4. pass'.doc = "request" => requestForBoot(seen'.req)
  BY <1>1, <1>3 DEF PassInv
<1>5. pass'.doc = "request" => requestForBoot(seen.req)'
  BY <1>4 DEF requestForBoot, Spent
<1> QED
  BY <1>1, <1>5 DEF PassInv

\* A pass that moves on within its document keeps what it has found out.
LEMMA MoveInv ==
    ASSUME TypeOK, PassInv, NEW at \in Steps \ {"idle"}, pass.at # "idle",
           pass'.at = at, pass'.doc = pass.doc, pass'.granted = pass.granted, pass'.drift = pass.drift,
           at \in {"node", "requests"} => pass.doc = "none",
           at \in {"gate", "cordon", "ask"} => pass.doc # "none",
           UNCHANGED <<entry, ended, drift, boot>>, seen'.req = seen.req
    PROVE  PassInv'
<1>1. pass.doc = "request" => requestForBoot(seen.req)'
  BY DEF PassInv, requestForBoot, Spent
<1> QED
  BY <1>1 DEF PassInv

\* While no pass runs nothing is found out.
LEMMA IdleInv == pass' = NoPass => PassInv'
  BY NoPassInv DEF PassInv

\* The gate and the drain go on with the pass.
LEMMA DrainInv ==
    ASSUME TypeOK, PassInv, Reboots \/ Holds \/ HoldsForRequester, pass.at # "idle",
           UNCHANGED <<entry, ended, drift, boot>>, seen'.req = seen.req
    PROVE  PassInv'
<1>1. pass \in Passes
  BY DEF TypeOK
<1>2. seen.req # None => seen.req = seen'.req
  OBVIOUS
<1>3. CASE Reboots
  <2> DEFINE p == [pass EXCEPT !.rebooting = TRUE]
  <2>1. p \in Passes /\ p.doc = pass.doc /\ p.granted = pass.granted /\ p.drift = pass.drift
    BY <1>1 DEF Passes
  <2>2. pass' = Onward(p, seen.req)
    BY <1>3 DEF Reboots
  <2> QED
    BY <1>2, <2>1, <2>2, OnwardInv
<1>4. CASE Holds
  <2> DEFINE p == [pass EXCEPT !.draining = TRUE]
  <2>1. p \in Passes /\ p.doc = pass.doc /\ p.granted = pass.granted /\ p.drift = pass.drift
    BY <1>1 DEF Passes
  <2>2. pass' = Onward(p, seen.req)
    BY <1>4 DEF Holds
  <2> QED
    BY <1>2, <2>1, <2>2, OnwardInv
<1>5. CASE HoldsForRequester
  <2> DEFINE p == [pass EXCEPT !.draining = TRUE, !.drained = TRUE]
  <2>1. p \in Passes
    BY <1>1, PassTypes
  <2>2. p.doc = pass.doc /\ p.granted = pass.granted /\ p.drift = pass.drift
    BY <1>1 DEF Passes
  <2>3. pass' = Onward(p, seen.req)
    BY <1>5 DEF HoldsForRequester
  <2> QED
    BY <1>2, <2>1, <2>2, <2>3, OnwardInv
<1> QED
  BY <1>3, <1>4, <1>5

\* A step keeps what the pass has found out true.
LEMMA PassStep == TypeOK /\ PassInv /\ [Next]_vars => PassInv'
<1> SUFFICES ASSUME TypeOK, PassInv, [Next]_vars PROVE PassInv'
  OBVIOUS
<1>1. pass \in Passes /\ seen \in Copies
  BY DEF TypeOK
<1>2. pass.at = "idle" => pass = NoPass
  BY DEF PassInv
<1>3. CASE UNCHANGED vars
  BY <1>3 DEF vars, PassInv, requestForBoot, Spent
<1>4. CASE Conductor
  <2>1. pass' = pass /\ drift' = drift /\ seen' = seen /\ boot' = boot
    BY <1>4 DEF Conductor, Grant, Join, Free
  <2>2. pass.granted => entry' # {} \/ ended'
    <3>1. CASE Grant \/ Join
      BY <3>1 DEF Grant, Join
    <3>2. CASE Free
      BY <1>2, <3>2, NoPassInv DEF Free
    <3> QED
      BY <1>4, <3>1, <3>2 DEF Conductor
  <2>3. pass.doc = "request" => requestForBoot(seen.req)'
    BY <2>1 DEF PassInv, requestForBoot, Spent
  <2> QED
    BY <2>1, <2>2, <2>3 DEF PassInv
<1>5. CASE People \/ DeadlinePasses
  BY <1>2, <1>5, IdleInv DEF People, Edit, FileRequest, RemoveHold, Withdraw, PersonTurns, DeadlinePasses
<1>6. CASE Kubelet
  <2>1. UNCHANGED <<pass, entry, ended, drift, seen, boot>>
    BY <1>6 DEF Kubelet, Bind, Leave
  <2> QED
    BY <2>1 DEF PassInv, requestForBoot, Spent
<1>7. CASE Begin
  <2>1. ASSUME NEW g \in BOOLEAN, NEW e, e = [NoPass EXCEPT !.at = "node", !.drift = drift, !.granted = g]
        PROVE  e.at = "node" /\ e.doc = "none" /\ e.drift = drift /\ e.granted = g
    BY <2>1 DEF NoPass
  <2>2. ASSUME NEW e, e = [NoPass EXCEPT !.at = "node", !.drift = drift]
        PROVE  e.at = "node" /\ e.doc = "none" /\ e.drift = drift /\ ~e.granted
    BY <2>2 DEF NoPass
  <2>3. \/ pass' = [NoPass EXCEPT !.at = "node", !.drift = drift, !.granted = holdsTurn(seen'.entry)]
        \/ pass' = [NoPass EXCEPT !.at = "node", !.drift = drift]
    BY <1>7 DEF Begin
  <2>4. holdsTurn(seen'.entry) \in BOOLEAN /\ (holdsTurn(seen'.entry) => entry # {})
    BY DEF holdsTurn
  <2>5. pass'.at = "node" /\ pass'.doc = "none" /\ pass'.drift = drift /\ (pass'.granted => entry # {})
    BY <2>1, <2>2, <2>3, <2>4
  <2>6. entry' = entry /\ drift' = drift
    BY <1>7 DEF Begin
  <2> QED
    BY <2>5, <2>6 DEF PassInv
<1>8. CASE ReadNode
  <2>1. ASSUME NEW x PROVE [seen EXCEPT !.node = x].req = seen.req
    BY <1>1 DEF Copies
  <2>2. seen'.req = seen.req
    BY <1>8, <2>1 DEF ReadNode, Copy
  <2>3. ASSUME NEW e, e = [pass EXCEPT !.at = "requests", !.nodeRead = TRUE]
        PROVE  e.at = "requests" /\ e.doc = pass.doc /\ e.granted = pass.granted /\ e.drift = pass.drift
    BY <1>1, <2>3 DEF Passes
  <2>4. ASSUME NEW e, e = [pass EXCEPT !.at = "requests"]
        PROVE  e.at = "requests" /\ e.doc = pass.doc /\ e.granted = pass.granted /\ e.drift = pass.drift
    BY <1>1, <2>4 DEF Passes
  <2>5. pass'.at = "requests" /\ pass'.doc = pass.doc /\ pass'.granted = pass.granted /\ pass'.drift = pass.drift
    BY <1>8, <2>3, <2>4 DEF ReadNode
  <2>6. pass.doc = "none" /\ pass.at # "idle" /\ UNCHANGED <<entry, ended, drift, boot>>
    BY <1>8 DEF ReadNode, PassInv
  <2>7. "requests" \in Steps \ {"idle"}
    BY DEF Steps
  <2> QED
    BY <2>2, <2>5, <2>6, <2>7, MoveInv
<1>9. CASE ReadRequests
  <2>1. pass.doc = "none" /\ pass.at # "idle" /\ UNCHANGED <<entry, ended, drift, boot>>
    BY <1>9 DEF ReadRequests, PassInv
  <2>2. CASE pass' = Onward(pass, None)
    BY <1>1, <2>1, <2>2, OnwardInv
  <2>3. CASE pass' = Onward([pass EXCEPT !.requestsRead = TRUE], seen'.req)
    <3> DEFINE p == [pass EXCEPT !.requestsRead = TRUE]
    <3>1. p \in Passes /\ p.doc = pass.doc /\ p.granted = pass.granted /\ p.drift = pass.drift
      BY <1>1 DEF Passes
    <3> QED
      BY <2>1, <2>3, <3>1, OnwardInv
  <2> QED
    BY <1>9, <2>2, <2>3 DEF ReadRequests
<1>10. CASE SkipDrain \/ StayHeld \/ Ask
  <2>1. (Reboots \/ Holds \/ HoldsForRequester) /\ pass.at # "idle" /\ seen' = seen
        /\ UNCHANGED <<entry, ended, drift, boot>>
    BY <1>10 DEF SkipDrain, StayHeld, Ask
  <2> QED
    BY <2>1, DrainInv
<1>11. CASE ListPods
  <2>1. ASSUME NEW x PROVE [seen EXCEPT !.pods = x].req = seen.req
    BY <1>1 DEF Copies
  <2>2. seen'.req = seen.req
    BY <1>11, <2>1 DEF ListPods, Copy
  <2>3. pass.at = "gate" /\ UNCHANGED <<entry, ended, drift, boot>> /\ pass.doc # "none"
    BY <1>11 DEF ListPods, PassInv
  <2>4. CASE Holds
    BY <2>2, <2>3, <2>4, DrainInv
  <2>5. CASE pass' = [pass EXCEPT !.at = "cordon"]
    <3>1. pass'.at = "cordon" /\ pass'.doc = pass.doc /\ pass'.granted = pass.granted /\ pass'.drift = pass.drift
      BY <1>1, <2>5 DEF Passes
    <3>2. "cordon" \in Steps \ {"idle"}
      BY DEF Steps
    <3> QED
      BY <2>2, <2>3, <3>1, <3>2, MoveInv
  <2> QED
    BY <1>11, <2>4, <2>5 DEF ListPods
<1>12. CASE Cordon
  <2>1. pass.at = "cordon" /\ UNCHANGED <<entry, ended, drift, boot>> /\ pass.doc # "none" /\ seen' = seen
    BY <1>12 DEF Cordon, PassInv
  <2>2. CASE Holds
    BY <2>1, <2>2, DrainInv
  <2>3. CASE pass' = [pass EXCEPT !.at = "ask"]
    <3>1. pass'.at = "ask" /\ pass'.doc = pass.doc /\ pass'.granted = pass.granted /\ pass'.drift = pass.drift
      BY <1>1, <2>3 DEF Passes
    <3>2. "ask" \in Steps \ {"idle"}
      BY DEF Steps
    <3> QED
      BY <2>1, <3>1, <3>2, MoveInv
  <2> QED
    BY <1>12, <2>2, <2>3 DEF Cordon
<1>13. CASE Tidy
  <2>1. pass'.at = "settle" /\ pass'.doc = pass.doc /\ pass'.granted = pass.granted /\ pass'.drift = pass.drift
    BY <1>1, <1>13 DEF Tidy, Passes
  <2>2. "settle" \in Steps \ {"idle"}
    BY DEF Steps
  <2>3. pass.at # "idle" /\ UNCHANGED <<entry, ended, drift, boot>> /\ seen' = seen
    BY <1>13 DEF Tidy
  <2> QED
    BY <2>1, <2>2, <2>3, MoveInv
<1>14. CASE Settle \/ RestartOperator \/ Reboot
  BY <1>14, IdleInv DEF Settle, RestartOperator, Reboot
<1> QED
  BY <1>3, <1>4, <1>5, <1>6, <1>7, <1>8, <1>9, <1>10, <1>11, <1>12, <1>13, <1>14 DEF Next, Pass
-----------------------------------------------------------------------------
\* The first states hold the invariant.
LEMMA InitInv == Init => IInv
<1> SUFFICES ASSUME Init PROVE IInv
  OBVIOUS
<1>1. PassInv
  BY NoPassInv DEF Init, PassInv
<1>2. seen.req = None /\ req = None /\ seen.pods = pods
  BY DEF Init, Fresh
<1>3. HashInv /\ CopyInv
  BY <1>2 DEF HashInv, CopyInv
<1>4. BootInv
  BY <1>2 DEF Init, BootInv, Live, One
<1>5. AskedInv
  BY <1>2 DEF Init, AskedInv
<1> QED
  BY <1>1, <1>3, <1>4, <1>5 DEF IInv

\* The types and the invariant hold in every state.
LEMMA InvariantHolds == Spec => [](TypeOK /\ IInv)
<1>1. Init => TypeOK /\ IInv
  BY InitType, InitInv
<1>2. TypeOK /\ IInv /\ [Next]_vars => (TypeOK /\ IInv)'
  BY TypeStep, PassStep, HashStep, CopyStep, BootStep, AskedStep DEF IInv
<1> QED
  BY <1>1, <1>2, PTL DEF Spec

\* Each object and each copy keeps its shape, and the boots stay within what the
\* edits and the one request paid for (turn.go, disruptions.go, requests.go).
THEOREM TypeCorrect == Spec => []TypeOK
  BY InvariantHolds, PTL

\* The operator asks init for a reboot only inside a turn, or when the conductor
\* took the turn back after the pass read it (holdsTurn).
THEOREM RebootsInTheTurn == Spec => RebootsInTurn
<1>1. TypeOK /\ IInv /\ [Next]_vars => [~intent /\ intent' => entry # {} \/ ended]_vars
  <2> SUFFICES ASSUME TypeOK, IInv, [Next]_vars, ~intent, intent' PROVE entry # {} \/ ended
    OBVIOUS
  <2>1. pass.at \in {"gate", "ask"}
    BY IntentFrame
  <2> QED
    BY <2>1 DEF IInv, PassInv
<1> QED
  BY <1>1, InvariantHolds, PTL DEF Spec, RebootsInTurn

\* No document and no other request reboots a machine under the requester that works
\* on it, when the pass could read the Node and the requests (holdingRequests).
THEOREM HoldStandsAlways == Spec => HoldStands
<1>1. TypeOK /\ IInv /\ [Next]_vars =>
        [~intent /\ intent' /\ pass.nodeRead /\ pass.requestsRead =>
           ~(req # None /\ req.held /\ req.hold /\ ~Done(req, boot))]_vars
  <2> SUFFICES ASSUME TypeOK, IInv, [Next]_vars, ~intent, intent', pass.nodeRead, pass.requestsRead,
                      req # None, req.held, req.hold, ~Done(req, boot)
               PROVE  FALSE
    OBVIOUS
  <2>1. ~holdingRequests
    BY IntentFrame
  <2>2. seen.req # None /\ seen.req.hold
    BY DEF IInv, CopyInv
  <2>3. Done(seen.req, boot)
    BY <2>1, <2>2 DEF holdingRequests
  <2>4. seen.req.hash # None
    BY <2>2 DEF IInv, HashInv
  <2> QED
    BY <2>2, <2>3, <2>4 DEF IInv, CopyInv, Done, Spent
<1> QED
  BY <1>1, InvariantHolds, PTL DEF Spec, HoldStands

\* A driver is asked to leave only when no pod whose claim it prepared is on its way
\* out, nor runs where the pass could see it, although pods are bound and leave
\* between the list and the call (drainOrder).
THEOREM DriversAreAskedLast == Spec => DriversLeaveLast
<1>1. TypeOK /\ IInv /\ [Next]_vars =>
        [\A d \in Drivers : pods[d] = "running" /\ pods'[d] = "leaving" =>
           \A h \in Holders :
              /\ pods[h] # "leaving"
              /\ pods[h] = "running" => seen.pods[h] = "away"]_vars
  <2> SUFFICES ASSUME TypeOK, IInv, [Next]_vars,
                      NEW d \in Drivers, pods[d] = "running", pods'[d] = "leaving",
                      NEW h \in Holders
               PROVE  pods[h] # "leaving" /\ (pods[h] = "running" => seen.pods[h] = "away")
    OBVIOUS
  <2>1. d \in Pods /\ h \in Pods
    BY DEF Pods
  <2>2. d \in drainOrder
    BY <2>1, Asked
  <2>3. h \notin evictablePods
    BY <2>2 DEF drainOrder
  <2>4. seen.pods[h] = "away"
    BY <2>1, <2>3 DEF evictablePods
  <2> QED
    BY <2>1, <2>4 DEF IInv, AskedInv
<1> QED
  BY <1>1, InvariantHolds, PTL DEF Spec, DriversLeaveLast
=============================================================================
