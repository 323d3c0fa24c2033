---------------------------- MODULE PerNodeProofs ----------------------------
(* What TLAPS proves of the per-node CSI driver. *)
EXTENDS PerNode, SequenceTheorems, TLAPS

Done(t) == phase[t] \in {"ended", "gone"}

\* The targets of a pod arrive together and end together.
PodInv == \A t, u \in Targets : pod[t] = pod[u] /\ Done(t) => Done(u)

\* The steps of each kind of call; the kubelet unpublishes what has ended; and a drop
\* saw its own target or no hold.
CallInv == \A c \in calls :
    /\ c.op = "publish" => c.step \in {"check", "unbind", "bind", "hold", "write"}
    /\ c.op = "unpublish" => c.step \in {"unbind", "remove", "drop", "erase"} /\ Done(c.target)
    /\ c.step = "drop" => c.saw \in {None, c.target}

\* Unless a hold was lost: the running pod has it, a publish that is to write it still
\* has it, and the record has it or is being written.
RunnerHolds == \A p \in Pods : Running(p) => hold # None /\ pod[hold] = p
WriterHolds == \A c \in calls : c.step = "write" /\ ~Done(c.target) =>
    hold # None /\ pod[hold] = pod[c.target]
Recording == hold \in {None, file} \/ \E c \in calls : c.step = "write" /\ c.target = hold
HoldInv == ~lost => RunnerHolds /\ WriterHolds /\ Recording

\* A hold that stands while a pass removes was taken after the pass read the holds.
SinceInv == sweep = "remove" => hold \in since \cup {None}

\* Unless the kubelet gave a call up: a target has one call, and its mount is where the
\* call and the hold say.
OneCall == \A c, d \in calls : c.target = d.target => c = d
CallMount(c) ==
    /\ ~c.stray
    /\ c.op = "publish" => phase[c.target] \in {"wanted", "ended"}
    /\ c.op = "publish" /\ c.step \in {"unbind", "bind", "hold"} => hold # c.target
    /\ c.step \in {"hold", "write"} => mounts[c.target] # <<>>
    /\ c.step \in {"bind", "remove", "drop", "erase"} => mounts[c.target] = <<>>
CallMounts == \A c \in calls : CallMount(c)
HoldMount == hold # None /\ ~Done(hold) => mounts[hold] # <<>>
Clean == \A t \in Targets :
    /\ Len(mounts[t]) <= 1
    /\ phase[t] = "runs" => mounts[t] # <<>>
    /\ phase[t] = "gone" => mounts[t] = <<>>
MountInv == ~strayed => OneCall /\ CallMounts /\ HoldMount /\ Clean

IInv == PodInv /\ CallInv /\ HoldInv /\ SinceInv /\ MountInv
-----------------------------------------------------------------------------
\* Types.

\* The steps that keep calls: a new call, one that goes on, one that is given up.
LEMMA CallTypes ==
    /\ \A t \in Targets : /\ NewCall(t, "publish", "check") \in Call
                          /\ NewCall(t, "unpublish", "unbind") \in Call
    /\ \A c \in Call, step \in Steps : [c EXCEPT !.step = step] \in Call
    /\ \A c \in Call, step \in Steps, saw \in Targets \cup {None} :
            [c EXCEPT !.step = step, !.saw = saw] \in Call
    /\ \A c \in Call : [c EXCEPT !.stray = TRUE] \in Call
<1>1. \A t \in Targets : /\ NewCall(t, "publish", "check") \in Call
                         /\ NewCall(t, "unpublish", "unbind") \in Call
  BY DEF Call, NewCall, Steps
<1> QED
  BY <1>1 DEF Call

\* The initial states have the types.
LEMMA InitType == Init => TypeOK
<1> SUFFICES ASSUME Init PROVE TypeOK
  OBVIOUS
<1>1. <<>> \in Seq({"copy", "orphan"})
  BY EmptySeq
<1>2. mounts \in [Targets -> Seq({"copy", "orphan"})]
  BY <1>1 DEF Init
<1>3. edits \in 0 .. MaxEdits /\ faults \in 0 .. MaxFaults
  BY BoundsAssumption DEF Init
<1> QED
  BY <1>2, <1>3 DEF Init, TypeOK

\* Every step keeps the types.
LEMMA TypeStep == TypeOK /\ [Next]_vars => TypeOK'
<1> SUFFICES ASSUME TypeOK, [Next]_vars PROVE TypeOK'
  OBVIOUS
<1> USE DEF cluster, disk, record
<1>a. calls \subseteq Call
  BY DEF TypeOK
<1>1. CASE EditVolume
  BY <1>1, BoundsAssumption DEF TypeOK, EditVolume
<1>2. CASE WatchDelivers
  BY <1>2 DEF TypeOK, WatchDelivers, Viewed
<1>3. ASSUME NEW p \in Pods, PodArrives(p) \/ PodEnds(p) PROVE TypeOK'
  BY <1>3 DEF TypeOK, PodArrives, PodEnds
<1>4. ASSUME NEW t \in Targets, Kubelet(t) PROVE TypeOK'
  <2>1. \E call \in Call : calls' = calls \cup {call}
    BY <1>4, CallTypes DEF Kubelet, SendPublish, SendUnpublish, Sends
  <2> QED
    BY <1>4, <1>a, <2>1 DEF TypeOK, Kubelet, SendPublish, SendUnpublish, Sends
<1>5. ASSUME NEW c \in calls, Unbind(c) PROVE TypeOK'
  <2>1. c.target \in Targets
    BY <1>a DEF Call
  <2>2. calls' \subseteq Call
    BY <1>5, <1>a, CallTypes DEF Unbind, Goes, Steps
  <2>3. mounts' \in [Targets -> Seq({"copy", "orphan"})]
    BY <1>5, <2>1 DEF TypeOK, Unbind, detached
  <2> QED
    BY <1>5, <2>2, <2>3 DEF TypeOK, Unbind, Goes
<1>6. ASSUME NEW c \in calls, Publish(c) PROVE TypeOK'
  <2>1. c.target \in Targets
    BY <1>a DEF Call
  <2>2. calls' \subseteq Call
    BY <1>6, <1>a, CallTypes
    DEF Publish, Refuse, AlreadyHeld, Prepare, Bind, KeepHold, WriteHold, Goes, Fails, Succeeds, Steps
  <2>3. CASE Refuse(c)
    BY <2>2, <2>3 DEF TypeOK, Refuse, Fails
  <2>4. CASE AlreadyHeld(c)
    BY <2>1, <2>2, <2>4 DEF TypeOK, AlreadyHeld, Succeeds
  <2>5. CASE Prepare(c)
    BY <2>1, <2>2, <2>5 DEF TypeOK, Prepare, Goes
  <2>6. CASE Bind(c)
    <3>1. <<"copy">> \o mounts[c.target] \in Seq({"copy", "orphan"})
      BY <2>1 DEF TypeOK
    <3>2. mounts' \in [Targets -> Seq({"copy", "orphan"})]
      BY <2>1, <2>6, <3>1 DEF TypeOK, Bind
    <3> QED
      BY <2>2, <2>6, <3>2 DEF TypeOK, Bind, Goes, Fails
  <2>7. CASE KeepHold(c)
    BY <2>1, <2>2, <2>7 DEF TypeOK, KeepHold, Goes
  <2>8. CASE WriteHold(c)
    <3>1. phase' \in [Targets -> {"gone", "wanted", "runs", "ended"}]
      BY <2>1, <2>8 DEF TypeOK, WriteHold, Succeeds
    <3>2. faults' \in 0 .. MaxFaults
      BY <2>8, BoundsAssumption DEF TypeOK, WriteHold, Fault
    <3>3. file' \in Targets \cup {None, Torn} /\ lost' \in BOOLEAN
      BY <2>1, <2>8 DEF TypeOK, WriteHold
    <3> QED
      BY <2>2, <2>8, <3>1, <3>2, <3>3 DEF TypeOK, WriteHold
  <2> QED
    BY <1>6, <2>3, <2>4, <2>5, <2>6, <2>7, <2>8 DEF Publish
<1>7. ASSUME NEW c \in calls, Unpublish(c) PROVE TypeOK'
  <2>1. c.target \in Targets
    BY <1>a DEF Call
  <2>2. calls' \subseteq Call
    <3>1. hold \in Targets \cup {None}
      BY DEF TypeOK
    <3>2. \A step \in {"drop", "erase"}, saw \in {hold, None} :
              [c EXCEPT !.step = step, !.saw = saw] \in Call
      BY <1>a, <3>1, CallTypes DEF Steps
    <3> QED
      BY <1>7, <1>a, <3>2
      DEF Unpublish, TargetBusy, RemoveTarget, DropHold, EraseHold, Fails, Succeeds
  <2>3. CASE TargetBusy(c)
    BY <2>2, <2>3 DEF TypeOK, TargetBusy, Fails
  <2>4. CASE RemoveTarget(c)
    BY <2>1, <2>2, <2>4 DEF TypeOK, RemoveTarget, Succeeds
  <2>5. CASE DropHold(c)
    BY <2>2, <2>5 DEF TypeOK, DropHold
  <2>6. CASE EraseHold(c)
    <3>1. phase' \in [Targets -> {"gone", "wanted", "runs", "ended"}]
      BY <2>1, <2>6 DEF TypeOK, EraseHold, Succeeds
    <3>2. faults' \in 0 .. MaxFaults
      BY <2>6, BoundsAssumption DEF TypeOK, EraseHold, Fault
    <3>3. file' \in Targets \cup {None, Torn} /\ lost' \in BOOLEAN
      BY <2>6 DEF TypeOK, EraseHold
    <3> QED
      BY <2>2, <2>6, <3>1, <3>2, <3>3 DEF TypeOK, EraseHold
  <2> QED
    BY <1>7, <2>3, <2>4, <2>5, <2>6 DEF Unpublish
<1>8. ASSUME NEW c \in calls, Breaks(c) \/ GiveUp(c) PROVE TypeOK'
  <2>1. calls' \subseteq Call
    BY <1>8, <1>a, CallTypes DEF Breaks, GiveUp, Fails
  <2>2. faults' \in 0 .. MaxFaults
    BY <1>8, BoundsAssumption DEF TypeOK, Breaks, GiveUp, Fault
  <2> QED
    BY <1>8, <2>1, <2>2 DEF TypeOK, Breaks, GiveUp, Fails
<1>9. CASE Sweeps
  <2>1. \A t \in Targets : [i \in DOMAIN mounts[t] |-> "orphan"] \in Seq({"copy", "orphan"})
    BY DEF TypeOK
  <2>2. CASE SweepBegins \/ ReadHeld
    BY <2>2 DEF TypeOK, SweepBegins, ReadHeld
  <2>3. CASE RemoveCopy
    <3>1. mounts' \in [Targets -> Seq({"copy", "orphan"})]
      BY <2>1, <2>3 DEF TypeOK, RemoveCopy
    <3>2. faults' \in 0 .. MaxFaults
      BY <2>3, BoundsAssumption DEF TypeOK, RemoveCopy, Fault
    <3> QED
      BY <2>3, <3>1, <3>2 DEF TypeOK, RemoveCopy
  <2> QED
    BY <1>9, <2>2, <2>3 DEF Sweeps
<1>10. CASE RestartDriver \/ RebootNode
  <2>1. ASSUME NEW recorded \in Targets \cup {None, Torn}, NEW mounted, Restarts(recorded, mounted)
        PROVE  /\ hold' \in Targets \cup {None} /\ file' \in Targets \cup {None, Torn}
               /\ calls' \subseteq Call /\ since' \subseteq Targets
               /\ sweep' = "idle" /\ view' = "unsynced"
    BY <2>1 DEF Restarts, resume
  <2>2. CASE RestartDriver
    <3>1. Recorded \subseteq Targets \cup {None, Torn}
      BY DEF Recorded, TypeOK
    <3>2. lost' \in BOOLEAN
      BY <2>2 DEF TypeOK, RestartDriver
    <3>3. PICK recorded \in Recorded : Restarts(recorded, mounts)
      BY <2>2 DEF RestartDriver
    <3>4. /\ hold' \in Targets \cup {None} /\ file' \in Targets \cup {None, Torn}
          /\ calls' \subseteq Call /\ since' \subseteq Targets
          /\ sweep' = "idle" /\ view' = "unsynced"
      BY <2>1, <3>1, <3>3
    <3> QED
      BY <2>2, <3>2, <3>4, BoundsAssumption DEF TypeOK, RestartDriver, Fault
  <2>3. CASE RebootNode
    <3>1. mounts' \in [Targets -> Seq({"copy", "orphan"})]
      BY <2>3, EmptySeq DEF RebootNode
    <3>2. file \in Targets \cup {None, Torn} /\ Restarts(file, mounts')
      BY <2>3 DEF TypeOK, RebootNode
    <3>3. /\ hold' \in Targets \cup {None} /\ file' \in Targets \cup {None, Torn}
          /\ calls' \subseteq Call /\ since' \subseteq Targets
          /\ sweep' = "idle" /\ view' = "unsynced"
      BY <2>1, <3>2
    <3> QED
      BY <2>3, <3>1, <3>3, BoundsAssumption DEF TypeOK, RebootNode, Fault
  <2> QED
    BY <1>10, <2>2, <2>3
<1>11. CASE UNCHANGED vars
  BY <1>11 DEF TypeOK, vars
<1> QED
  BY <1>1, <1>2, <1>3, <1>4, <1>5, <1>6, <1>7, <1>8, <1>9, <1>10, <1>11 DEF Next, Works

\* The variables keep their types.
THEOREM TypeCorrect == Spec => []TypeOK
  BY InitType, TypeStep, PTL DEF Spec

-----------------------------------------------------------------------------
\* The parts of the invariant.

\* What a call is, for a step that takes one.
LEMMA CallFields ==
    ASSUME TypeOK
    PROVE  \A c \in calls : /\ c \in Call /\ c.target \in Targets /\ c.op \in {"publish", "unpublish"}
                            /\ c.saw \in Targets \cup {None} /\ c.stray \in BOOLEAN
  BY DEF TypeOK, Call

\* Targets are done with, or wanted again, a pod at a time.
LEMMA DoneMoves ==
    ASSUME TypeOK, CallInv, [Next]_vars
    PROVE  /\ pod' = pod
           /\ \/ \A t \in Targets : Done(t)' <=> Done(t)
              \/ \E p \in Pods :
                    /\ PodArrives(p) \/ PodEnds(p)
                    /\ \A t \in Targets : IF pod[t] = p THEN Done(t)' <=> PodEnds(p)
                                         ELSE Done(t)' <=> Done(t)
<1> USE CallFields DEF cluster, Done
<1>1. CASE EditVolume \/ WatchDelivers \/ \E t \in Targets : Kubelet(t)
  BY <1>1 DEF EditVolume, WatchDelivers, Kubelet, SendPublish, SendUnpublish, Sends
<1>2. ASSUME NEW p \in Pods, PodArrives(p)
      PROVE  pod' = pod /\ ~PodEnds(p) /\ \A t \in Targets :
                IF pod[t] = p THEN ~Done(t)' ELSE Done(t)' <=> Done(t)
  BY <1>2 DEF PodArrives, LeftNothing, PodEnds, Pods, TypeOK
<1>3. ASSUME NEW p \in Pods, PodEnds(p)
      PROVE  pod' = pod /\ \A t \in Targets : IF pod[t] = p THEN Done(t)' ELSE Done(t)' <=> Done(t)
  BY <1>3 DEF PodEnds, TypeOK
<1>4. ASSUME NEW c \in calls, Succeeds(c)
      PROVE  \A t \in Targets : Done(t)' <=> Done(t)
  BY <1>4 DEF Succeeds, TypeOK, CallInv
<1>5. ASSUME NEW c \in calls, Works(c) \/ Breaks(c) \/ GiveUp(c)
      PROVE  pod' = pod /\ \A t \in Targets : Done(t)' <=> Done(t)
  BY <1>4, <1>5 DEF Works, Unbind, Publish, Unpublish, Refuse, AlreadyHeld, Prepare, Bind, KeepHold,
     WriteHold, TargetBusy, RemoveTarget, DropHold, EraseHold, Breaks, GiveUp, Goes, Fails
<1>6. CASE Sweeps \/ RestartDriver
  BY <1>6 DEF Sweeps, SweepBegins, ReadHeld, RemoveCopy, RestartDriver
<1>7. CASE RebootNode
  BY <1>7 DEF RebootNode, TypeOK
<1>8. CASE UNCHANGED vars
  BY <1>8 DEF vars
<1> QED
  BY <1>1, <1>2, <1>3, <1>5, <1>6, <1>7, <1>8 DEF Next

\* Every step keeps the targets of a pod together: DoneMoves.
LEMMA PodStep == TypeOK /\ PodInv /\ CallInv /\ [Next]_vars => PodInv'
<1> SUFFICES ASSUME TypeOK, PodInv, CallInv, [Next]_vars PROVE PodInv'
  OBVIOUS
<1> QED
  BY DoneMoves DEF PodInv

\* Every step keeps what a call's step says of it: a call of the next state is one of
\* this state, its successor, or a new one.
LEMMA CallStep == TypeOK /\ PodInv /\ CallInv /\ [Next]_vars => CallInv'
<1> SUFFICES ASSUME TypeOK, PodInv, CallInv, [Next]_vars PROVE CallInv'
  OBVIOUS
<1> USE CallFields
<1> DEFINE Ok(c) == /\ c.op = "publish" => c.step \in {"check", "unbind", "bind", "hold", "write"}
                    /\ c.op = "unpublish" => c.step \in {"unbind", "remove", "drop", "erase"} /\ Done(c.target)'
                    /\ c.step = "drop" => c.saw \in {None, c.target}
<1> SUFFICES ASSUME NEW d \in calls' PROVE Ok(d)
  BY DEF CallInv
<1>1. ASSUME NEW c \in calls PROVE c.op = "unpublish" => Done(c.target)'
  <2>1. c.op = "unpublish" => Done(c.target)
    BY DEF CallInv
  <2>2. ASSUME NEW p \in Pods, PodArrives(p), pod[c.target] = p PROVE FALSE
    BY <2>2 DEF PodArrives, LeftNothing
  <2> QED
    BY <2>1, <2>2, DoneMoves
<1>2. CASE d \in calls
  BY <1>1, <1>2 DEF CallInv
<1>3. ASSUME NEW t \in Targets, Kubelet(t), d \notin calls PROVE Ok(d)
  BY <1>3 DEF Kubelet, SendPublish, SendUnpublish, Sends, NewCall, Done, cluster
<1>4. ASSUME NEW c \in calls, NEW step \in Steps, Goes(c, step), d \notin calls
      PROVE  d.op = c.op /\ d.target = c.target /\ d.step = step
  BY <1>4 DEF Goes, Call
<1>5. ASSUME NEW c \in calls, GiveUp(c), d \notin calls PROVE Ok(d)
  BY <1>1, <1>5 DEF GiveUp, Call, CallInv
<1>6. ASSUME NEW c \in calls, Unbind(c), d \notin calls PROVE Ok(d)
  BY <1>1, <1>4, <1>6 DEF Unbind, Steps
<1>7. ASSUME NEW c \in calls, Publish(c), d \notin calls PROVE Ok(d)
  BY <1>1, <1>4, <1>7 DEF Publish, Refuse, AlreadyHeld, Prepare, Bind, KeepHold, WriteHold, Fails, Succeeds, Steps, CallInv
<1>8. ASSUME NEW c \in calls, Unpublish(c), d \notin calls PROVE Ok(d)
  <2>1. CASE RemoveTarget(c)
    <3>1. d = [c EXCEPT !.step = "drop", !.saw = hold] /\ hold \in {None, c.target}
      BY <1>8, <2>1 DEF RemoveTarget, Succeeds, holdsAnother
    <3>2. d.op = c.op /\ d.target = c.target /\ d.step = "drop" /\ d.saw = hold
      BY <3>1 DEF Call
    <3> QED
      BY <1>1, <2>1, <3>1, <3>2 DEF RemoveTarget, CallInv
  <2>2. CASE DropHold(c)
    <3>1. d = [c EXCEPT !.step = "erase", !.saw = None]
      BY <1>8, <2>2 DEF DropHold
    <3>2. d.op = c.op /\ d.target = c.target /\ d.step = "erase" /\ d.saw = None
      BY <3>1 DEF Call
    <3> QED
      BY <1>1, <2>2, <3>2 DEF DropHold, CallInv
  <2> QED
    BY <1>8, <2>1, <2>2 DEF Unpublish, TargetBusy, EraseHold, Fails, Succeeds
<1>9. CASE EditVolume \/ WatchDelivers \/ Sweeps \/ RestartDriver \/ RebootNode \/ UNCHANGED vars \/ \E p \in Pods : PodArrives(p) \/ PodEnds(p)
  BY <1>2, <1>9 DEF EditVolume, WatchDelivers, Sweeps, SweepBegins, ReadHeld, RemoveCopy, RestartDriver, RebootNode, Restarts, vars, PodArrives, PodEnds
<1>10. ASSUME NEW c \in calls, Breaks(c), d \notin calls PROVE FALSE
  BY <1>10 DEF Breaks, Fails
<1> QED
  BY <1>2, <1>3, <1>5, <1>6, <1>7, <1>8, <1>9, <1>10 DEF Next, Works

\* Every step keeps: a hold that stands while a pass removes is a new one.
LEMMA SinceStep == TypeOK /\ SinceInv /\ [Next]_vars => SinceInv'
<1> SUFFICES ASSUME TypeOK, SinceInv, [Next]_vars PROVE SinceInv'
  OBVIOUS
<1> USE CallFields DEF SinceInv, record
<1>1. CASE EditVolume \/ WatchDelivers \/ UNCHANGED vars
  BY <1>1 DEF EditVolume, WatchDelivers, vars
<1>2. ASSUME NEW p \in Pods, PodArrives(p) \/ PodEnds(p) PROVE SinceInv'
  BY <1>2 DEF PodArrives, PodEnds
<1>3. ASSUME NEW t \in Targets, Kubelet(t) PROVE SinceInv'
  BY <1>3 DEF Kubelet, SendPublish, SendUnpublish, Sends
<1>4. ASSUME NEW c \in calls, Unbind(c) \/ Breaks(c) \/ GiveUp(c) PROVE SinceInv'
  BY <1>4 DEF Unbind, Breaks, GiveUp
<1>5. ASSUME NEW c \in calls, Publish(c) PROVE SinceInv'
  BY <1>5 DEF Publish, Refuse, AlreadyHeld, Prepare, Bind, KeepHold, WriteHold
<1>6. ASSUME NEW c \in calls, Unpublish(c) PROVE SinceInv'
  BY <1>6 DEF Unpublish, TargetBusy, RemoveTarget, DropHold, EraseHold
<1>7. CASE Sweeps
  BY <1>7 DEF Sweeps, SweepBegins, ReadHeld, RemoveCopy, heldHandle
<1>8. CASE RestartDriver \/ RebootNode
  BY <1>8 DEF RestartDriver, RebootNode, Restarts
<1> QED
  BY <1>1, <1>2, <1>3, <1>4, <1>5, <1>6, <1>7, <1>8 DEF Next, Works

\* A step takes calls away, adds one that was not asked, or takes one a step further.
LEMMA CallMoves ==
    ASSUME TypeOK, [Next]_vars
    PROVE  \/ calls' \subseteq calls
           \/ \E call : calls' = calls \cup {call} /\ ~Asked(call.target)
           \/ \E c \in calls : \E d : calls' = (calls \ {c}) \cup {d} /\ d.target = c.target
<1> USE CallFields
<1>1. CASE EditVolume \/ WatchDelivers \/ UNCHANGED vars \/ Sweeps \/ RestartDriver \/ RebootNode
  BY <1>1 DEF EditVolume, WatchDelivers, vars, Sweeps, SweepBegins, ReadHeld, RemoveCopy, RestartDriver,
     RebootNode, Restarts
<1>2. ASSUME NEW p \in Pods, PodArrives(p) \/ PodEnds(p) PROVE calls' = calls
  BY <1>2 DEF PodArrives, PodEnds
<1>3. ASSUME NEW t \in Targets, Kubelet(t)
      PROVE  \E call : calls' = calls \cup {call} /\ ~Asked(call.target)
  <2>1. NewCall(t, "publish", "check").target = t /\ NewCall(t, "unpublish", "unbind").target = t
    BY DEF NewCall
  <2>2. ~Asked(t)
    BY <1>3 DEF Kubelet, SendPublish, SendUnpublish, Sends
  <2>3. \E call \in {NewCall(t, "publish", "check"), NewCall(t, "unpublish", "unbind")} : calls' = calls \cup {call}
    BY <1>3 DEF Kubelet, SendPublish, SendUnpublish, Sends
  <2> QED
    BY <2>1, <2>2, <2>3
<1>4. ASSUME NEW c \in calls, NEW step, Goes(c, step)
      PROVE  \E d : calls' = (calls \ {c}) \cup {d} /\ d.target = c.target
  <2>1. [c EXCEPT !.step = step].target = c.target
    BY DEF Call
  <2> QED
    BY <1>4, <2>1 DEF Goes
<1>5. ASSUME NEW c \in calls, Fails(c) \/ Succeeds(c) PROVE calls' \subseteq calls
  BY <1>5 DEF Fails, Succeeds
<1>6. ASSUME NEW c \in calls, GiveUp(c)
      PROVE  \E d : calls' = (calls \ {c}) \cup {d} /\ d.target = c.target
  <2>1. [c EXCEPT !.stray = TRUE].target = c.target
    BY DEF Call
  <2> QED
    BY <1>6, <2>1 DEF GiveUp
<1>7. ASSUME NEW c \in calls, NEW step, NEW saw, calls' = (calls \ {c}) \cup {[c EXCEPT !.step = step, !.saw = saw]}
      PROVE  \E d : calls' = (calls \ {c}) \cup {d} /\ d.target = c.target
  <2>1. [c EXCEPT !.step = step, !.saw = saw].target = c.target
    BY DEF Call
  <2> QED
    BY <1>7, <2>1
<1>8. ASSUME NEW c \in calls, Unbind(c) \/ Publish(c) \/ Breaks(c)
      PROVE  \/ calls' \subseteq calls
             \/ \E d : calls' = (calls \ {c}) \cup {d} /\ d.target = c.target
  BY <1>4, <1>5, <1>8 DEF Unbind, Publish, Refuse, AlreadyHeld, Prepare, Bind, KeepHold, WriteHold, Breaks
<1>9. ASSUME NEW c \in calls, Unpublish(c)
      PROVE  \/ calls' \subseteq calls
             \/ \E d : calls' = (calls \ {c}) \cup {d} /\ d.target = c.target
  BY <1>5, <1>7, <1>9 DEF Unpublish, TargetBusy, RemoveTarget, DropHold, EraseHold
<1> QED
  BY <1>1, <1>2, <1>3, <1>6, <1>8, <1>9 DEF Next, Works

\* Unless the kubelet gave a call up, a target has one call.
LEMMA OneCallStep ==
    ASSUME TypeOK, OneCall, \A c \in calls : ~c.stray, [Next]_vars
    PROVE  OneCall'
<1>1. CASE calls' \subseteq calls
  BY <1>1 DEF OneCall
<1>2. ASSUME NEW call, calls' = calls \cup {call}, ~Asked(call.target) PROVE OneCall'
  BY <1>2 DEF OneCall, Asked
<1>3. ASSUME NEW c \in calls, NEW d, calls' = (calls \ {c}) \cup {d}, d.target = c.target PROVE OneCall'
  BY <1>3 DEF OneCall
<1> QED
  BY <1>1, <1>2, <1>3, CallMoves

\* The kubelet's giving up is remembered.
LEMMA StrayedStays == ASSUME TypeOK, [Next]_vars, ~strayed' PROVE ~strayed
  BY DEF Next, vars, EditVolume, WatchDelivers, PodArrives, PodEnds, Kubelet, SendPublish, SendUnpublish, Sends,
     Works, Unbind, Publish, Refuse, AlreadyHeld, Prepare, Bind, KeepHold, WriteHold, Unpublish, TargetBusy,
     RemoveTarget, DropHold, EraseHold, Breaks, GiveUp, Sweeps, SweepBegins, ReadHeld, RemoveCopy,
     RestartDriver, RebootNode

\* The two ways in which a mount changes.
LEMMA MountMoves ==
    ASSUME NEW s \in Seq({"copy", "orphan"}), Len(s) <= 1
    PROVE  /\ s # <<>> => Tail(s) = <<>>
           /\ Len(<<"copy">> \o <<>>) = 1 /\ <<"copy">> \o <<>> # <<>>
           /\ Len([i \in DOMAIN s |-> "orphan"]) <= 1
           /\ [i \in DOMAIN s |-> "orphan"] = <<>> <=> s = <<>>
<1>1. ASSUME s # <<>> PROVE Tail(s) = <<>>
  <2>1. Tail(s) \in Seq({"copy", "orphan"}) /\ Len(Tail(s)) = Len(s) - 1
    BY <1>1, HeadTailProperties
  <2>2. Len(s) \in Nat \ {0}
    BY <1>1, EmptySeq
  <2> QED
    BY <2>1, <2>2, EmptySeq
<1>2. Len(<<"copy">> \o <<>>) = 1 /\ <<"copy">> \o <<>> # <<>>
  OBVIOUS
<1>3. Len([i \in DOMAIN s |-> "orphan"]) <= 1 /\ ([i \in DOMAIN s |-> "orphan"] = <<>> <=> s = <<>>)
  OBVIOUS
<1> QED
  BY <1>1, <1>2, <1>3

\* What becomes of a target's only call.
LEMMA OnlyCall ==
    ASSUME TypeOK, OneCall, NEW c \in calls
    PROVE  /\ \A step : Goes(c, step) => phase' = phase /\ \A d \in calls' :
                \/ d \in calls /\ d.target # c.target
                \/ /\ d.target = c.target /\ d.op = c.op /\ d.step = step
                   /\ d.saw = c.saw /\ d.stray = c.stray
           /\ Fails(c) => phase' = phase /\ \A d \in calls' : d \in calls /\ d.target # c.target
           /\ Succeeds(c) => \A d \in calls' : d \in calls /\ d.target # c.target
<1> USE CallFields
<1>1. ASSUME NEW step, Goes(c, step)
      PROVE  phase' = phase /\ \A d \in calls' :
                \/ d \in calls /\ d.target # c.target
                \/ /\ d.target = c.target /\ d.op = c.op /\ d.step = step
                   /\ d.saw = c.saw /\ d.stray = c.stray
  <2>1. LET e == [c EXCEPT !.step = step]
        IN  e.target = c.target /\ e.op = c.op /\ e.step = step /\ e.saw = c.saw /\ e.stray = c.stray
    BY DEF Call
  <2> QED
    BY <1>1, <2>1 DEF Goes, OneCall
<1>2. Fails(c) \/ Succeeds(c) => \A d \in calls' : d \in calls /\ d.target # c.target
  BY DEF Fails, Succeeds, OneCall
<1> QED
  BY <1>1, <1>2 DEF Fails

\* Unless the kubelet gives a call up, every step keeps the mounts where the calls and
\* the hold say: an action changes the mount of its call's target, which has no other call.
LEMMA MountStep ==
    ASSUME TypeOK, PodInv, CallInv, OneCall, CallMounts, HoldMount, Clean, [Next]_vars, ~strayed'
    PROVE  CallMounts' /\ HoldMount' /\ Clean'
<1> USE CallFields DEF cluster, disk, record
<1>1. CASE EditVolume \/ WatchDelivers \/ UNCHANGED vars \/ SweepBegins \/ ReadHeld
  BY <1>1 DEF EditVolume, WatchDelivers, vars, SweepBegins, ReadHeld, CallMounts, CallMount, HoldMount, Clean, Done
<1>2. ASSUME NEW p \in Pods, PodArrives(p) PROVE CallMounts' /\ HoldMount' /\ Clean'
  BY <1>2 DEF PodArrives, LeftNothing, CallMounts, CallMount, HoldMount, Clean, Done, TypeOK
<1>3. ASSUME NEW p \in Pods, PodEnds(p) PROVE CallMounts' /\ HoldMount' /\ Clean'
  BY <1>3 DEF PodEnds, CallMounts, CallMount, HoldMount, Clean, Done, TypeOK
<1>4. ASSUME NEW t \in Targets, Kubelet(t) PROVE CallMounts' /\ HoldMount' /\ Clean'
  BY <1>4 DEF Kubelet, SendPublish, SendUnpublish, Sends, NewCall, CallMounts, CallMount, HoldMount, Clean, Done
<1>5. ASSUME NEW c \in calls, Unbind(c) PROVE CallMounts' /\ HoldMount' /\ Clean'
  <2>1. mounts' = [mounts EXCEPT ![c.target] = <<>>]
    BY <1>5, MountMoves DEF Unbind, detached, Clean, TypeOK
  <2>2. \A d \in calls' : CallMount(d)'
    BY <1>5, <2>1, OnlyCall DEF Unbind, CallInv, CallMounts, CallMount, TypeOK
  <2>3. HoldMount'
    BY <1>5, <2>1 DEF Unbind, Goes, CallInv, CallMounts, CallMount, HoldMount, Done, TypeOK
  <2>4. Clean'
    BY <1>5, <2>1, EmptySeq DEF Unbind, Goes, CallInv, CallMounts, CallMount, Clean, Done, TypeOK
  <2> QED
    BY <2>2, <2>3, <2>4 DEF CallMounts
<1>6. ASSUME NEW c \in calls, Bind(c) PROVE CallMounts' /\ HoldMount' /\ Clean'
  <2>1. mounts[c.target] = <<>>
    BY <1>6 DEF Bind, CallMounts, CallMount
  <2>2. \/ Goes(c, "hold") /\ mounts' = [mounts EXCEPT ![c.target] = <<"copy">>]
        \/ Fails(c) /\ mounts' = mounts
    <3>1. <<"copy">> \o mounts[c.target] = <<"copy">>
      BY <2>1
    <3> QED
      BY <1>6, <3>1 DEF Bind
  <2>3. c.step = "bind" /\ UNCHANGED <<hold, pod, phase>>
    BY <1>6, <2>2 DEF Bind, Goes, Fails
  <2>4. c.op = "publish" /\ phase[c.target] \in {"wanted", "ended"} /\ hold # c.target
    BY <2>3 DEF CallInv, CallMounts, CallMount
  <2>5. mounts \in [Targets -> Seq({"copy", "orphan"})]
    BY DEF TypeOK
  <2>6. CASE Fails(c) /\ mounts' = mounts
    BY <2>3, <2>6, OnlyCall DEF CallMounts, CallMount, HoldMount, Clean, Done
  <2>7. CASE Goes(c, "hold") /\ mounts' = [mounts EXCEPT ![c.target] = <<"copy">>]
    <3>1. mounts'[c.target] = <<"copy">> /\ \A t \in Targets : t # c.target => mounts'[t] = mounts[t]
      BY <2>5, <2>7
    <3>2. <<"copy">> # <<>> /\ Len(<<"copy">>) = 1
      OBVIOUS
    <3>3. \A d \in calls' : CallMount(d)'
      BY <2>3, <2>4, <2>7, <3>1, <3>2, OnlyCall DEF CallMounts, CallMount
    <3>4. HoldMount'
      BY <2>3, <2>4, <3>1, <3>2 DEF HoldMount, Done, TypeOK
    <3>5. Clean'
      <4>1. ASSUME NEW t \in Targets
            PROVE  /\ Len(mounts'[t]) <= 1
                   /\ phase'[t] = "runs" => mounts'[t] # <<>>
                   /\ phase'[t] = "gone" => mounts'[t] = <<>>
        <5>1. CASE t = c.target
          <6>1. mounts'[t] = <<"copy">> /\ Len(mounts'[t]) = 1 /\ mounts'[t] # <<>>
            BY <3>1, <3>2, <5>1
          <6>2. phase'[t] \in {"wanted", "ended"}
            BY <2>3, <2>4, <5>1
          <6> QED
            BY <6>1, <6>2
        <5>2. CASE t # c.target
          BY <2>3, <3>1, <5>2 DEF Clean
        <5> QED
          BY <5>1, <5>2
      <4> QED
        BY <4>1 DEF Clean
    <3> QED
      BY <3>3, <3>4, <3>5 DEF CallMounts
  <2> QED
    BY <2>2, <2>6, <2>7
<1>7. ASSUME NEW c \in calls, KeepHold(c) PROVE CallMounts' /\ HoldMount' /\ Clean'
  <2>1. \A d \in calls' : CallMount(d)'
    BY <1>7, OnlyCall DEF KeepHold, CallInv, CallMounts, CallMount, TypeOK
  <2>2. HoldMount' /\ Clean'
    BY <1>7 DEF KeepHold, Goes, CallMounts, CallMount, HoldMount, Clean, Done
  <2> QED
    BY <2>1, <2>2 DEF CallMounts
<1>8. ASSUME NEW c \in calls, Refuse(c) \/ Prepare(c) \/ TargetBusy(c) \/ Breaks(c)
      PROVE  CallMounts' /\ HoldMount' /\ Clean'
  BY <1>8 DEF Refuse, Prepare, TargetBusy, Breaks, Goes, Fails, CallInv, OneCall, CallMounts, CallMount, HoldMount, Clean, Done, Call
<1>9. ASSUME NEW c \in calls, AlreadyHeld(c) \/ WriteHold(c) PROVE CallMounts' /\ HoldMount' /\ Clean'
  <2>1. mounts' = mounts /\ hold' = hold /\ Succeeds(c) /\ c.op = "publish"
    BY <1>9 DEF AlreadyHeld, WriteHold, CallInv
  <2>2. mounts[c.target] # <<>> \/ phase[c.target] = "ended"
    BY <1>9, <2>1, TargetsAssumption DEF AlreadyHeld, WriteHold, CallMounts, CallMount, HoldMount, Done
  <2>3. \A t \in Targets : phase'[t] = phase[t] \/ (t = c.target /\ phase[t] = "wanted" /\ phase'[t] = "runs")
    BY <2>1 DEF Succeeds, TypeOK
  <2>4. \A d \in calls' : CallMount(d)'
    BY <2>1, <2>3, OnlyCall DEF CallMounts, CallMount
  <2>5. HoldMount' /\ Clean'
    BY <2>1, <2>2, <2>3 DEF HoldMount, Clean, Done, TypeOK
  <2> QED
    BY <2>4, <2>5 DEF CallMounts
<1>10. ASSUME NEW c \in calls, RemoveTarget(c) PROVE CallMounts' /\ HoldMount' /\ Clean'
  <2>1. \A t \in Targets : phase'[t] = phase[t] \/ (t = c.target /\ phase'[t] = "gone")
    BY <1>10 DEF RemoveTarget, Succeeds, CallInv, TypeOK
  <2>2. mounts[c.target] = <<>> /\ Done(c.target)
    BY <1>10 DEF RemoveTarget, CallInv, CallMounts, CallMount
  <2>3. \A d \in calls' :
          \/ d \in calls /\ d.target # c.target
          \/ d.target = c.target /\ d.op = c.op /\ ~d.stray /\ d.step \in {"drop", "erase"}
    <3>1. \A d \in calls' : d \in calls \ {c} \/ d = [c EXCEPT !.step = "drop", !.saw = hold]
      BY <1>10 DEF RemoveTarget, Succeeds
    <3>2. ASSUME NEW d, d = [c EXCEPT !.step = "drop", !.saw = hold]
          PROVE  d.target = c.target /\ d.op = c.op /\ ~d.stray /\ d.step \in {"drop", "erase"}
      <4>1. d.target = c.target /\ d.op = c.op /\ d.stray = c.stray /\ d.step = "drop"
        BY <3>2 DEF Call
      <4> QED
        BY <4>1 DEF CallMounts, CallMount
    <3>3. \A d \in calls \ {c} : d.target # c.target
      BY DEF OneCall
    <3> QED
      BY <3>1, <3>2, <3>3
  <2>4. mounts' = mounts /\ hold' \in {hold, None}
    BY <1>10 DEF RemoveTarget
  <2>5. \A d \in calls' : CallMount(d)'
    BY <1>10, <2>1, <2>2, <2>3, <2>4, TargetsAssumption DEF RemoveTarget, CallInv, CallMounts, CallMount
  <2>6. HoldMount' /\ Clean'
    BY <2>1, <2>2, <2>4 DEF HoldMount, Clean, Done, TypeOK
  <2> QED
    BY <2>5, <2>6 DEF CallMounts
<1>11. ASSUME NEW c \in calls, DropHold(c) \/ EraseHold(c) PROVE CallMounts' /\ HoldMount' /\ Clean'
  <2>1. \A t \in Targets : phase'[t] = phase[t] \/ (t = c.target /\ phase'[t] = "gone")
    BY <1>11 DEF DropHold, EraseHold, Succeeds, CallInv, TypeOK
  <2>2. mounts[c.target] = <<>> /\ Done(c.target)
    BY <1>11 DEF DropHold, EraseHold, CallInv, CallMounts, CallMount
  <2>3. \A d \in calls' :
          \/ d \in calls /\ d.target # c.target
          \/ d.target = c.target /\ d.op = c.op /\ ~d.stray /\ d.step \in {"drop", "erase"}
    <3>1. \A d \in calls' : d \in calls \ {c} \/ d = [c EXCEPT !.step = "erase", !.saw = None]
      BY <1>11 DEF DropHold, EraseHold, Succeeds
    <3>2. ASSUME NEW d, d = [c EXCEPT !.step = "erase", !.saw = None]
          PROVE  d.target = c.target /\ d.op = c.op /\ ~d.stray /\ d.step \in {"drop", "erase"}
      <4>1. d.target = c.target /\ d.op = c.op /\ d.stray = c.stray /\ d.step = "erase"
        BY <3>2 DEF Call
      <4> QED
        BY <4>1 DEF CallMounts, CallMount
    <3>3. \A d \in calls \ {c} : d.target # c.target
      BY DEF OneCall
    <3> QED
      BY <3>1, <3>2, <3>3
  <2>4. mounts' = mounts /\ hold' \in {hold, None}
    BY <1>11 DEF DropHold, EraseHold
  <2>5. \A d \in calls' : CallMount(d)'
    BY <1>11, <2>1, <2>2, <2>3, <2>4, TargetsAssumption DEF DropHold, EraseHold, CallInv, CallMounts, CallMount
  <2>6. HoldMount' /\ Clean'
    BY <2>1, <2>2, <2>4 DEF HoldMount, Clean, Done, TypeOK
  <2> QED
    BY <2>5, <2>6 DEF CallMounts
<1>12. CASE RemoveCopy
  BY <1>12, MountMoves DEF RemoveCopy, CallMounts, CallMount, HoldMount, Clean, Done, TypeOK
<1>13. CASE RestartDriver
  BY <1>13, TargetsAssumption DEF RestartDriver, Restarts, resume, CallMounts, CallMount, HoldMount, Clean, Done, TypeOK
<1>14. CASE RebootNode
  BY <1>14, TargetsAssumption DEF RebootNode, Restarts, resume, CallMounts, CallMount, HoldMount, Clean, Done, TypeOK
<1>15. ASSUME NEW c \in calls, GiveUp(c) PROVE FALSE
  BY <1>15 DEF GiveUp
<1> QED
  BY <1>1, <1>2, <1>3, <1>4, <1>5, <1>6, <1>7, <1>8, <1>9, <1>10, <1>11, <1>12, <1>13, <1>14, <1>15
  DEF Next, Works, Publish, Unpublish, Sweeps

\* A lost hold is remembered.
LEMMA LostStays == ASSUME TypeOK, [Next]_vars, ~lost' PROVE ~lost
  BY DEF Next, vars, record, EditVolume, WatchDelivers, PodArrives, PodEnds, Kubelet, SendPublish, SendUnpublish,
     Sends, Works, Unbind, Publish, Refuse, AlreadyHeld, Prepare, Bind, KeepHold, WriteHold, Unpublish, TargetBusy,
     RemoveTarget, DropHold, EraseHold, Breaks, GiveUp, Sweeps, SweepBegins, ReadHeld, RemoveCopy,
     RestartDriver, RebootNode

\* What HoldInv needs of a step that leaves the hold alone.
LEMMA HoldFrame ==
    ASSUME TypeOK, pod' = pod, hold' = hold
    PROVE  /\ RunnerHolds /\ (\A t \in Targets : phase'[t] = "runs" => phase[t] = "runs") => RunnerHolds'
           /\ WriterHolds /\ (\A t \in Targets : Done(t) => Done(t)')
              /\ (\A d \in calls' : d.step = "write" =>
                    \E c \in calls : c.step = "write" /\ c.target = d.target) => WriterHolds'
           /\ Recording /\ file' = file
              /\ (\A c \in calls : c.step = "write" =>
                    \E d \in calls' : d.step = "write" /\ d.target = c.target) => Recording'
<1> USE CallFields
<1>1. RunnerHolds /\ (\A t \in Targets : phase'[t] = "runs" => phase[t] = "runs") => RunnerHolds'
  BY DEF RunnerHolds, Running, Pods
<1>2. WriterHolds /\ (\A t \in Targets : Done(t) => Done(t)')
      /\ (\A d \in calls' : d.step = "write" => \E c \in calls : c.step = "write" /\ c.target = d.target)
      => WriterHolds'
  BY DEF WriterHolds
<1>3. Recording /\ file' = file
      /\ (\A c \in calls : c.step = "write" => \E d \in calls' : d.step = "write" /\ d.target = c.target)
      => Recording'
  BY DEF Recording
<1> QED
  BY <1>1, <1>2, <1>3

\* Unless a hold is lost, every step leaves the hold with the running pod: the restart
\* is the step that reads it back from the record and the mounts.
LEMMA HoldStep ==
    ASSUME TypeOK, PodInv, CallInv, MountInv, RunnerHolds, WriterHolds, Recording, [Next]_vars, ~lost'
    PROVE  RunnerHolds' /\ WriterHolds' /\ Recording'
<1> USE CallFields, TargetsAssumption DEF cluster, disk, record
<1>1. CASE EditVolume \/ WatchDelivers \/ UNCHANGED vars \/ Sweeps
  BY <1>1 DEF EditVolume, WatchDelivers, vars, Sweeps, SweepBegins, ReadHeld, RemoveCopy,
     RunnerHolds, WriterHolds, Recording, Running, Pods, Done
<1>2. ASSUME NEW p \in Pods, PodArrives(p) \/ PodEnds(p) PROVE RunnerHolds' /\ WriterHolds' /\ Recording'
  <2>1. RunnerHolds'
    <3>1. pod' = pod /\ hold' = hold
      BY <1>2 DEF PodArrives, PodEnds
    <3>2. PICK t \in Targets : pod[t] = p
      BY DEF Pods
    <3>3. phase'[t] # "runs"
      BY <1>2, <3>2 DEF PodArrives, PodEnds
    <3>4. \A u \in Targets : pod[u] # p => phase'[u] = phase[u]
      BY <1>2 DEF PodArrives, PodEnds
    <3>5. ASSUME NEW q \in Pods, Running(q)' PROVE Running(q)
      <4>1. q # p
        BY <3>1, <3>2, <3>3, <3>5 DEF Running
      <4> QED
        BY <3>1, <3>4, <3>5, <4>1 DEF Running
    <3> QED
      BY <3>1, <3>5 DEF RunnerHolds, Pods
  <2>2. WriterHolds'
    BY <1>2 DEF PodArrives, LeftNothing, PodEnds, WriterHolds, Done, TypeOK
  <2>3. Recording'
    BY <1>2 DEF PodArrives, PodEnds, Recording
  <2> QED
    BY <2>1, <2>2, <2>3
<1>3. ASSUME NEW t \in Targets, Kubelet(t) PROVE RunnerHolds' /\ WriterHolds' /\ Recording'
  BY <1>3 DEF Kubelet, SendPublish, SendUnpublish, Sends, NewCall,
     RunnerHolds, WriterHolds, Recording, Running, Pods, Done
<1>4. ASSUME NEW c \in calls, Unbind(c) \/ Prepare(c) \/ Bind(c) \/ Refuse(c) \/ TargetBusy(c) \/ Breaks(c)
      PROVE  RunnerHolds' /\ WriterHolds' /\ Recording'
  <2>1. UNCHANGED <<hold, pod, phase, file>>
    BY <1>4 DEF Unbind, Prepare, Bind, Refuse, TargetBusy, Breaks, Goes, Fails
  <2>2. \A d \in calls' : d.step = "write" => d \in calls
    BY <1>4 DEF Unbind, Prepare, Bind, Refuse, TargetBusy, Breaks, Goes, Fails, Call
  <2>3. \A d \in calls : d.step = "write" => d \in calls'
    BY <1>4 DEF Unbind, Prepare, Bind, Refuse, TargetBusy, Breaks, Goes, Fails, Call
  <2>4. RunnerHolds'
    BY <2>1 DEF RunnerHolds, Running, Pods
  <2>5. WriterHolds'
    BY <2>1, <2>2 DEF WriterHolds, Done
  <2>6. Recording'
    BY <2>1, <2>3 DEF Recording
  <2> QED
    BY <2>4, <2>5, <2>6
<1>5. ASSUME NEW c \in calls, AlreadyHeld(c) PROVE RunnerHolds' /\ WriterHolds' /\ Recording'
  <2>1. \A t \in Targets : (Done(t) => Done(t)') /\ (phase'[t] = "runs" => phase[t] = "runs" \/ t = hold)
    BY <1>5 DEF AlreadyHeld, Succeeds, CallInv, Done, TypeOK
  <2>2. calls' = calls \ {c} /\ c.step = "check" /\ hold = c.target /\ hold' = hold /\ file' = file /\ pod' = pod
    BY <1>5 DEF AlreadyHeld, Succeeds
  <2>3. RunnerHolds'
    BY <2>1, <2>2 DEF RunnerHolds, Running, Pods
  <2>4. WriterHolds' /\ Recording'
    BY <2>1, <2>2, HoldFrame
  <2> QED
    BY <2>3, <2>4
<1>6. ASSUME NEW c \in calls, KeepHold(c) PROVE RunnerHolds' /\ WriterHolds' /\ Recording'
  <2>1. pod' = pod /\ phase' = phase /\ file' = file /\ hold' = c.target
    BY <1>6 DEF KeepHold, Goes
  <2>2. hold = None \/ pod[hold] = pod[c.target]
    BY <1>6 DEF KeepHold, HeldByOther
  <2>3. RunnerHolds'
    BY <2>1, <2>2 DEF RunnerHolds, Running, Pods
  <2>4. PICK e : calls' = (calls \ {c}) \cup {e} /\ e.step = "write" /\ e.target = c.target
    <3>1. LET e == [c EXCEPT !.step = "write"] IN e.step = "write" /\ e.target = c.target
      BY DEF Call
    <3> QED
      BY <1>6, <3>1 DEF KeepHold, Goes
  <2>5. WriterHolds'
    BY <2>1, <2>2, <2>4 DEF WriterHolds, Done
  <2>6. Recording'
    BY <2>1, <2>4 DEF Recording
  <2> QED
    BY <2>3, <2>5, <2>6
<1>7. ASSUME NEW c \in calls, WriteHold(c) PROVE RunnerHolds' /\ WriterHolds' /\ Recording'
  <2>1. hold' = c.target /\ file' = c.target /\ hold = c.target /\ pod' = pod /\ calls' = calls \ {c}
    BY <1>7 DEF WriteHold, Succeeds
  <2>2. \A t \in Targets : (Done(t) => Done(t)') /\ (phase'[t] = "runs" => phase[t] = "runs" \/ t = hold)
    BY <1>7 DEF WriteHold, Succeeds, CallInv, Done, TypeOK
  <2>3. RunnerHolds'
    BY <2>1, <2>2 DEF RunnerHolds, Running, Pods
  <2>4. WriterHolds'
    BY <2>1, <2>2, HoldFrame
  <2>5. Recording'
    BY <2>1 DEF Recording
  <2> QED
    BY <2>3, <2>4, <2>5
<1>8. ASSUME NEW c \in calls, RemoveTarget(c) PROVE RunnerHolds' /\ WriterHolds' /\ Recording'
  <2>1. \A t \in Targets : (Done(t) => Done(t)') /\ (phase'[t] = "runs" => phase[t] = "runs")
    BY <1>8 DEF RemoveTarget, Succeeds, CallInv, Done, TypeOK
  <2>2. c.step = "remove" /\ hold' = hold /\ file' = file /\ pod' = pod
    BY <1>8 DEF RemoveTarget
  <2>3. calls' = calls \ {c} \/ \E e : calls' = (calls \ {c}) \cup {e} /\ e.step = "drop"
    BY <1>8 DEF RemoveTarget, Succeeds, Call
  <2> QED
    BY <2>1, <2>2, <2>3, HoldFrame
<1>9. ASSUME NEW c \in calls, DropHold(c) PROVE RunnerHolds' /\ WriterHolds' /\ Recording'
  <2>1. hold' = None /\ pod' = pod /\ phase' = phase /\ (hold = None \/ hold = c.target) /\ Done(c.target)
    BY <1>9 DEF DropHold, CallInv
  <2>2. c.step = "drop" /\ \E e : calls' = (calls \ {c}) \cup {e} /\ e.step = "erase"
    <3>1. ASSUME NEW e, e = [c EXCEPT !.step = "erase", !.saw = None] PROVE e.step = "erase"
      BY <3>1 DEF Call
    <3> QED
      BY <1>9, <3>1 DEF DropHold
  <2>3. RunnerHolds'
    BY <2>1 DEF RunnerHolds, Running, Pods, Done
  <2>4. WriterHolds'
    BY <2>1, <2>2 DEF WriterHolds, PodInv, Done
  <2>5. Recording'
    BY <2>1 DEF Recording
  <2> QED
    BY <2>3, <2>4, <2>5
<1>10. ASSUME NEW c \in calls, EraseHold(c) PROVE RunnerHolds' /\ WriterHolds' /\ Recording'
  <2>1. \A t \in Targets : (Done(t) => Done(t)') /\ (phase'[t] = "runs" => phase[t] = "runs")
    BY <1>10 DEF EraseHold, Succeeds, CallInv, Done, TypeOK
  <2>2. c.step = "erase" /\ hold' = hold /\ pod' = pod /\ calls' = calls \ {c} /\ (hold = None \/ file' = file)
    BY <1>10 DEF EraseHold, Succeeds
  <2>3. RunnerHolds' /\ WriterHolds'
    BY <2>1, <2>2, HoldFrame
  <2>4. Recording'
    BY <2>2 DEF Recording
  <2> QED
    BY <2>3, <2>4
<1>11. ASSUME NEW c \in calls, GiveUp(c) PROVE RunnerHolds' /\ WriterHolds' /\ Recording'
  <2>1. PICK e : calls' = (calls \ {c}) \cup {e} /\ e.step = c.step /\ e.target = c.target
    <3>1. LET e == [c EXCEPT !.stray = TRUE] IN e.step = c.step /\ e.target = c.target
      BY DEF Call
    <3> QED
      BY <1>11, <3>1 DEF GiveUp
  <2>2. pod' = pod /\ hold' = hold /\ file' = file /\ phase' = phase
    BY <1>11 DEF GiveUp
  <2>3. \A t \in Targets : (Done(t) => Done(t)') /\ (phase'[t] = "runs" => phase[t] = "runs")
    BY <2>2 DEF Done
  <2> QED
    BY <2>1, <2>2, <2>3, HoldFrame
<1>12. CASE RestartDriver
  <2>1. WriterHolds' /\ Recording'
    BY <1>12 DEF RestartDriver, Restarts, WriterHolds, Recording
  <2>2. CASE hold' = hold
    BY <1>12, <2>1, <2>2 DEF RestartDriver, RunnerHolds, Running, Pods
  <2>3. ASSUME hold' # hold, NEW p \in Pods, Running(p) PROVE FALSE
    <3>1. PICK recorded \in Recorded : ~strayed /\ ~Superseded /\ hold' = resume(recorded, mounts)
      BY <1>12, <2>3 DEF RestartDriver
    <3>2. hold \in Targets /\ pod[hold] = p /\ phase[hold] = "runs"
      BY <2>3 DEF RunnerHolds, Running, TypeOK
    <3>3. \A c \in calls : c.target # hold
      BY <3>1, <3>2 DEF MountInv, CallMounts, CallMount, CallInv, Done
    <3>4. file = hold /\ Recorded = {hold}
      BY <3>1, <3>2, <3>3 DEF Recording, Recorded, Superseded
    <3>5. mounts[hold] # <<>>
      BY <3>1, <3>2 DEF MountInv, Clean
    <3> QED
      BY <2>3, <3>1, <3>2, <3>4, <3>5 DEF resume
  <2>4. Pods' = Pods /\ \A p : Running(p)' => Running(p)
    BY <1>12 DEF RestartDriver, Running, Pods
  <2> QED
    BY <2>1, <2>2, <2>3, <2>4 DEF RunnerHolds
<1>13. CASE RebootNode
  BY <1>13 DEF RebootNode, Restarts, RunnerHolds, WriterHolds, Recording, Running, Pods, TypeOK
<1> QED
  BY <1>1, <1>2, <1>3, <1>4, <1>5, <1>6, <1>7, <1>8, <1>9, <1>10, <1>11, <1>12, <1>13
  DEF Next, Works, Publish, Unpublish

-----------------------------------------------------------------------------
\* The invariant and what follows from it.

\* The initial states satisfy the invariant.
LEMMA InitInv == Init => IInv
<1> SUFFICES ASSUME Init PROVE IInv
  OBVIOUS
<1>1. PodInv /\ CallInv /\ SinceInv
  BY DEF Init, PodInv, CallInv, SinceInv, Done
<1>2. RunnerHolds /\ WriterHolds /\ Recording
  BY DEF Init, RunnerHolds, WriterHolds, Recording, Running, Pods
<1>3. OneCall /\ CallMounts /\ HoldMount
  BY DEF Init, OneCall, CallMounts, HoldMount
<1>4. Clean
  <2>1. Len(<<>>) <= 1
    BY EmptySeq
  <2>2. \A t \in Targets : mounts[t] = <<>> /\ phase[t] = "gone"
    BY DEF Init
  <2>3. \A t \in Targets : Len(mounts[t]) <= 1
    BY <2>1, <2>2, Zenon
  <2> QED
    BY <2>2, <2>3 DEF Clean
<1> QED
  BY <1>1, <1>2, <1>3, <1>4 DEF IInv, HoldInv, MountInv

\* Every step keeps the invariant.
LEMMA InvStep == TypeOK /\ IInv /\ [Next]_vars => IInv'
<1> SUFFICES ASSUME TypeOK, IInv, [Next]_vars PROVE IInv'
  OBVIOUS
<1>1. PodInv' /\ CallInv' /\ SinceInv'
  BY PodStep, CallStep, SinceStep DEF IInv
<1>2. ASSUME ~strayed' PROVE (OneCall /\ CallMounts /\ HoldMount /\ Clean)'
  <2>1. OneCall /\ CallMounts /\ HoldMount /\ Clean
    BY <1>2, StrayedStays DEF IInv, MountInv
  <2>2. OneCall'
    BY <2>1, OneCallStep DEF CallMounts, CallMount
  <2> QED
    BY <1>2, <2>1, <2>2, MountStep DEF IInv
<1>3. ASSUME ~lost' PROVE (RunnerHolds /\ WriterHolds /\ Recording)'
  <2>1. RunnerHolds /\ WriterHolds /\ Recording
    BY <1>3, LostStays DEF IInv, HoldInv
  <2> QED
    BY <1>3, <2>1, HoldStep DEF IInv
<1> QED
  BY <1>1, <1>2, <1>3 DEF IInv, MountInv, HoldInv

\* The invariant holds in every state.
LEMMA InvariantHolds == Spec => [](TypeOK /\ IInv)
  BY InitType, TypeStep, InitInv, InvStep, PTL DEF Spec

\* One pod of a node runs with the copy, whatever fails and restarts, unless a hold
\* was lost (holds.go).
THEOREM OnePodHoldsTheCopy == Spec => []OnePodRuns
<1>1. TypeOK /\ IInv => OnePodRuns
  BY DEF IInv, HoldInv, RunnerHolds, OnePodRuns
<1> QED
  BY <1>1, InvariantHolds, PTL

\* Unless the kubelet gave a call up: no mounts stack, a pod that runs has its mounts,
\* and one that is gone leaves none (mount, NodeUnpublishVolume).
THEOREM MountsAreClean == Spec => []TargetsClean
<1>1. TypeOK /\ IInv => TargetsClean
  BY DEF TypeOK, IInv, MountInv, Clean, TargetsClean
<1> QED
  BY <1>1, InvariantHolds, PTL

\* A sweep begins to remove the copy of no running pod, unless a hold was lost, or was
\* taken after the pass read the holds (sweep.go).
THEOREM SweepSparesTheHeld == Spec => SweepSpares
<1>1. ASSUME TypeOK, IInv, RemoveCopy, ~lost, NEW p \in Pods, Running(p)
      PROVE  \E t \in since : pod[t] = p
  <2>1. hold # None /\ pod[hold] = p
    BY <1>1 DEF IInv, HoldInv, RunnerHolds
  <2>2. sweep = "remove"
    BY <1>1 DEF RemoveCopy
  <2> QED
    BY <1>1, <2>1, <2>2 DEF IInv, SinceInv
<1>2. TypeOK /\ IInv =>
        [RemoveCopy => lost \/ \A p \in Pods : Running(p) => \E t \in since : pod[t] = p]_vars
  BY <1>1
<1> QED
  BY <1>2, InvariantHolds, PTL DEF Spec, SweepSpares

=============================================================================
