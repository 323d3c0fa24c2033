------------------------------ MODULE PerNode ------------------------------
(***************************************************************************)
(* The per-node CSI driver (per-node-csi-driver/node.go, holds.go,         *)
(* store.go, sweep.go, mount.go): one handle on one node.  The kubelet     *)
(* publishes the node's copy of the handle to pods, several calls at once, *)
(* and the driver's sweep removes a copy that no PersistentVolume names.   *)
(* A call is a sequence of system calls and of reads and writes of the     *)
(* hold; only the hold's single reads and writes are locked.  A read of    *)
(* the hold and the system calls next to it, which touch nothing that the  *)
(* hold depends on, are one step.  Handles share nothing but the pass of a *)
(* sweep, which may take any time.                                         *)
(***************************************************************************)
EXTENDS Naturals, Sequences

CONSTANTS
    Targets,    \* the paths that the kubelet names
    Assignments,    \* the pods of the targets, as functions
    None,       \* no hold, no record
    Torn,       \* a record that was not written to its end
    MaxEdits,   \* bound: writes and deletes of the PersistentVolume
    MaxFaults   \* bound: failed system calls, restarts of the driver or of the node,
                \* and calls that the kubelet gives up

ASSUME TargetsAssumption == {None, Torn} \cap Targets = {} /\ None # Torn
ASSUME BoundsAssumption == MaxEdits \in Nat /\ MaxFaults \in Nat

VARIABLES
    pod,        \* the instance: the pod of each target; constant in a behaviour
    volume,     \* a PersistentVolume names the handle
    view,       \* the informer's store: not synced, or whether it has the volume
    phase,      \* each target for the kubelet
    copy,       \* the copy exists
    dirs,       \* the targets that exist
    mounts,     \* the stack of mounts at each target
    hold,       \* the driver's memory: the target of the hold
    file,       \* the record of the hold on the disk
    calls,      \* the calls that the driver works on
    sweep,      \* the sweep's pass
    since,      \* history: the holds taken since the pass read them
    strayed,    \* history: the kubelet gave a call up
    lost,       \* history: a hold was overwritten, dropped, not recorded or not read back
    edits, faults   \* the counters of the bounds

cluster == <<pod, volume, edits>>
disk == <<copy, dirs, mounts>>
record == <<hold, file, since, lost>>
vars == <<cluster, view, phase, disk, record, calls, sweep, strayed, faults>>

Pods == {pod[t] : t \in Targets}
Steps == {"check", "unbind", "bind", "hold", "write", "remove", "drop", "erase"}
Call == [target : Targets, op : {"publish", "unpublish"}, step : Steps,
         saw : Targets \cup {None}, stray : BOOLEAN]
NewCall(t, op, step) == [target |-> t, op |-> op, step |-> step, saw |-> None, stray |-> FALSE]

TypeOK ==
    /\ pod \in Assignments /\ volume \in BOOLEAN /\ copy \in BOOLEAN
    /\ strayed \in BOOLEAN /\ lost \in BOOLEAN
    /\ view \in {"unsynced", "has", "lacks"}
    /\ phase \in [Targets -> {"gone", "wanted", "runs", "ended"}]
    /\ dirs \subseteq Targets /\ since \subseteq Targets
    /\ mounts \in [Targets -> Seq({"copy", "orphan"})]
    /\ hold \in Targets \cup {None} /\ file \in Targets \cup {None, Torn}
    /\ calls \subseteq Call
    /\ sweep \in {"idle", "held", "remove"}
    /\ edits \in 0 .. MaxEdits /\ faults \in 0 .. MaxFaults

Fault == faults < MaxFaults /\ faults' = faults + 1

-----------------------------------------------------------------------------
(* The PersistentVolume and its watch. *)

EditVolume ==
    /\ edits < MaxEdits
    /\ volume' = ~volume /\ edits' = edits + 1
    /\ UNCHANGED <<pod, view, phase, disk, record, calls, sweep, strayed, faults>>

Viewed == IF volume THEN "has" ELSE "lacks"

\* The first list, and each change that the watch delivers.
WatchDelivers ==
    /\ view # Viewed /\ view' = Viewed
    /\ UNCHANGED <<cluster, phase, disk, record, calls, sweep, strayed, faults>>

-----------------------------------------------------------------------------
(* The kubelet.  It has one call about a target at a time, and repeats one  *)
(* that failed or whose answer did not come.                                *)

\* A new pod has paths of its own: the model takes those of an earlier pod again
\* when nothing of it is left.  Bound: no pod comes after a hold was lost.
LeftNothing(t) ==
    /\ phase[t] = "gone" /\ mounts[t] = <<>> /\ t \notin {hold, file}
    /\ \A c \in calls : c.target # t

PodArrives(p) ==
    /\ volume /\ ~lost
    /\ \A t \in Targets : pod[t] = p => LeftNothing(t)
    /\ phase' = [t \in Targets |-> IF pod[t] = p THEN "wanted" ELSE phase[t]]
    /\ UNCHANGED <<cluster, view, disk, record, calls, sweep, strayed, faults>>

PodEnds(p) ==
    /\ \A t \in Targets : pod[t] = p => phase[t] \in {"wanted", "runs"}
    /\ phase' = [t \in Targets |-> IF pod[t] = p THEN "ended" ELSE phase[t]]
    /\ UNCHANGED <<cluster, view, disk, record, calls, sweep, strayed, faults>>

Asked(t) == \E c \in calls : c.target = t /\ ~c.stray

Sends(t, call) ==
    /\ ~Asked(t)
    /\ calls' = calls \cup {call}
    /\ UNCHANGED <<cluster, view, phase, disk, record, sweep, strayed, faults>>

SendPublish(t) == phase[t] = "wanted" /\ Sends(t, NewCall(t, "publish", "check"))
SendUnpublish(t) == phase[t] = "ended" /\ Sends(t, NewCall(t, "unpublish", "unbind"))

\* The kubelet's deadline passes, and the driver goes on with the call.
GiveUp(c) ==
    /\ ~c.stray /\ Fault
    /\ calls' = (calls \ {c}) \cup {[c EXCEPT !.stray = TRUE]}
    /\ strayed' = TRUE
    /\ UNCHANGED <<cluster, view, phase, disk, record, sweep>>

-----------------------------------------------------------------------------
(* The ends of a call, and its next step. *)

Goes(c, step) == calls' = (calls \ {c}) \cup {[c EXCEPT !.step = step]} /\ UNCHANGED phase

Fails(c) == calls' = calls \ {c} /\ UNCHANGED phase

Succeeds(c) ==
    /\ calls' = calls \ {c}
    /\ phase' = IF c.stray THEN phase
                ELSE IF c.op = "unpublish" THEN [phase EXCEPT ![c.target] = "gone"]
                ELSE [phase EXCEPT ![c.target] = IF @ = "wanted" THEN "runs" ELSE @]

\* A system call of the step fails.
Breaks(c) ==
    /\ c.step \in {"check", "unbind", "bind", "remove"}
    /\ Fault /\ Fails(c)
    /\ UNCHANGED <<cluster, view, disk, record, sweep, strayed>>

-----------------------------------------------------------------------------
(* NodePublishVolume. *)

\* Mutant: the hold is told by its target.
HeldElsewhere(t) == hold \notin {None, t}

HeldByOther(t) == hold # None /\ pod[hold] # pod[t]

Refuse(c) ==
    /\ c.step = "check" /\ HeldByOther(c.target) /\ Fails(c)
    /\ UNCHANGED <<cluster, view, disk, record, sweep, strayed, faults>>

AlreadyHeld(c) ==
    /\ c.step = "check" /\ hold = c.target /\ Succeeds(c)
    /\ UNCHANGED <<cluster, view, disk, record, sweep, strayed, faults>>

\* The hold is read, and the copy and the target are made.
Prepare(c) ==
    /\ c.step = "check" /\ ~HeldByOther(c.target) /\ hold # c.target
    /\ Goes(c, "unbind")
    /\ copy' = TRUE /\ dirs' = dirs \cup {c.target}
    /\ UNCHANGED <<cluster, view, mounts, record, sweep, strayed, faults>>

\* Mutant: a publish leaves what is mounted at the target.
LeavesMount(c) == IF c.op = "publish" THEN mounts[c.target] ELSE Tail(mounts[c.target])

\* unbind: one mount comes away, and a target with none is not an error.
detached(c) == Tail(mounts[c.target])

Unbind(c) ==
    /\ c.step = "unbind" /\ Goes(c, IF c.op = "publish" THEN "bind" ELSE "remove")
    /\ mounts' = IF mounts[c.target] = <<>> THEN mounts ELSE [mounts EXCEPT ![c.target] = detached(c)]
    /\ UNCHANGED <<cluster, view, copy, dirs, record, sweep, strayed, faults>>

Bind(c) ==
    /\ c.step = "bind"
    /\ IF copy /\ c.target \in dirs
       THEN Goes(c, "hold") /\ mounts' = [mounts EXCEPT ![c.target] = <<"copy">> \o @]
       ELSE Fails(c) /\ UNCHANGED mounts
    /\ UNCHANGED <<cluster, view, copy, dirs, record, sweep, strayed, faults>>

\* keepHold, in memory and then on the disk.  Another pod's hold may be there by now.
KeepHold(c) ==
    /\ c.step = "hold" /\ Goes(c, "write")
    /\ hold' = c.target
    /\ since' = IF sweep = "remove" THEN since \cup {c.target} ELSE since
    /\ lost' = (lost \/ HeldByOther(c.target))
    /\ UNCHANGED <<cluster, view, disk, file, sweep, strayed, faults>>

\* A record that cannot be written is logged, and the pod keeps its mount.
WriteHold(c) ==
    /\ c.step = "write" /\ Succeeds(c)
    /\ \/ file' = c.target /\ lost' = (lost \/ hold # c.target) /\ UNCHANGED faults
       \/ Fault /\ file' \in {file, Torn} /\ lost' = TRUE
    /\ UNCHANGED <<cluster, view, disk, hold, since, sweep, strayed>>

-----------------------------------------------------------------------------
(* NodeUnpublishVolume. *)

\* Mutant: an unpublish gives the handle up whatever the hold names.
NeverAnothers(c) == FALSE

\* Mutant: an unpublish leaves the hold.
AlwaysAnothers(c) == hold # None

\* The hold names another target.
holdsAnother(c) == hold # None /\ hold # c.target

\* A target that is still a mount is busy.
TargetBusy(c) ==
    /\ c.step = "remove" /\ mounts[c.target] # <<>> /\ Fails(c)
    /\ UNCHANGED <<cluster, view, disk, record, sweep, strayed, faults>>

\* The target is removed, and the hold is read.
RemoveTarget(c) ==
    /\ c.step = "remove" /\ mounts[c.target] = <<>>
    /\ dirs' = dirs \ {c.target}
    /\ IF holdsAnother(c) THEN Succeeds(c)
       ELSE /\ calls' = (calls \ {c}) \cup {[c EXCEPT !.step = "drop", !.saw = hold]}
            /\ UNCHANGED phase
    /\ UNCHANGED <<cluster, view, copy, mounts, record, sweep, strayed, faults>>

\* dropHold, in memory and then on the disk.  The hold may be another one by now.
DropHold(c) ==
    /\ c.step = "drop" /\ UNCHANGED phase
    /\ calls' = (calls \ {c}) \cup {[c EXCEPT !.step = "erase", !.saw = None]}
    /\ hold' = None /\ lost' = (lost \/ hold # c.saw)
    /\ UNCHANGED <<cluster, view, disk, file, since, sweep, strayed, faults>>

\* A record that cannot be removed is logged.
EraseHold(c) ==
    /\ c.step = "erase" /\ Succeeds(c)
    /\ \/ file' = None /\ lost' = (lost \/ hold # None) /\ UNCHANGED faults
       \/ Fault /\ UNCHANGED <<file, lost>>
    /\ UNCHANGED <<cluster, view, disk, hold, since, sweep, strayed>>

-----------------------------------------------------------------------------
(* The sweep. *)

\* A deletion or the ticker starts a pass over the volumes in the store.  One that
\* finds the handle named changes nothing.
SweepBegins ==
    /\ sweep = "idle" /\ view = "lacks"
    /\ sweep' = "held"
    /\ UNCHANGED <<cluster, view, phase, disk, record, calls, strayed, faults>>

\* heldHandles.
heldHandle == hold # None

\* The holds are read, and then the copies: nothing tells the two apart.
ReadHeld ==
    /\ sweep = "held"
    /\ sweep' = IF copy /\ ~heldHandle THEN "remove" ELSE "idle"
    /\ UNCHANGED <<cluster, view, phase, disk, record, calls, strayed, faults>>

\* The mounts of a removed copy stay, and show a directory that is gone.
RemoveCopy ==
    /\ sweep = "remove" /\ sweep' = "idle" /\ since' = {}
    /\ \/ /\ copy' = FALSE
          /\ mounts' = [t \in Targets |-> [i \in DOMAIN mounts[t] |-> "orphan"]]
          /\ UNCHANGED faults
       \/ Fault /\ UNCHANGED <<copy, mounts>>
    /\ UNCHANGED <<cluster, view, phase, dirs, hold, file, lost, calls, strayed>>

-----------------------------------------------------------------------------
(* Restarts. *)

\* Mutant: a record is taken as it is.
TakesAny(recorded, mounted) == recorded

\* Mutant: a hold is not read back.
ForgetsHolds(recorded, mounted) == None

\* resume: a record that cannot be read, and one whose target is no mount, is dropped.
resume(recorded, mounted) ==
    IF recorded \in Targets /\ mounted[recorded] # <<>> THEN recorded ELSE None

\* What a crash may leave of a record that is being written.
Recorded == {file} \cup {r \in Targets \cup {Torn} :
    \E c \in calls : c.step = "write" /\ r \in {c.target, Torn}}

\* The hold is read back; or it is not, since the directory, the record or the mount
\* table cannot be read or the record cannot be removed, all of which is logged at most.
Restarts(recorded, mounted) ==
    /\ \/ hold' = resume(recorded, mounted) /\ file' = hold'
       \/ hold' = None /\ file' \in {None, recorded}
    /\ calls' = {} /\ sweep' = "idle" /\ view' = "unsynced" /\ since' = {}

\* A write of a hold that is no longer the driver's is at work.
Superseded == \E c \in calls : c.step = "write" /\ c.target # hold

\* With a call that the kubelet gave up, the record or the mount of a hold may be missing
\* although a repeated call was answered.
RestartDriver ==
    /\ Fault
    /\ \E recorded \in Recorded :
        /\ Restarts(recorded, mounts)
        /\ lost' = (lost \/ (hold' # hold /\ (strayed \/ Superseded \/ hold' # resume(recorded, mounts))))
    /\ UNCHANGED <<cluster, phase, disk, strayed>>

\* The node's reboot takes the mounts away, and the kubelet publishes again.
RebootNode ==
    /\ Fault
    /\ mounts' = [t \in Targets |-> <<>>]
    /\ Restarts(file, mounts')
    /\ phase' = [t \in Targets |-> IF phase[t] = "runs" THEN "wanted" ELSE phase[t]]
    /\ UNCHANGED <<cluster, copy, dirs, lost, strayed>>

-----------------------------------------------------------------------------
Init ==
    /\ pod \in Assignments
    /\ volume \in BOOLEAN /\ view = "unsynced"
    /\ phase = [t \in Targets |-> "gone"]
    /\ copy = ~volume /\ dirs = {} /\ mounts = [t \in Targets |-> <<>>]
    /\ hold = None /\ file = None /\ calls = {} /\ sweep = "idle"
    /\ since = {} /\ strayed = FALSE /\ lost = FALSE
    /\ edits = 0 /\ faults = 0

Publish(c) == Refuse(c) \/ AlreadyHeld(c) \/ Prepare(c) \/ Bind(c) \/ KeepHold(c) \/ WriteHold(c)
Unpublish(c) == TargetBusy(c) \/ RemoveTarget(c) \/ DropHold(c) \/ EraseHold(c)
Works(c) == Unbind(c) \/ Publish(c) \/ Unpublish(c)
Kubelet(t) == SendPublish(t) \/ SendUnpublish(t)
Sweeps == SweepBegins \/ ReadHeld \/ RemoveCopy

Next ==
    \/ EditVolume \/ WatchDelivers
    \/ \E p \in Pods : PodArrives(p) \/ PodEnds(p)
    \/ \E t \in Targets : Kubelet(t)
    \/ \E c \in calls : Works(c) \/ Breaks(c) \/ GiveUp(c)
    \/ Sweeps \/ RestartDriver \/ RebootNode

Spec == Init /\ [][Next]_vars

\* The driver works on its calls, the kubelet repeats them, the watch delivers, and
\* the ticker starts a pass after a pass.
FairSpec ==
    /\ Spec /\ WF_vars(WatchDelivers) /\ WF_vars(Sweeps)
    /\ \A t \in Targets :
        /\ WF_vars(Kubelet(t))
        /\ WF_vars(\E c \in calls : c.target = t /\ Works(c))

-----------------------------------------------------------------------------
(* The properties. *)

Running(p) == \A t \in Targets : pod[t] = p => phase[t] = "runs"

\* One pod on the node runs with the copy, across restarts of the driver, failed
\* calls, repeated calls and the unpublish of a refused pod (node.go, holds.go).  The
\* exceptions are what lost names: a second write of the hold that did not see the
\* first, a record that could not be written, and one that a new driver could not
\* read or match with the mount table.
OnePodRuns == ~lost => \A p, q \in Pods : Running(p) /\ Running(q) => p = q

\* A sweep begins to remove the copy of no running pod, whether the removal succeeds or
\* fails half-way, except of one that took its hold after the pass had read the holds
\* (sweep.go; holds.go, heldHandles).
SweepSpares ==
    [][RemoveCopy => lost \/ \A p \in Pods :
        Running(p) => \E t \in since : pod[t] = p]_vars

\* A pod that runs has one mount at each of its targets, also after a restart; a bind
\* never stacks on the mount that a stopped driver left; and a target that the kubelet
\* has done with is no mount (mount, resume, NodeUnpublishVolume).
TargetsClean ==
    strayed \/ \A t \in Targets :
        /\ Len(mounts[t]) <= 1
        /\ phase[t] = "runs" => mounts[t] # <<>>
        /\ phase[t] = "gone" => mounts[t] = <<>>

\* A copy whose volume is gone for good is removed once its pods are gone: neither a
\* hold nor a failed removal keeps it (sweep.go, the ticker; volume.md:93).
CopyDies ==
    <>[](~strayed /\ ~volume /\ \A t \in Targets : phase[t] \notin {"wanted", "runs"})
        => <>[]~copy

\* A pod that waits for the copy gets it when no other pod stays: no hold outlives its
\* pod (NodeUnpublishVolume, dropHold, resume).
TakesOver ==
    \A t \in Targets :
        []<>(~strayed /\ volume /\ phase[t] = "wanted" =>
                \E u \in Targets : pod[u] # pod[t] /\ phase[u] \in {"wanted", "runs"})
=============================================================================
