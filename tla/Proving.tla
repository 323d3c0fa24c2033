------------------------------ MODULE Proving ------------------------------
(***************************************************************************)
(* The proving boot of a release (init/proving.go, machine/staging.go,     *)
(* machine-operator/release.go): one UEFI machine with two system slots.   *)
(*                                                                         *)
(* An operation on the disk or on the firmware is a sequence of writes.    *)
(* The power can fail between any two of them.  A rename or a removal that *)
(* is not synced can then be lost.                                         *)
(***************************************************************************)
EXTENDS Naturals, Sequences, TLC

CONSTANTS
    Releases,   \* what the catalog offers: versions, each under one digest
    Installed,  \* the release that the installer wrote to slot A
    Bad,        \* the releases that boot and never serve the cluster
    None,       \* no document, no boot entry
    Catalogs,   \* the sets of releases that a cluster may ask for
    Forgetting, \* what a firmware returns the head of BootOrder to; None for nothing
    MaxEdits,   \* bound: edits of the cluster's target version
    MaxCuts,    \* bound: power cuts, panics and restarts of the operator
    MaxReboots  \* bound: reboots for other reasons, and firmware updates

Slots == {"A", "B"}
Torn == "torn"      \* files of two releases, or none

Record == [rel : Releases, slot : Slots]
MaybeRecord == Record \cup {None}
Documents == [staged : MaybeRecord, proven : MaybeRecord, attempted : MaybeRecord, note : MaybeRecord]
Entries == Slots \cup {"updater", None}

ASSUME ReleasesAssumption ==
    /\ None \notin Releases \cup Record \cup Slots \cup {"updater", Torn} /\ Torn \notin Releases
    /\ Installed \in Releases \ Bad /\ Bad \subseteq Releases
    /\ Catalogs \subseteq SUBSET Releases /\ Forgetting \subseteq Slots \cup {None}

ASSUME BoundsAssumption == MaxEdits \in Nat /\ MaxCuts \in Nat /\ MaxReboots \in Nat

VARIABLES
    store,      \* the documents: staged, proven, attempted and the rejection's note
    synced,     \* the documents as a power cut leaves them at worst
    fw,         \* the firmware: BootNext, and the head of BootOrder
    disk,       \* each slot's files and its release document
    dirty,      \* the other slot's directory entries are not all on the disk
    power,      \* where the machine is between two resets
    running,    \* the slot of this boot
    kept,       \* bootOrderKept
    trial,      \* the record that this boot proves, which the watch waits for
    sees,       \* the watch saw the promotion, and goes to the firmware
    keep,       \* this reboot keeps a requester's BootNext
    plan,       \* what init has still to write, under the lock firmwareWrites
    todo,       \* what the operator has still to write
    pass,       \* the step of the operator's pass that comes next
    fetch,      \* the fetcher: the ask, whether it is verified, the running download
    target,     \* the Cluster's spec.version
    catalog, forgets,   \* the instance: constant in a behaviour
    trials,     \* history: the boots of the staged record
    served,     \* history: the last record to be proven
    ended,      \* history: how the last boot ended
    handed,     \* history: whether the last reboot handed BootNext over, and if in a trial's boot
    tries,      \* history: this boot is a trial
    exposed,    \* history: a download took a slot that a power cut may boot
    stale,      \* history: the attempt marker outlived its record
    edits, cuts, reboots    \* the counters of the bounds

init == <<kept, trial, sees, keep, plan>>
operator == <<todo, pass, fetch>>
documents == <<store, synced>>
world == <<catalog, forgets, target, edits>>
history == <<trials, served, ended, handed, tries, exposed, stale>>
vars == <<documents, fw, disk, dirty, power, running, init, operator, world, history, cuts, reboots>>

Other(s) == CHOOSE o \in Slots : o # s
\* A write: a document or a firmware variable, and what it becomes.  A promotion
\* renames the staged document onto the proven one.
Sync == <<"sync", None>>
Writes == ({"staged", "proven", "attempted", "note"} \X MaybeRecord) \cup ({"promote"} \X Record)
          \cup ({"next"} \X Entries) \cup ({"order"} \X Slots) \cup {Sync}

TypeOK ==
    /\ store \in Documents /\ synced \in Documents
    /\ fw \in [next : Entries, order : Slots]
    /\ disk \in [Slots -> [files : Releases \cup {Torn}, doc : Releases \cup {None}]]
    /\ dirty \in {"clean", "doc", "files"}
    /\ power \in {"off", "on", "settling", "up", "stopping", "turned"}
    /\ running \in Slots /\ kept \in {"unknown", "kept", "lost"}
    /\ trial \in MaybeRecord /\ {sees, keep, tries, exposed, stale} \subseteq BOOLEAN
    /\ plan \in Seq(Writes) /\ todo \in Seq(Writes)
    /\ pass \in {"settle", "converge"}
    /\ fetch \in [ask : MaybeRecord, verified : BOOLEAN, busy : MaybeRecord, live : BOOLEAN,
                  step : {"doc", "files", "fill", "done"}]
    /\ target \in Releases /\ catalog \subseteq Releases /\ forgets \in Slots \cup {None}
    /\ trials \in 0 .. 2 /\ served \in MaybeRecord /\ ended \in {"reboot", "cut"}
    /\ handed \in {"no", "settled", "trial"}

-----------------------------------------------------------------------------
(* The writes. *)

WriteStaged(r) == <<<<"staged", r>>, Sync>>
WriteProven(r) == <<<<"proven", r>>, Sync>>

\* Mutant: the marker names the release without its slot.
MarksRelease(r) == <<<<"attempted", r.rel>>, Sync>>

WriteAttempted(r) == <<<<"attempted", r>>, Sync>>

Promote == <<<<"promote", store.staged>>, <<"note", None>>, <<"attempted", None>>, Sync>>

Reject == <<<<"note", store.staged>>, Sync, <<"staged", None>>, <<"attempted", None>>, Sync>>

WithdrawStaged ==
    IF store.staged = None THEN <<>> ELSE <<<<"staged", None>>, <<"attempted", None>>, Sync>>

ClearRejection == IF store.note = None THEN <<>> ELSE <<<<"note", None>>, Sync>>

\* Mutant: the standing order alone.
HealsOrderOnly(slot, pinNext) == <<<<"order", slot>>>>

\* assertProven: the proven slot leads BootOrder, and BootNext aims at it.
healBootEntries(slot, pinNext) ==
    IF pinNext THEN <<<<"order", slot>>, <<"next", slot>>>> ELSE <<<<"order", slot>>>>

assertProvenSlot ==
    IF store.proven = None THEN <<>> ELSE healBootEntries(store.proven.slot, TRUE)

\* One write of a sequence takes effect.
Write(op) ==
    /\ store' = IF op[1] = "promote" THEN [store EXCEPT !.staged = None, !.proven = op[2]]
                ELSE IF op[1] \in DOMAIN store THEN [store EXCEPT ![op[1]] = op[2]] ELSE store
    /\ synced' = IF op = Sync THEN store ELSE synced
    /\ fw' = IF op[1] \in DOMAIN fw THEN [fw EXCEPT ![op[1]] = op[2]] ELSE fw
    /\ trials' = IF store'.staged # store.staged THEN 0 ELSE trials
    /\ served' = IF store'.proven # store.proven THEN store'.proven ELSE served
    /\ stale' = (stale /\ op[1] # "attempted")
    /\ UNCHANGED <<ended, handed, tries, exposed>>

InitWrites ==
    /\ plan # <<>>
    /\ Write(Head(plan))
    /\ plan' = Tail(plan)
    /\ UNCHANGED <<disk, dirty, power, running, kept, trial, sees, keep, operator, world, cuts, reboots>>

OperatorWrites ==
    /\ todo # <<>>
    /\ Write(Head(todo))
    /\ todo' = Tail(todo)
    /\ UNCHANGED <<disk, dirty, power, running, init, pass, fetch, world, cuts, reboots>>

-----------------------------------------------------------------------------
(* The boot. *)

\* The heads of BootOrder that a reset may find.
Heads == {IF forgets = None THEN fw.order ELSE forgets}

\* The firmware consumes BootNext, and tries the other slot when it cannot load
\* the first one.
PowerOn ==
    /\ power = "off" /\ fw.next # "updater"
    /\ \E head \in Heads, s \in Slots :
        LET first == IF fw.next = None THEN head ELSE fw.next
        IN  /\ s # first => disk[first].files = Torn
            /\ running' = s
            /\ fw' = [next |-> None, order |-> head]
    /\ power' = "on"
    /\ UNCHANGED <<documents, disk, dirty, init, operator, world, history, cuts, reboots>>

\* The requester's updater runs, and resets the machine.
RunUpdater ==
    /\ power = "off" /\ fw.next = "updater"
    /\ \E head \in Heads : fw' = [next |-> None, order |-> head]
    /\ UNCHANGED <<documents, disk, dirty, power, running, init, operator, world, history, cuts, reboots>>

observeBootOrder ==
    IF store.proven = None THEN "unknown"
    ELSE IF fw.order = store.proven.slot THEN "kept" ELSE "lost"

\* This boot runs the staged record's slot.
Proves == store.staged # None /\ store.staged.slot = running

\* Mutant: a fallback is not judged.
NeverFellBack == FALSE

\* The trial ran, and the machine is back on the other slot.
FellBack == store.staged # None /\ ~Proves /\ store.attempted = store.staged

settleSystemRelease ==
    /\ power = "on"
    /\ kept' = observeBootOrder
    /\ trial' = IF Proves THEN store.staged ELSE None
    /\ trials' = IF Proves /\ trials < 2 THEN trials + 1 ELSE trials
    /\ tries' = Proves
    /\ plan' = IF Proves THEN <<>>
               ELSE (IF FellBack THEN Reject ELSE <<>>) \o assertProvenSlot
    /\ power' = "settling"
    /\ UNCHANGED <<documents, fw, disk, dirty, running, sees, keep, operator, world,
                   served, ended, handed, exposed, stale, cuts, reboots>>

StartPlane ==
    /\ power = "settling" /\ plan = <<>>
    /\ power' = "up"
    /\ UNCHANGED <<documents, fw, disk, dirty, running, init, operator, world, history, cuts, reboots>>

-----------------------------------------------------------------------------
(* The operator. *)

\* The release that this boot runs.
Version == disk[running].files
Serving == power = "up" /\ Version \in Releases \ Bad
Asks == [rel |-> target, slot |-> Other(running)]

\* settleSystemReleaseLifecycle, the first step of a pass: what serves is proven.
SettleLifecycle ==
    /\ Serving /\ pass = "settle" /\ todo = <<>>
    /\ LET this == [rel |-> Version, slot |-> running]
       IN  todo' = IF store.staged = this THEN Promote
                   ELSE IF store.staged = None /\ store.proven = None THEN WriteProven(this)
                   ELSE <<>>
    /\ pass' = "converge"
    /\ UNCHANGED <<documents, fw, disk, dirty, power, running, init, fetch, world, history, cuts, reboots>>

\* versionConvergence, when the machine runs the target.
Converged ==
    /\ Serving /\ pass = "converge" /\ todo = <<>>
    /\ target = Version
    /\ todo' = WithdrawStaged \o ClearRejection
    /\ pass' = "settle"
    /\ UNCHANGED <<documents, fw, disk, dirty, power, running, init, fetch, world, history, cuts, reboots>>

\* Mutant: the record of another release stays.
KeepsOtherStage == FALSE

\* withdrawOtherStage: the slot of another release's record is about to change.
withdrawOtherStage == store.staged # None /\ store.staged # Asks

WithdrawOther ==
    /\ Serving /\ pass = "converge" /\ todo = <<>>
    /\ target # Version /\ withdrawOtherStage
    /\ todo' = WithdrawStaged
    /\ UNCHANGED <<documents, fw, disk, dirty, power, running, init, pass, fetch, world, history, cuts, reboots>>

\* Mutant: the rejection is not read.
NeverRefused == FALSE

\* decideSystemStaging: a rejected record is not staged again.
Refused == store.note = Asks

\* The download's slot still leads BootOrder, or is the proven slot that a power
\* cut brings back.
Exposes == \/ Other(running) = fw.order
           \/ \E d \in {store, synced} : d.proven # None /\ Other(running) = d.proven.slot

\* Ensure, and the staging of what is verified.
ConvergeSystemRelease ==
    /\ Serving /\ pass = "converge" /\ todo = <<>>
    /\ target # Version /\ ~withdrawOtherStage
    /\ LET verified == fetch.verified /\ fetch.ask = Asks
           starts == fetch.busy = None /\ ~verified
       IN  /\ fetch' = [ask |-> Asks, verified |-> verified,
                        busy |-> IF starts THEN Asks ELSE fetch.busy,
                        live |-> starts \/ (fetch.live /\ fetch.ask = Asks),
                        step |-> IF starts THEN "doc" ELSE fetch.step]
           /\ todo' = IF verified /\ ~Refused /\ store.staged # Asks THEN WriteStaged(Asks) ELSE <<>>
    /\ pass' = "settle"
    /\ exposed' = (exposed \/ Exposes)
    /\ UNCHANGED <<documents, fw, disk, dirty, power, running, init, world,
                   trials, served, ended, handed, tries, stale, cuts, reboots>>

\* One download: the old document goes, then the files change, then the new
\* document lands.
FetchStep(now, next) ==
    /\ power = "up" /\ fetch.busy # None /\ fetch.step = now
    /\ fetch' = [fetch EXCEPT !.step = next]
    /\ UNCHANGED <<documents, fw, power, running, init, todo, pass, world, history, cuts, reboots>>

withdrawSlotDocument ==
    /\ FetchStep("doc", "files")
    /\ disk' = [disk EXCEPT ![fetch.busy.slot].doc = IF @ = fetch.busy.rel THEN @ ELSE None]
    /\ UNCHANGED dirty

FetchArtifacts ==
    LET filled == disk[Other(running)].files = fetch.busy.rel
    IN  /\ FetchStep("files", IF filled THEN "done" ELSE "fill")
        /\ disk' = [disk EXCEPT ![fetch.busy.slot].files = IF filled THEN @ ELSE Torn]
        /\ dirty' = IF filled THEN dirty ELSE "files"

FillSlot ==
    /\ FetchStep("fill", "done")
    /\ disk' = [disk EXCEPT ![fetch.busy.slot].files = fetch.busy.rel]
    /\ UNCHANGED dirty

FetchVerified ==
    /\ power = "up" /\ fetch.busy # None /\ fetch.step = "done"
    /\ disk' = [disk EXCEPT ![fetch.busy.slot].doc = fetch.busy.rel]
    /\ dirty' = IF dirty = "files" THEN dirty ELSE "doc"
    /\ fetch' = [fetch EXCEPT !.busy = None, !.verified = fetch.live]
    /\ UNCHANGED <<documents, fw, power, running, init, todo, pass, world, history, cuts, reboots>>

\* A download fails, or stops because the ask changed.
FetchStops ==
    /\ power = "up" /\ fetch.busy # None
    /\ fetch.live => cuts < MaxCuts
    /\ cuts' = IF fetch.live THEN cuts + 1 ELSE cuts
    /\ fetch' = [fetch EXCEPT !.busy = None]
    /\ UNCHANGED <<documents, fw, disk, dirty, power, running, init, todo, pass, world, history, reboots>>

NoFetch == [ask |-> None, verified |-> FALSE, busy |-> None, live |-> FALSE, step |-> "doc"]

\* Every process of the operator is gone, and what it had still to write.  The documents
\* left may hold the attempt marker of a record that is no longer staged.
OperatorEnds(left) ==
    /\ todo' = <<>> /\ pass' = "settle" /\ fetch' = NoFetch
    /\ stale' = (stale \/ (left.staged = None /\ left.attempted # None))

pastWrites == <<trials, served, ended, handed, tries, exposed>>

RestartOperator ==
    /\ power = "up" /\ cuts < MaxCuts
    /\ <<todo, pass, fetch>> # <<<<>>, "settle", NoFetch>>
    /\ OperatorEnds(store)
    /\ cuts' = cuts + 1
    /\ UNCHANGED <<documents, fw, disk, dirty, power, running, init, world, pastWrites, reboots>>

-----------------------------------------------------------------------------
(* The watch and the reboot. *)

\* Mutant: the watch looks for its record in the staged document.
StillStaged == store.staged = trial

\* The operator moved the record of this boot to the proven document: the watch
\* compares the version and the slot.
Promoted == store.proven.rel = trial.rel /\ store.proven.slot = trial.slot

\* provingWatch: the staged record is gone.
WatchSettles ==
    /\ power = "up" /\ trial # None /\ ~sees
    /\ store.staged = None /\ store.proven # None
    /\ IF Promoted THEN sees' = TRUE /\ UNCHANGED trial
                               ELSE trial' = None /\ UNCHANGED sees
    /\ UNCHANGED <<documents, fw, disk, dirty, power, running, kept, keep, plan, operator, world, history, cuts, reboots>>

\* Mutant: the flag is not read.
NeverShuttingDown == FALSE

\* shuttingDown, as the watch reads it while it holds the lock.
ShuttingDown == power # "up"

assertProvenSlotUnderLock ==
    /\ sees /\ plan = <<>> /\ power # "off"
    /\ plan' = IF ShuttingDown THEN <<>> ELSE assertProvenSlot
    /\ sees' = FALSE /\ trial' = None
    /\ UNCHANGED <<documents, fw, disk, dirty, power, running, kept, keep, operator, world, history, cuts, reboots>>

\* rebootMachine as far as the end of every other process.
KillEverything(handover) ==
    /\ power = "up"
    /\ power' = "stopping" /\ keep' = handover
    /\ OperatorEnds(store)
    /\ UNCHANGED <<documents, fw, disk, dirty, running, kept, trial, sees, plan, world, pastWrites, cuts>>

\* The watch's deadline.
WatchReboots ==
    /\ trial # None /\ ~sees
    /\ KillEverything(FALSE)
    /\ UNCHANGED reboots

\* The reboot of a staged release, in its turn.
RebootForRelease ==
    /\ Serving /\ todo = <<>> /\ fetch.verified /\ store.staged = fetch.ask
    /\ KillEverything(FALSE)
    /\ UNCHANGED reboots

\* A reboot that another document or a person asked for.
RebootForOther ==
    /\ Serving /\ reboots < MaxReboots
    /\ KillEverything(FALSE)
    /\ reboots' = reboots + 1

\* A requester aims BootNext at its updater.
StageUpdate ==
    /\ Serving /\ reboots < MaxReboots /\ plan = <<>>
    /\ fw' = [fw EXCEPT !.next = "updater"]
    /\ UNCHANGED <<documents, disk, dirty, power, running, init, operator, world, history, cuts, reboots>>

\* The requester's reboot, with keepBootNext, whatever became of its BootNext.
RebootForUpdate ==
    /\ Serving /\ reboots < MaxReboots
    /\ KillEverything(TRUE)
    /\ reboots' = reboots + 1

\* Mutant: the slot is not read again.
SlotUnchecked(r) == TRUE

checkStagedSlot(r) == disk[r.slot] = [files |-> r.rel, doc |-> r.rel]

\* armProvingBoot.  The caller has just asserted the proven slot.
MayArm ==
    /\ store.staged # None /\ store.staged.slot # running
    /\ store.proven # None /\ store.staged.slot # store.proven.slot
    /\ checkStagedSlot(store.staged)

\* Mutant: the one-shot is armed before the marker is written.
ArmsFirst ==
    IF MayArm THEN <<<<"next", store.staged.slot>>>> \o WriteAttempted(store.staged)
    ELSE <<>>

armProvingBoot ==
    IF MayArm THEN WriteAttempted(store.staged) \o <<<<"next", store.staged.slot>>>>
    ELSE <<>>

\* Mutant: the observation of BootOrder is not read.
HandsOverUnobserved == keep /\ store.proven # None /\ fw.next # Other(store.proven.slot)

\* handOverOneShot and the actuator's handOver.
HandsOver ==
    /\ keep /\ store.proven # None /\ kept = "kept"
    /\ fw.next # Other(store.proven.slot)

\* dropOneShot, of a machine with no proven slot.
Drops == keep /\ store.proven = None

assertAndArmForReboot ==
    /\ power = "stopping" /\ plan = <<>>
    /\ plan' = IF HandsOver THEN healBootEntries(store.proven.slot, FALSE)
               ELSE (IF Drops THEN <<<<"next", None>>>> ELSE <<>>)
                    \o assertProvenSlot \o armProvingBoot
    /\ handed' = IF ~HandsOver THEN "no" ELSE IF tries THEN "trial" ELSE "settled"
    /\ power' = "turned"
    /\ UNCHANGED <<documents, fw, disk, dirty, running, kept, trial, sees, keep, operator, world,
                   trials, served, ended, tries, exposed, stale, cuts, reboots>>

\* The machine is off, and its documents are those left.
Off(how, left) ==
    /\ power' = "off" /\ ended' = how
    /\ plan' = <<>> /\ trial' = None /\ sees' = FALSE /\ keep' = FALSE /\ kept' = "unknown"
    /\ OperatorEnds(left) /\ dirty' = "clean"
    /\ store' = left /\ synced' = left
    /\ UNCHANGED <<running, world, trials, served, tries, exposed>>

\* Every disk is synced, and the machine resets.
Reset ==
    /\ power = "turned" /\ plan = <<>>
    /\ Off("reboot", store)
    /\ UNCHANGED <<fw, disk, handed, cuts, reboots>>

\* A power cut, a panic or a watchdog reset.
PowerCut ==
    /\ power # "off" /\ cuts < MaxCuts
    /\ \E left \in {store, synced} : Off("cut", left)
    /\ \E lost \in BOOLEAN :
        disk' = [disk EXCEPT
            ![Other(running)].doc = IF lost /\ dirty # "clean" THEN None ELSE @,
            ![Other(running)].files = IF lost /\ dirty = "files" THEN Torn ELSE @]
    /\ cuts' = cuts + 1
    /\ handed' = "no"
    /\ UNCHANGED <<fw, reboots>>

\* A person or a controller edits the cluster's target.
EditTarget ==
    /\ edits < MaxEdits
    /\ \E r \in catalog \ {target} : target' = r
    /\ edits' = edits + 1
    /\ UNCHANGED <<documents, fw, disk, dirty, power, running, init, operator, catalog, forgets, history, cuts, reboots>>

-----------------------------------------------------------------------------
Init ==
    /\ store = [staged |-> None, proven |-> None, attempted |-> None, note |-> None]
    /\ synced = store
    /\ fw = [next |-> "A", order |-> "A"]
    /\ disk = [s \in Slots |-> IF s = "A" THEN [files |-> Installed, doc |-> Installed]
                                          ELSE [files |-> Torn, doc |-> None]]
    /\ dirty = "clean" /\ power = "off" /\ running = "A"
    /\ kept = "unknown" /\ trial = None /\ sees = FALSE /\ keep = FALSE
    /\ plan = <<>> /\ todo = <<>> /\ pass = "settle" /\ fetch = NoFetch
    /\ catalog \in Catalogs /\ forgets \in Forgetting
    /\ target = Installed
    /\ trials = 0 /\ served = None /\ ended = "reboot" /\ handed = "no"
    /\ tries = FALSE /\ exposed = FALSE /\ stale = FALSE
    /\ edits = 0 /\ cuts = 0 /\ reboots = 0

Boot == PowerOn \/ RunUpdater \/ settleSystemRelease \/ StartPlane
Pass == SettleLifecycle \/ Converged \/ WithdrawOther \/ ConvergeSystemRelease
Download == withdrawSlotDocument \/ FetchArtifacts \/ FillSlot \/ FetchVerified
Watch == WatchSettles \/ assertProvenSlotUnderLock
Reboot == assertAndArmForReboot \/ Reset

Next ==
    \/ InitWrites \/ OperatorWrites
    \/ Boot \/ Pass \/ Download \/ FetchStops \/ RestartOperator
    \/ Watch \/ WatchReboots \/ RebootForRelease \/ RebootForOther
    \/ StageUpdate \/ RebootForUpdate \/ Reboot
    \/ PowerCut \/ EditTarget

Spec == Init /\ [][Next]_vars

\* Init and the operator take their steps, and a trial has a deadline.
FairSpec ==
    /\ Spec
    /\ WF_vars(InitWrites) /\ WF_vars(OperatorWrites)
    /\ WF_vars(Boot) /\ WF_vars(Pass) /\ WF_vars(Download)
    /\ WF_vars(Watch) /\ WF_vars(WatchReboots)
    /\ WF_vars(RebootForRelease) /\ WF_vars(Reboot)

-----------------------------------------------------------------------------
Boots(s) == disk[s].files \in Releases \ Bad

\* The slots that a reset may land on now.
LandsOn == IF fw.next \in Slots THEN {fw.next} ELSE Heads

\* A machine whose firmware keeps BootOrder, and that serves from its proven slot
\* with no trial to watch, comes back on this slot after a reset or a power cut
\* at any step: the assertions of proving.go leave no order that leads elsewhere.
SettledBoots ==
    Serving /\ trial = None /\ plan = <<>> /\ fw.next # "updater" /\ forgets = None
        /\ store.proven # None /\ store.proven.slot = running
        => LandsOn = {running}

\* A staged record that was never proven boots at most once: the attempt marker of
\* armProvingBoot is durable before the one-shot is armed, so no power cut,
\* panic or reboot gives an unproven release a second trial.
OneTrialEach == ~exposed /\ forgets = None /\ served # store.staged => trials <= 1

\* settleSystemRelease rejects a record only after the record booted.  A power cut
\* between the marker and the trial lets it reject a release that never ran, and so
\* does a marker that outlived its record (stale): neither the watch's assertion during
\* a reboot, nor a slot that changed after the record was staged does.
RejectsOnlyTried ==
    [][settleSystemRelease /\ FellBack => trials > 0 \/ ended = "cut" \/ stale]_vars

\* Each reboot of init lands on the proven slot, or on the trial that it recorded as
\* attempted, also under a firmware that forgets BootOrder.  The exceptions are a
\* requester's handover and a proven slot that the firmware cannot load.
RebootsLandOnProven ==
    power = "on" /\ ended = "reboot" /\ handed = "no" /\ store.proven # None
        /\ disk[store.proven.slot].files # Torn
        => running = store.proven.slot \/ (Proves /\ store.attempted = store.staged)

\* When edits and faults stop, the machine comes to rest: it serves forever, and runs
\* the target or holds the rejection that refuses it.  A release that fails its trial
\* does not reboot the machine again and again.
Rests == forgets = None /\ []~exposed => <>[](Serving /\ (Version = target \/ Refused))

\* "If a power cut happens between promotion and the assertion, the machine costs one
\* extra boot of the old version" (proving.go): the slot that leads BootOrder holds a
\* release that serves, as soon as the machine has a proven release.
FallbackBoots ==
    power = "up" /\ store.proven # None /\ forgets = None => Boots(fw.order)

\* "So init hands the one-shot over only when the head of BootOrder is known to bring
\* the machine back" (handover.go): after the updater's boot, the machine runs its
\* proven slot, under a firmware that forgets too.  A boot that is itself the trial is
\* the exception: it observed the head before the promotion changed the proven slot.
UpdaterComesBack ==
    power = "on" /\ handed = "settled" /\ disk[store.proven.slot].files # Torn
        => running = store.proven.slot
=============================================================================
