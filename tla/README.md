# liken: a TLA+ verification project

liken is an operating system for a fleet of Kubernetes machines, with the
operators that run on it. This project models the parts of it that must be
right while processes crash, writes arrive late and several programs write the
same objects: the reboot rollout of a fleet, a machine's own side of a turn, the
trial of a new release, the leader election that every singleton operator uses,
the copies of the API's objects that all of them read, and the driver that gives
pods a volume with a copy on each node. The modules are
translated from the Go sources. `PROJECT.json` names, for each definition, the
lines that it models.

## The system

| Part | State | Operations | What must hold |
|---|---|---|---|
| Rollout conductor (`liken/cluster-operator/rollout.go`, `requests.go`, `phase.go`) | none of its own: the grant ledger in the Cluster's status, the RebootApproved condition on each Machine | decide, grant, confirm, grant again, reclaim | no budget exceeded; one leader out at a time; a deterministic and fair order |
| Fleet sweep (`fleet.go`, `watches.go`) | copies of the objects | list, read again, write the Cluster, then the Machines | a grant follows its stored entry; a failed write never leaves an uncounted grant |
| Heartbeat record (`heartbeats.go`) | when each Lease was last seen to change | observe, judge | a machine that died before the process started is not counted as up |
| Leader election (`kubernetes/election`) | the Lease; each process's last renewal | take, renew, give up, release, clear, guard a write | one process acts; a stop leaves no held Lease |
| Machine's turn (`liken/machine-operator/turn.go`, `disruptions.go`, `drain.go`, `hold.go`, `requests.go`) | the Node's cordon and annotations, its own Disruption, the reboot's intent | act on the entry, evict in order, hold, reboot, keep requests current | no reboot without a turn; drivers outlive the claims that the pass saw; every turn ends |
| Proving boot (`liken/init/proving.go`, `handover.go`, `liken/machine/staging.go`, `liken/machine-operator/release.go`) | two slots, documents, firmware variables | download, stage, try, promote, reject, fall back | one trial of each staging; a reboot lands on a proven release |
| Version memo and watch copies (`kubernetes/memo`, `kubernetes/informer`) | versions of own writes, stores | read, list, send, forget | no decision from a copy older than an own write |
| Per-node CSI driver (`per-node-csi-driver/node.go`, `holds.go`, `store.go`, `sweep.go`, `mount.go`) | the copies and the mounts of one node; the hold of each handle, in memory and on the disk | publish, unpublish, sweep, resume | one pod per node and handle; no copy removed under a pod; no copy, mount or hold left over |
| Steward, janitor, flux, channel, metrics | workloads | create, delete, poll | refresh only what lags |
| Domain operators, git CSI driver, build tools, CLI, image and release tools | own objects and files | reconcile; build | not studied yet |

The parts meet in the API server. A machine-operator reports its Machine's
status and renews a heartbeat Lease. People and other operators file
Disruptions. The conductor reads all of it through watches, records a turn in
the Cluster and reports it on the Machine. The machine acts on the entry: it
drains, reboots, and its init proves the release that it boots. The operator
and init of one machine share the documents on its disk, and the intent in
`/run`. The election decides which copy of cluster-operator conducts. It is not
fencing (`election.go:25`), so the ledger keeps the budget by itself. Every
program reads most objects from a watch's store, and the memo tells it when the
store is behind its own writes.

The per-node driver has one process on each node: the kubelet calls it, several
calls at once, and repeats a call until it succeeds; a watch of
PersistentVolumes tells its sweep which copies nobody names any more.

Hard behaviours: a sweep is several reads and several writes; each write may
succeed, conflict, or be committed after its sender gave up; a conductor may
end at any step; a paused process may resume with a belief that is out of date;
a new process knows the past only from the API. A drain takes many passes, in
which people, requesters and the kubelet act. The power can fail between any two
writes of a document or of the firmware. A call of the kubelet is a sequence of
system calls, with other calls and a sweep between them. `PROJECT.json` lists the hazards at
their lines, with the properties about each.

## The modules

| Module | What it is |
|---|---|
| `Rollout` | the conductor, the sweep, the heartbeats, and everybody who writes the same objects |
| `RolloutWalk` | the walk over the sorted queue, as the code's loop takes it |
| `TurnLedger` | what the rollout promises, one atomic ledger of turns, which `Rollout` implements |
| `RolloutInv` | the inductive invariants of the ledger and of the decision |
| `RolloutProofs`, `RolloutBudgetProofs`, `RolloutWalkProofs` | its theorems, with the refinement and the loop |
| `MCRollout`, `MCRolloutQueue` | instances for TLC |
| `Election` | the Lease, the elector, the guard, the releases and the clock |
| `SingleActor` | what an election promises, which `Election` implements |
| `ElectionProofs` | its theorems, with the refinement |
| `MCElection` | instances for TLC, with a view and scenarios |
| `Turn` | one machine's passes, against the conductor, people, requesters, the kubelet and time |
| `TurnProofs` | its theorems |
| `MCTurn`, `MCTurnDeadline` | instances for TLC; the second remembers how long this turn's drain has run |
| `Proving` | the documents, the two slots, the firmware, init and the operator of one machine |
| `ProvingProofs` | its theorems |
| `MCProving` | an instance for TLC |
| `Memo` | one kind of objects: the API server's log, the store, the memo, the lists |
| `MemoProofs` | its theorems |
| `MCMemo` | an instance for TLC |
| `PerNode` | one handle on one node: the kubelet, the driver's calls, its holds, its sweep |
| `PerNodeProofs` | its theorems |
| `MCPerNode` | an instance for TLC |

`Election` implements `SingleActor`, and `Rollout` implements `TurnLedger`, each by
a refinement mapping. `Rollout`, `Turn`
and `Memo` are joined by what each assumes of the next: `Rollout` reads a copy
only when it is as new as the program's last write, which is `OwnWritesStand` of
`Memo`; the conductor in `Turn` (`Grant`, `Join`, `Free`) is what `Rollout` does
for one machine; and `Turn` ends in the reboot with which `Proving` begins
(`RebootForRelease`).

### Rollout

`cluster`, `mach` and `asked` are the API server's Cluster, Machines and
Disruptions, with their resourceVersions. `seen` and `doc` are the conductor's
copies; version 0 stands for a copy that must be read again, and for an entry
that is not there. `todo` holds the Machine writes that a sweep has still to
send, `late` and `lateCluster` the writes that nobody waits for any more.

`BeginSweep`, `ReadTurn`, `SweepFleet` and `Send` are one sweep: list, read
again each recorded machine whose copy shows no grant, decide and write the
Cluster, write each Machine. `SweepFleet` is `decideRollout` with every one of its
cases as a set of machines (`Spent`, `Stalled`, `Rejoining`, `Confirmed`,
`Waiting`), `withoutGrants` where the applied template cannot be read, and
`publishClusterStatus` with its four answers. The queue is a strict order and
the walk a greedy choice (`Grants`). `RolloutWalk` has the walk as the code takes it:
two lists sorted by name, joined, sorted stably by age (`queue`), and then the loop
with its budget book and its leader flag as a function of the place in the queue
(`books`). `DecisionIsTheWalk` says that the two agree. `NewConductor` is the end of a process
at any step and the start of the next one. An answer of a write that arrives
too late for its sender is `LandLate`.

Abstractions. A grant's age is one bit, `overdue`. A heartbeat is silent or not,
and the young record of a new process is `listening`. The approval of a request
and its completion are part of `File` and `Close`: an open request is one that
is approved and not done. The Downloading reason of VersionConverged is read
off the phase. The applied template lags or not, by choice, in every sweep.
The requests are read at the start of the sweep; the code reads them last, and
nothing between the two reads depends on them. One conductor runs at a time:
an earlier one is represented by what it left in flight, because its guard
refuses every write that it had not sent (`Election`, `OneActorAtATime`).

### Election

One tick is five seconds: Duration 6, RenewDeadline 2, RetryPeriod 1,
RequestTimeout 3. Each request of the Lease is sent, handled and answered in
three steps, and one that its sender abandoned can be handled later. A running
process meets its deadlines, so `Tick` waits for what is due; a paused one meets
none. The elector's own steps (`Look`, `Renew`, `GiveUp`, `Release`, `Rejected`)
are client-go's and external, as `election.go` configures and describes them.
`clearIfHeld` reads and sends in one step, which is sound because its write is
conditional on the version read. What a process last read or wrote of the Lease
is `seen`, which is client-go's observed record: `Observed` is one read through
`renewalClock.Get`, and `Reads` a try, which takes the Lease that it may take. A
leader that knows the Lease as its own renews it without a read (`Renew`); when
that write fails, client-go reads and writes once more before the retry period
begins, and `Rejected` has both (`next` tells the two writes apart). Its jitter is
left out. `Release` frees the Lease that it finds when `seen` names the process, as
client-go does.

Three histories belong to the properties: `stepping` are the processes that chose
to end, `named` those that the Lease named when they chose so in a lead, and
`freed` is true once a release was sent that frees the Lease of another process.
The properties make exceptions of `named` and `freed`: see the disagreements below.

### Turn

`entry` is the machine's entry in the ledger, `status` what it publishes, `own`
and `req` its own Disruption and a requester's, `node` the cordon with the
drain's two annotations, `pods` where each pod is, `intent` the file that asks
init for a reboot. `seen` holds the operator's copies. `pass` is the running pass
and what it found so far.

`Begin`, `ReadNode` and `ReadRequests` read; each copy may be behind, and each
read may fail. `Onward` chooses what asks for the reboot, the staged documents
first. `SkipDrain`, `StayHeld`, `ListPods`, `Cordon` and `Ask` are the gate with
the drain; `Tidy` keeps the own request and the cordon; `Settle` writes the
requests' conditions and publishes the phase. `RestartOperator` ends a pass at
any step. A write of `Tidy` or of `Settle` may fail by itself, with the others stored
(`SettledLast` is the second write of a request's conditions after the first failed).

Abstractions. People, the kubelet and the clock act between two passes, because
a pass reads each object once: what happens during the pass is, for the pass, a
copy that was behind. The pod that the scheduler binds between the list and the
cordon is the exception, and `Bind` has it. No pass begins while the intent
waits, because init's watch of `/run` wakes at once. A boot is a number, the
drain's five minutes are two ages of one annotation. The own request is one bit:
its content follows the documents.

### Proving

`store` is the machine's documents as they read, `synced` what a power cut is
sure to leave of them. `fw` is BootNext and the head of BootOrder, `disk` each
slot's files and release document, `dirty` what of the other slot is not yet on
the disk. An operation is a sequence of writes (`Promote`, `Reject`,
`WriteAttempted`, `healBootEntries`), and a write is the name of a document or of
a firmware variable with its new value. `plan` is what init has still to write and
`todo` what the operator has, and `InitWrites` and `OperatorWrites` take one
write at a time. `PowerCut` comes between any two of them and at any other
moment.

`PowerOn` is the firmware: it consumes BootNext and tries the other slot when it
cannot load the first. `settleSystemRelease` is init's decision at boot;
`WatchSettles`, `WatchReboots` and `assertProvenSlotUnderLock` are the proving
watch; `assertAndArmForReboot` is the last thing that init does before a reset.
`SettleLifecycle`, `Converged`, `WithdrawOther` and `ConvergeSystemRelease` are
the operator's pass, and `withdrawSlotDocument` to `FetchVerified` its download.
`StageUpdate`, `RebootForUpdate` and `RunUpdater` are a requester that hands
BootNext to its updater.

Abstractions. A release is a version under one digest, so that two releases differ
in their version. A slot's files are those of one release or `torn`. A bad release
boots and never serves the cluster. Nobody but init and a requester writes BootNext:
`HandsOver` compares it with both slots, as the code does, and no behaviour here
finds the other slot there.

Histories. `trials` counts the boots of the staged record, `served` is the last
record to be proven, `ended` and `handed` say how the last boot ended. `exposed`
is true once a download took a slot that a power cut may boot, and `stale` while
the attempt marker is that of a record which is no longer staged, left by a power
cut or a restart between the two removals. The properties make exceptions of the
last two: see the disagreements below.

### Memo

`log` is every write that the API server took; a version is a place in it. The
store holds a prefix of the log, `at`, and `ready` says whether its watch is
granted. `seen` is the memo's record of each object, `holder` who has the lock of
the object's requests, `since` the objects noted since the list in flight was
sent, which is all that `notes` and `notedAt` say. A request is sent, handled
and answered in three steps; an answer may be lost, and its write may land
later. `CurrentList` to `AllListed` are the list from the store with its two
reads of keys, `SendList` to `ListNoted` the list from the API server,
`settleMemo` the end of a pass. With `shared`, another goroutine sends requests
through the same memo, and only `ForgetGone` runs; without it, `ForgetStored`
runs too.

Abstractions. Another program's writes are taken whole. The store and the memo
treat each object by itself, so that one key is enough; versions are compared
for equality, which the global log makes sound. The program's requests are sent
between two lists or by the other goroutine, as its passes do.

### PerNode

`volume` says whether a PersistentVolume names the handle, `view` what the
driver's informer has of it. `phase` is each target for the kubelet. `copy`,
`dirs` and `mounts` are the disk and the kernel, where a mount of a removed copy
is an `orphan`; `hold` and `file` are the hold in the driver's memory and its
record. `calls` are the calls that the driver works on, each with its next step.

`Refuse`, `AlreadyHeld`, `Prepare`, `Unbind`, `Bind`, `KeepHold` and `WriteHold`
are `NodePublishVolume` in its order; `Unbind`, `TargetBusy`, `RemoveTarget`,
`DropHold` and `EraseHold` are `NodeUnpublishVolume`. `SweepBegins`, `ReadHeld`
and `RemoveCopy` are a pass of the sweep, which reads the volumes, then the
holds, and then removes. `Breaks` is a system call that fails. `RestartDriver`
and `RebootNode` end every call at its step and run `resume`; a record that was
being written may be the old one, the new one or torn.

Abstractions. Each of `n.mu`'s critical sections is a step, and so is each read
or write of a record and each system call that another call or the sweep can
tell apart. A read of the hold is one step with the system calls next to it:
they touch the call's own target, or make the copy. A pass over several handles
only makes the time between its read of the holds and a removal longer, and that
time is free here. A new pod has paths of its own; the model takes the paths of
an earlier pod again when nothing of it is left.

Histories. `lost` is true once a write or a drop of the hold did not see the one
before it, a record could not be written, or a restart of the driver forgot a hold,
because its record was not its own or because a read failed; no pod arrives after that,
which is a bound. `since` are the targets whose hold was taken after the pass in progress
had read the holds. `strayed` is true once the kubelet has given a call up. The
properties make exceptions of them, and each exception is a behaviour of the
code: see the disagreements below.

## The runs

| Run | Instance | Shows |
|---|---|---|
| `rollout_workers` | two workers, budget 1, one late write of each kind | `GrantsCovered`, `BudgetKept`, the inductive `LedgerInv` and `FitInv`, `NewTurnsCountEveryoneOut` over grants that land and are reclaimed, and `OneLedger` (the refinement of `TurnLedger`) |
| `rollout_queue` | three machines: two leaders, and a worker that may fail and that has a grant from before the ledger; a budget of 2 over all and of 1 over a rack with a leader and the worker; requests of two seconds | `TypeOK`, `OneLeaderTurn`, `DecisionIsTheWalk`, the inductive `CountInv`, and `NewTurnsCountEveryoneOut`: the old grant and the machine that was down before the conductor are counted before a new turn |
| `rollout_template` | two workers, budget 1 | violated: `HeldEntriesStay` |
| `election` | two candidates of which one may be paused at any step, or two processes of one pod | `TypeOK`, `WaitsEndFirst`, `StepDownFrees`, `OneActorAtATime` (the refinement of `SingleActor`), `StopLeavesNoneBehind` |
| `election_release` | two candidates, never paused | violated: `WaitsEndBeforeAnyLead` |
| `election_await` | as the one before | violated: `StoppedHoldsNothing` |
| `turn` | a pod with a claim and its driver, one edit, one trouble | `TypeOK`, `DriversLeaveLast`, `RebootsInTurn`, `HoldStands`, and the liveness of `TurnEnds`, `CordonEnds`, `DriftBoots` |
| `turn_deadline` | as `turn`, where a person's cordon is the only trouble | violated: `DeadlineIsThisTurns` |
| `proving` | three releases of which one never serves, two edits, two power cuts or failures, one reboot for another reason, two firmwares | `TypeOK`, `SettledBoots`, `OneTrialEach`, `RebootsLandOnProven`, `UpdaterComesBack`, `RejectsOnlyTried`, and the liveness of `Rests` |
| `proving_window` | as `proving` | violated: `FallbackBoots` |
| `memo` | one object, three writes, one fault, with and without a second goroutine | `TypeOK`, `OwnWritesStand`, `ListsOwnWrites`, and the liveness of `Settles` |
| `per_node` | two pods, or one pod with two targets; one edit of the volume, one failure or restart | `TypeOK`, `OnePodRuns`, `TargetsClean`, `SweepSpares`, and the liveness of `CopyDies`, `TakesOver` |

Bounds of the rollout. Versions bound the behaviours. In `rollout_workers` one
Machine has three versions and the other two, so that the one is granted,
reports or is reclaimed, and granted again; three versions of the Cluster hold
two writes, which record a turn and free it for the other machine, across any
number of conductors. One late write of each kind is enough to meet the hazards
of a late grant and of a late ledger; the theorems have no such bound. Two
machines are enough for a budget of one; the queue has three, so that a walk can
grant one, refuse one and go on. In the queue no write of a leader's Machine
lands, so a leader's turn stays in the ledger alone, while the worker's Machine
takes one write, which reports, reclaims or declares it lost. The worker is the
machine that fails: the hold on a new conductor's grants is the same for every
machine, and the rack's budget tells whether it was counted. `MCInit` starts the
queue in the second of two seconds, with one request open since the first.

Bounds of the election. Eight ticks pass the duration of a Lease taken at the
first tick, so a take of an expired Lease is reached, with every pause and slow
answer before it. Four versions hold two takes, a renewal and a release. In a
first scenario of the `election` run one candidate may be paused, and in the
second a container restarts in its pod; `q1` is a process of another pod in
both. `MCView` identifies states that differ only in what no step and no
property reads, such as a time that is older than the longest age with it. What needs six versions and ten
ticks is beyond the run: another copy takes the expired Lease and frees it, and the
renewal of the leader that was overtaken lands last. The exception in
`StepDownFrees` is that behaviour, which the proof of the property found. The run
meets a release that frees another's Lease (`freed`); two processes that may write
at once need a third process after it. The election's runs turn the deadlock check off: the clock ends at
its bound and processes may all end. The rollout's runs keep it on.

Bounds of the turn. One pod that holds a claim and one driver show every order
of two kinds of pods; one request and one edit are two reasons for one turn, and
a second turn follows when the one reboots the machine before the other is
served. One trouble is a stale copy, a failed request, a restart, a withdrawal
or a person's cordon, at any step of any pass; a copy stays behind for as long as
troubles pay for it. What needs two troubles in one behaviour is not reached.

Bounds of the proving boot. Two edits reach a change of the target during a
trial and a return to the release before. Two cuts reach a cut in the recovery
from a cut. With the bad release a trial fails, with the good ones two trials
follow each other on both slots. The two firmwares keep BootOrder, or return it
to slot A at every reset. A marker that outlives its record and is then taken for
that of a later record (`stale`) needs three edits; the invariant of the proofs was
checked with three edits and three cuts before it was proved. Deadlock is not checked here: a machine that serves
its target, with no edit left, may rest.

Bounds of the memo. Three writes hold a create, an update and a delete, or a
create that follows a delete; one fault is a lost answer with its late write, a
refused watch or a failed list.

Bounds of the per-node driver. Two targets are two pods that contend for the
handle, or one pod that mounts it twice. One edit deletes a volume in use, or
writes the one that a left copy waited for; a pod comes only when the volume is
there. One fault is a failed system call, a record that is not written or not
removed, a call that the kubelet gives up, a restart or a reboot, at any step. A
restart after a call was given up needs two; only the proofs cover it. Calls,
retries and passes have no bound. Deadlock is not checked: a node whose
pods are gone may rest.

## Fairness

The rollout and the election state none: their properties are safety properties.
The others state what their liveness needs and no more.

- `Turn`: the operator's loop runs pass after pass (`reconcile.go`), the
  conductor sweeps on a ticker, and init waits on `/run`: weak fairness of
  `Pass`, `Grant`, `Free` and `Reboot`. Time passes, and a requester whose
  machine is drained ends its work and removes the hold. Both are enabled only
  between two passes, so they take strong fairness. No pod is assumed to leave
  and no eviction to succeed: the deadline ends the drain.
- `Proving`: init's steps, the operator's pass and its download, the watch with
  its deadline, the reboot for a staged release and the reset are all steps of
  processes that run. `Rests` says nothing of a firmware that forgets BootOrder,
  nor of a behaviour in which a download took a slot that a power cut boots
  (`exposed`): that is the finding of `proving_window`.
- `Memo`: a watch that is granted delivers, a request is answered or times out,
  and the ticker (`main.go:103`) starts one pass after another. `Settles` holds
  once the requests between lists stop.
- `PerNode`: the watch delivers, the driver works on the calls of each target,
  the kubelet repeats a call that failed, and the ticker starts a pass after a
  pass (`sweep.go:94`): weak fairness of each. No pod is assumed to end.

## What the runs disagree with

Five runs expect a violation. Each checks a sentence of a comment that the
code does not keep; `findings` in `PROJECT.json` quotes them.

1. `rollout_template`: `withoutGrants` removes the entry of a machine that the
   sweep would grant again, although the entry is held by an open request.
2. `election_release`: a leader that cannot renew releases the Lease before its
   process exits, so another copy can lead before T+30s, while a write of the
   first is still waited for. With an expiry instead of a release the order
   holds (`WaitsEndFirst`).
3. `election_await`: a candidate that stops while its take is in flight can hold
   the Lease after it ended.
4. `turn_deadline`: a drain under a person's cordon writes the start of its
   deadline on the Node, and nothing removes it. The drain of the next turn is
   past its deadline at once, and evicts nobody.
5. `proving_window`: between a promotion and the watch's next poll the operator
   downloads the next target onto the slot that still leads BootOrder, so the
   old version, which a power cut should boot, is not there.

More disagreements showed up while the properties were written. The properties
leave them out by the definitions named here, and `OwnWritesStand` by what it
speaks of.

- `UpdaterComesBack` says nothing of a handover in a trial's boot: init observed
  BootOrder against the proven slot of before the promotion.
- `dropped`: `ForgetGone` drops the record of an object that was created and
  deleted before the watch delivered the create. The copy that the watch then
  delivers is taken as current.
- `Due`: when the watch delivers the delete of an older object of the same name
  between a list's two reads of keys, the list leaves out the new object
  (`cache.go:160` says that the list reads the memo's keys first so that it
  cannot).
- A list from the API server keeps the note of a request that ran meanwhile, also
  when another program wrote after that request and the list answered the newer
  version. A store at the noted version then counts as current, so that the next
  pass can read an older copy than the list gave; `memo.go:188` says that this
  "never answers an older copy". `OwnWritesStand` is about the program's own
  writes, and holds.

- `lost`, on the way in: two publishes of two pods both find the handle free
  (`node.go:121`) before either keeps its hold (`node.go:140`), and both pods run
  with one copy. The driver's manual says that it "enforces one pod per node per
  volume itself" (`docs/content/docs/reference/volume.md:64`).
- `lost`, on the way out: an unpublish frees the handle in memory, a new pod takes
  it and writes its record, and then the unpublish removes that record
  (`holds.go:66`). After a restart the running pod's hold is forgotten, although
  the rule "survives a restart of the plugin" (`holds.go:3`).
- `since`: a pass reads the holds (`sweep.go:181`) before a publish keeps its own,
  and removes the copy under the pod. `holds.go:72` says that the sweep "never
  removes the copy of a held handle".
- A claim holder that is bound between the list of the pods and the cordon is not
  among those that the pass evicts, and still runs when the pass asks the driver
  that prepared its claim. `drain.go:175` says that a holder "always leaves before
  the driver that prepared its claim does". `DriversLeaveLast` covers the holders
  that the pass has listed, and those on their way out.
- `lost`, over a restart: a publish that the kubelet gives up between the hold in
  memory and the one on the disk is answered from memory when it is repeated
  (`node.go:126`), and writes no record. The next restart forgets the hold of the
  running pod, against the same sentence.
- `lost`, over a restart whose reads fail: `resume` drops each hold that it cannot
  confirm. When it cannot list the holds (`holds.go:99`), read a record or read the
  mount table (`holds.go:147`), it drops the hold of a pod that runs, and the next
  publish of another pod is accepted.
- `strayed`: a publish that the kubelet gave up may go on after the unpublish, and
  then a mount and a hold of a pod that is gone are left.
- `named`: a leader that another copy overtook can find the Lease free again when it
  stops, because the other copy has released it. It clears nothing, and its own last
  renewal, sent against the free Lease, lands after that: the Lease then names a process
  that has ended, until it runs out. `end` is to clear a Lease that "still names this
  process" (`election.go:327`), late renewals included.
- `freed`: client-go's release reads the Lease for its version and asks its own
  record who holds it (`IsLeader`). A leader that was paused past its deadline, and
  overtaken meanwhile, gives up when it resumes, and its release then writes no
  holder over the Lease of the copy that leads. A third copy takes that Lease at once,
  while the second one's guard is still open. `election.go:27` says that a leader that
  runs stops sending writes "before another copy can take the Lease". The guard of the
  one that was paused stays shut, and clearIfHeld does compare the holder.
- `stale`: `WithdrawStaged`, `Promote` and `Reject` remove the staged record first and
  the attempt marker after it. A power cut or a restart of the operator in between
  leaves the marker, and the repeated `WithdrawStaged` returns early when no record is
  there. When the same release is staged again later, any reboot that was not armed
  for it (a requester's handover) makes the next boot reject it without a trial.
  `staging.go` says of the marker that "if it stayed behind, it would read as 'tried
  and failed'", and that "a crash at any point leaves a state that the next boot
  reads correctly" (`staging.go:250`).

## The proofs

TLAPS checks the theorems below for every value of the constants: every fleet and
every budget, every set of processes, pods, targets, objects and releases, and
every bound. TLC evaluates the assumptions (`ASSUME`, named in the module that
declares the constants) in every run. They say that a fleet is finite with an order
of its names, that a budget and a bound are numbers, and that the values which stand
for nothing are none of the names.

| Module | Theorems | Properties of the runs |
|---|---|---|
| `RolloutProofs` | `TypeCorrect`, `LedgerInvariant`, `GrantsAreCovered` | `TypeOK`, `LedgerInv`, `GrantsCovered` |
| `RolloutBudgetProofs` | `LedgersFit`, `BudgetIsKept`, `OneLeaderHoldsATurn`, `CountsAreComplete`, `NewTurnsCount`, `SweepsAgree`, `RolloutIsOneLedger` | `FitInv`, `BudgetKept`, `OneLeaderTurn`, `CountInv`, `NewTurnsCountEveryoneOut`, `OneLedger` |
| `RolloutWalkProofs` | `WalkIsTheDecision` | `DecisionIsTheWalk` |
| `ElectionProofs` | `TypeCorrect`, `OneWriterAtATime`, `WritesEndBeforeTheNextLead`, `AStepDownFreesTheLease`, `AStopLeavesNoneBehind` | `TypeOK`, `OneActorAtATime`, `WaitsEndFirst`, `StepDownFrees`, `StopLeavesNoneBehind` |
| `TurnProofs` | `TypeCorrect`, `RebootsInTheTurn`, `HoldStandsAlways`, `DriversAreAskedLast` | `TypeOK`, `RebootsInTurn`, `HoldStands`, `DriversLeaveLast` |
| `MemoProofs` | `TypeCorrect`, `OwnWritesAreCurrent`, `ListsHoldOwnWrites` | `TypeOK`, `OwnWritesStand`, `ListsOwnWrites` |
| `PerNodeProofs` | `TypeCorrect`, `OnePodHoldsTheCopy`, `MountsAreClean`, `SweepSparesTheHeld` | `TypeOK`, `OnePodRuns`, `TargetsClean`, `SweepSpares` |
| `ProvingProofs` | `TypeCorrect`, `SettledMachinesBoot`, `OneTrialForEach`, `RebootsLand`, `UpdatersComeBack`, `OnlyTheTriedAreRejected` | `TypeOK`, `SettledBoots`, `OneTrialEach`, `RebootsLandOnProven`, `UpdaterComesBack`, `RejectsOnlyTried` |

Each module states its inductive invariant as a conjunction of named parts (`IInv`,
or `RolloutInv`), proves that the initial states have it and that every action keeps
it, and reads the properties off. TLC checked each invariant before it was proved.

**Rollout.** `GrantsCovered` is not inductive: whether a sweep may free an entry
depends on what is in flight. `LedgerInv` says why it may. Versions only grow
(`VersionInv`), so a grant can appear only through a write that names the
Machine's current version, and until it lands the covering entry records that
version (`CoverInv`). A machine that `readTurns` found without a grant at
another version is quiet: no grant exists or can land (`FreshInv`). A late
Cluster write that can still be stored moves the entries of quiet machines only
(`LateInv`): it may add an entry, and drops or moves none that covers something.
All of this holds for the machines of `Legacy` too, except that their first grant
has no entry; a copy of such a machine shows the grant until a sweep adopts it. The
two steps that matter are `SweepFleet` (`SweepStep`) and
`LandLateCluster` (`LateClusterStep`).

`FitInv` adds that the stored ledger fits the budgets, and so does each late one
that can land. A sweep decides over the ledger that it then replaces, because
its write is conditional on the Cluster's version: the entries that it keeps
are among the stored ones, and each turn that it adds found room for itself.
The proof that the greedy choice as a whole stays within a budget takes the
last turn of the queue, so it needs `Before` to be a strict order. Machines in
`Legacy`, which start with a grant from before the ledger, are outside the three
properties: a fleet that upgrades may start above its budget.

`NewTurnsCountEveryoneOut` has no exception. It compares a new turn with what is
really out at that moment, and not with the entries alone: each grant on a Machine,
and each machine that was down when the process started. `CountInv` says why the
sweep knows them. Its copy or the ledger shows each grant, adopted ones included
(`CoverInv`), and once the record of the heartbeats can be judged by, each machine
that was down when it began reads silent (`HeartInv`). The step that adds a turn and sends its
grant can only be a sweep whose Cluster write was stored, so what it decided over is
the ledger that it replaced (`NewTurnStep`), and the machine that took the last turn of
a budget counted everyone else (`GivenFit`).

`SweepsAgree` justifies stating the walk as a greedy choice: over any copies there is
exactly one set of machines that `Grants` allows. Two choices would differ first at some
machine of the queue, which found the same machines ahead of it in both
(`DecisionsAgree`). For the existence, a shortest part of the queue without a choice
would have a last machine, and the choice for the others extends to it (`WalkGoesOn`,
`WalkDecides`); the least-number principle stands in for an induction.

`WalkIsTheDecision` says that the one decision is what the loop of `decideRollout`
computes, for a queue of any length. A sort is described by what it returns, and such
an arrangement exists and holds each machine once (`ArrangedIsSorted`). Within the
workers, and within the leaders, the places of the joined lists follow the names
(`PlacesFollowNames`), so that the stable sort by age puts the queue in the order of
`Before` (`QueueIsSorted`). `Records` is the loop's invariant: after each place the
turns given are the walk's choice over the machines passed, the flag says whether a
leader is out or was given a turn, and the book holds, budget by budget, exactly who is
out and who was given a turn. So the book refuses a machine when `Admitted` does
(`WaitsUnlessAdmitted`), and the turn of the loop goes on as the walk does
(`LoopGoesOn`). Its inductions are over a set of naturals (`UpTo`), which the
least-number principle gives as well.

`RolloutIsOneLedger` maps the entries of the ledger to the holders of turns and the
grants on the Machines to the granted ones, outside `Legacy`. No step writes the Cluster
and a Machine together (`OneObjectAtATime`). So a step that changes the ledger is a
decision, which fits by `FitInv` and drops no granted machine by `CoverInv`; a step that
adds a grant finds its turn already stored, by `CoverInv` after the step and an unchanged
Cluster. What `TurnLedger` says beyond the invariants is this order of the two writes.

**Election.** The argument is about time. A write that can still replace the Lease of
another process was sent after its duration had passed (`TakeInv`), the Lease names a
leader for its duration after the leader's last renewal (`HeldInv`), both until a leader
frees the Lease of another (`freed`), and the renewal
clock never runs ahead of the elector (`ClockInv`); a write that the guard let through
is over within `RequestTimeout` (`WaitInv`). The refinement maps the process whose guard
is open to `SingleActor`'s actor: there is one at most, and no step hands the part over
from one process to another directly. `ClearInv` is the argument of `clearIfHeld` as its comments
give it: the first conflict shows that no earlier write of the pod can land, the second
that somebody else holds the Lease.

**Turn.** What a pass has found out stands until its end (`PassInv`), although the copies
may be behind; a hash in a request is a boot that was (`HashInv`). `BootInv` counts:
each boot was paid for by an edit or by the one request, which is what "no reboot
without a turn" comes down to when the turn has been taken back in between.

**Memo.** A record that the memo keeps is no older than the program's own writes
(`NoteInv`), because the lock of the object is held while a request about it runs
(`LockInv`), and an answer holds the write before it (`AnswerInv`). `CopyInv` follows one
object through a list: it has been read, it will still be read, or the store held it and
no delete lies between.

**PerNode.** Unless a hold was lost, the running pod has the hold in memory, and the
record on the disk follows it or is about to (`HoldInv`). Unless the kubelet gave a call
up, a target has one call at a time and its mount is where the call's step says
(`MountInv`).

**Proving.** A reset lands where the firmware's two variables say, so the invariant says
at each moment what they can be, with the writes that init and the operator have still
to do (`PlanInv`, `TodoInv`). It lists the suffixes of each sequence of writes: a
power cut may come at any of them. `DocInv` relates the documents with what a power cut leaves of them:
they differ in the proven record only after a promotion of this very boot. `OrderInv`
says which slot leads BootOrder, `MarkInv` who wrote the attempt marker, and `OnceInv`
why an armed one-shot means that the record has not run yet: the marker was durable
before the one-shot was written. `FirstInv` is the machine before its first proven
release, where no assertion has run.

What the proofs found. Three properties were false beyond the runs' bounds, and now name
their exceptions: `StepDownFrees` (`named`), `RejectsOnlyTried` (`stale`) and `OnePodRuns`
with `SweepSpares` (`lost` at a restart). Each exception is a behaviour of the code, listed
above, and so is `freed`, without which `TakeInv` and `HeldInv` do not hold. The proof of `Memo` showed that two cases of `AnswerOf` overlapped, for a read
of an object that is not there; its cases exclude each other now.

Only model-checked: the liveness properties (`TurnEnds`, `CordonEnds`, `DriftBoots`,
`Rests`, `Settles`, `CopyDies`, `TakesOver`). They rest on fairness, which the prover
does not reason about. Every other property of a passing run is stated by a theorem.

## Not modelled

`components` in `PROJECT.json` gives the reason for each part. In the modelled
parts:

- rollout: the schema that prunes the ledger, the deletion of Machines and
  Leases, budgets edited while the conductor runs, the reports on requests and
  budgets, Events and messages;
- election: a Lease that is deleted, and the reads of the Lease as steps of their
  own;
- turn: restarts of k3s, demotion, the Manual policy, standalone machines, the
  pods that a drain leaves alone, two requests of one machine, and a failed write
  of a staged document or of the intent under `/run`;
- proving boot: other firmware than UEFI, what a catalog says, one version under
  two digests, a BootNext that somebody else aims at a slot, the loaders on the
  slots' partitions, documents of other kinds;
- memo: `ReadSelected`, the retry of `SettleStatus`, stores with a selector,
  kinds that the cluster does not serve, and the proof of freshness by the
  program's own Lease;
- per-node driver: Events, metrics, volume statistics, the form of a handle, a
  bind whose read-only remount fails, and what a removal of a copy that failed
  halfway has taken: `RemoveCopy` is one step, and `SweepSpares` speaks of each removal
  that begins.

The domain operators, the git CSI driver, the build tools and the command line are
most of the repository's lines. They are programs of their own; what they share
with the modelled parts is the election, the informer and the memo.

## Plan

In this order, each with its runs and its mutants:

1. The pruned ledger, deleted Machines and edited budgets in `Rollout`.
2. The freshness of every copy by the program's own Lease
   (`cluster-operator/watches.go:247`), with the informer's one connection.
3. The election's wait that runs into its timeout (`election.go:338`): another
   copy leads in the end.
4. The composition of `Turn` with `Rollout` for two machines.
5. The steward, the janitor, flux and the status of requests; then the domain
   operators that write to each other's objects, and the git CSI driver.
