------------------------------ MODULE Election ------------------------------
(***************************************************************************)
(* The leader election of a singleton operator (kubernetes/election): the  *)
(* Lease, client-go's elector as the package configures it, the renewal    *)
(* clock, the write guard and the two releases.                            *)
(*                                                                         *)
(* Time is discrete: one tick is RetryPeriod, five seconds.  A process that *)
(* runs meets its deadlines; one that is paused meets none.  Every request *)
(* of the Lease is sent, is handled by the API server and is answered in   *)
(* three steps, and one that its sender gave up on can be handled later.   *)
(***************************************************************************)
EXTENDS Naturals, FiniteSets

CONSTANTS
    Procs,      \* the processes that compete, those of one pod included
    Pod,        \* Pod[p] is the name of p's pod
    Nobody,     \* the holder of a free Lease
    Pausing,    \* the processes that may be paused, by SIGSTOP or a stalled node
    MaxTime,    \* bound: the last tick
    MaxRv       \* bound: the last resourceVersion of the Lease

ASSUME ProcsAssumption ==
    /\ IsFiniteSet(Procs)
    /\ Nobody \notin Procs
    /\ Pausing \subseteq Procs
    /\ DOMAIN Pod = Procs

ASSUME TimeAssumption == MaxTime \in Nat \ {0} /\ MaxRv \in Nat \ {0}

VARIABLES
    now,
    lease,      \* the Lease: resourceVersion, holder, renewTime and duration
    late,       \* writes of the Lease whose sender no longer waits for them
    phase,      \* where each process is in the election
    started,    \* the processes whose lead has started
    stepping,   \* the processes that chose to end
    named,      \* history: those that the Lease named when they chose to end a lead
    paused,
    seen,       \* observedRecord: the version and the holder that each process last read
                \* or wrote, and when it did
    renewed,    \* lastRenewal: when the last accepted write was sent
    sent,       \* the write of the Lease each process waits for
    deadline,   \* when the current renewal, release or clear gives up; 0 for none
    next,       \* when the renewal loop tries again
    tries,      \* how often clearIfHeld may still try
    write,      \* when the guard allowed the write each process waits for; 0 for none
    freed       \* history: a release was sent that frees the Lease of another process

stops == <<stepping, named>>
elector == <<seen, sent, deadline, next, tries, freed>>
vars == <<now, lease, late, phase, started, stops, paused, renewed, elector, write>>

-----------------------------------------------------------------------------
\* The durations, in ticks of five seconds.
Duration == 6
RenewDeadline == 2
RetryPeriod == 1

\* Mutant: apiclient's default of thirty seconds.
DefaultTimeout == 6

RequestTimeout == Duration - RenewDeadline - RetryPeriod

Times == 0 .. (MaxTime + Duration)
Lease == [rv : 1 .. MaxRv, holder : Procs \cup {Nobody}, renew : Times, seconds : {RetryPeriod, Duration}]
LeaseWrite == [rv : 0 .. MaxRv, holder : Procs \cup {Nobody}, at : Times,
               answer : {"none", "ok", "conflict"}]

NoWrite == [rv |-> 0, holder |-> Nobody, at |-> 0, answer |-> "none"]

TypeOK ==
    /\ now \in 0 .. MaxTime
    /\ lease \in Lease
    /\ late \subseteq LeaseWrite
    /\ phase \in [Procs -> {"absent", "waiting", "leading", "releasing", "clearing", "ended"}]
    /\ started \subseteq Procs
    /\ stepping \subseteq Procs /\ named \subseteq Procs
    /\ paused \subseteq Pausing
    /\ seen \in [Procs -> [rv : 0 .. MaxRv, holder : Procs \cup {Nobody}, at : Times]]
    /\ renewed \in [Procs -> Times]
    /\ sent \in [Procs -> LeaseWrite]
    /\ deadline \in [Procs -> Times]
    /\ next \in [Procs -> Times]
    /\ tries \in [Procs -> 0 .. 3]
    /\ write \in [Procs -> Times]
    /\ freed \in BOOLEAN

-----------------------------------------------------------------------------
Alive(p) == phase[p] \notin {"absent", "ended"}
Runs(p) == Alive(p) /\ p \notin paused

\* The write guard: this process leads, and sent its last accepted renewal less
\* than one renewal deadline ago.
MayWrite(p) ==
    /\ Alive(p)
    /\ p \in started /\ p \notin stepping
    /\ now - renewed[p] < RenewDeadline

\* An earlier process of p's pod holds the Lease, and its last renewal is a
\* whole duration old.
abandonedByThisPod(p) ==
    /\ lease.holder \in Procs \ {p}
    /\ Pod[lease.holder] = Pod[p]
    /\ now >= lease.renew + lease.seconds

\* Mutant: only the Lease that names this process.
ClearsOwn(p) == lease.holder = p

mayClear(p) == lease.holder = p \/ abandonedByThisPod(p)

\* A write of the Lease that p sends now, with the version that it last read.
Sending(p, holder, rv) ==
    sent' = [sent EXCEPT ![p] = [rv |-> rv, holder |-> holder, at |-> now, answer |-> "none"]]

\* p stops waiting for its write, which can still be handled.
Abandon(p) ==
    /\ sent' = [sent EXCEPT ![p] = NoWrite]
    /\ late' = IF sent[p].rv # 0 /\ sent[p].answer = "none" THEN late \cup {sent[p]} ELSE late

Idle(p) == sent[p].rv = 0

Init ==
    /\ now = 1
    /\ lease = [rv |-> 1, holder |-> Nobody, renew |-> 0, seconds |-> RetryPeriod]
    /\ late = {}
    /\ phase = [p \in Procs |-> "absent"]
    /\ started = {} /\ stepping = {} /\ named = {} /\ paused = {}
    /\ seen = [p \in Procs |-> [rv |-> 0, holder |-> Nobody, at |-> 0]]
    /\ renewed = [p \in Procs |-> 0]
    /\ sent = [p \in Procs |-> NoWrite]
    /\ deadline = [p \in Procs |-> 0]
    /\ next = [p \in Procs |-> 0]
    /\ tries = [p \in Procs |-> 3]
    /\ write = [p \in Procs |-> 0]
    /\ freed = FALSE

-----------------------------------------------------------------------------
\* The API server handles a write of the Lease: a compare-and-swap.
Stores(w) == w.rv = lease.rv /\ w.rv < MaxRv

\* Mutant: a release leaves the duration unset.
StoredUnset(w) == [rv |-> w.rv + 1, holder |-> w.holder, renew |-> w.at,
                   seconds |-> IF w.holder = Nobody THEN 0 ELSE Duration]

Stored(w) == [rv |-> w.rv + 1, holder |-> w.holder, renew |-> w.at,
              seconds |-> IF w.holder = Nobody THEN RetryPeriod ELSE Duration]

Handle(p) ==
    /\ ~Idle(p) /\ sent[p].answer = "none"
    /\ \/ /\ Stores(sent[p])
          /\ lease' = Stored(sent[p])
          /\ sent' = [sent EXCEPT ![p].answer = "ok"]
       \/ /\ sent[p].rv # lease.rv
          /\ sent' = [sent EXCEPT ![p].answer = "conflict"]
          /\ UNCHANGED lease
    /\ UNCHANGED <<now, late, phase, started, stops, paused, renewed, seen, deadline,
                   next, tries, freed, write>>

HandleLate(w) ==
    /\ late' = late \ {w}
    /\ lease' = IF Stores(w) THEN Stored(w) ELSE lease
    /\ UNCHANGED <<now, phase, started, stops, paused, renewed, elector, write>>

-----------------------------------------------------------------------------
\* A process starts once the one before it in its pod has ended.
Start(p) ==
    /\ phase[p] = "absent"
    /\ \A q \in Procs : Pod[q] = Pod[p] => ~Alive(q)
    /\ phase' = [phase EXCEPT ![p] = "waiting"]
    /\ UNCHANGED <<now, lease, late, started, stops, paused, renewed, elector, write>>

\* The read of a try.  renewalClock.Get shows the expired Lease of an earlier process
\* of the pod as a free one.
Observed(p) ==
    [rv |-> lease.rv,
     holder |-> IF abandonedByThisPod(p) THEN Nobody ELSE lease.holder,
     at |-> IF seen[p].rv = lease.rv THEN seen[p].at ELSE now]

\* It tries to take a free Lease, one that it holds already, or one that it has not seen
\* change for its whole duration.
Reads(p) ==
    /\ seen' = [seen EXCEPT ![p] = Observed(p)]
    /\ IF Observed(p).holder \in {Nobody, p} \/ now >= Observed(p).at + lease.seconds
       THEN Sending(p, p, lease.rv)
       ELSE sent' = [sent EXCEPT ![p] = NoWrite]

\* A candidate reads the Lease until it may try to take it.
Look(p) ==
    /\ Runs(p) /\ phase[p] = "waiting" /\ Idle(p)
    /\ Reads(p)
    /\ UNCHANGED <<now, lease, late, phase, started, stops, paused, renewed, deadline,
                   next, tries, freed, write>>

\* Mutant: the clock of a renewal is read when its answer arrives.
MarkAtAnswer(p) == renewed' = [renewed EXCEPT ![p] = now]

mark(p) == renewed' = [renewed EXCEPT ![p] = sent[p].at]

\* The answer of a take or of a renewal arrives: the process leads, and renews
\* again after one retry period.
Accepted(p) ==
    /\ Runs(p) /\ phase[p] \in {"waiting", "leading"} /\ sent[p].answer = "ok"
    /\ mark(p)
    /\ phase' = [phase EXCEPT ![p] = "leading"]
    /\ started' = started \cup {p}
    /\ seen' = [seen EXCEPT ![p] = [rv |-> sent[p].rv + 1, holder |-> p, at |-> now]]
    /\ sent' = [sent EXCEPT ![p] = NoWrite]
    /\ deadline' = [deadline EXCEPT ![p] = 0]
    /\ next' = [next EXCEPT ![p] = now + RetryPeriod]
    /\ UNCHANGED <<now, lease, late, stops, paused, tries, freed, write>>

\* A conflict, a refusal or a broken connection ends a try.  The one that a leader sends
\* without a read is followed by a read and a second write first: next tells the two
\* apart.  A read can fail as well.
Rejected(p) ==
    /\ Runs(p) /\ phase[p] \in {"waiting", "leading"} /\ ~Idle(p)
    /\ late' = IF sent[p].answer = "none" THEN late \cup {sent[p]} ELSE late
    /\ next' = [next EXCEPT ![p] = now + RetryPeriod]
    /\ \/ phase[p] = "leading" /\ next[p] <= sent[p].at /\ Reads(p)
       \/ sent' = [sent EXCEPT ![p] = NoWrite] /\ UNCHANGED seen
    /\ UNCHANGED <<now, lease, phase, started, stops, paused, renewed, deadline, tries, freed, write>>

\* The renewal loop tries, within one renewal deadline of its first try.  A leader that
\* knows the Lease as its own writes it with the version that it knows.  (client-go reads
\* first when a whole duration passed, and so does the conflict that follows here.)
Renew(p) ==
    /\ Runs(p) /\ phase[p] = "leading" /\ Idle(p)
    /\ now >= next[p]
    /\ deadline[p] # 0 => now < deadline[p]
    /\ deadline' = [deadline EXCEPT ![p] = IF @ = 0 THEN now + RenewDeadline ELSE @]
    /\ IF seen[p].holder = p
       THEN Sending(p, p, seen[p].rv) /\ UNCHANGED <<seen, next>>
       ELSE /\ next' = [next EXCEPT ![p] = now + RetryPeriod]
            /\ Reads(p) \/ UNCHANGED <<seen, sent>>
    /\ UNCHANGED <<now, lease, late, phase, started, stops, paused, renewed, tries, freed, write>>

\* The renewal deadline passes, and client-go releases the Lease.
GiveUp(p) ==
    /\ Runs(p) /\ phase[p] = "leading"
    /\ deadline[p] # 0 /\ now >= deadline[p]
    /\ Abandon(p)
    /\ phase' = [phase EXCEPT ![p] = "releasing"]
    /\ deadline' = [deadline EXCEPT ![p] = now + RenewDeadline]
    /\ UNCHANGED <<now, lease, started, stops, paused, renewed, seen, next, tries, freed, write>>

\* end: a leader steps down after its last write returned; a candidate stops.
\* Only an elector that led releases the Lease.
end(p) ==
    /\ Runs(p) /\ phase[p] \in {"waiting", "leading"}
    /\ write[p] = 0
    /\ stepping' = stepping \cup {p}
    /\ named' = IF phase[p] = "leading" /\ lease.holder = p THEN named \cup {p} ELSE named
    /\ Abandon(p)
    /\ phase' = [phase EXCEPT ![p] = IF @ = "leading" THEN "releasing" ELSE "clearing"]
    /\ deadline' = [deadline EXCEPT ![p] = now + RenewDeadline]
    /\ UNCHANGED <<now, lease, started, paused, renewed, seen, next, tries, freed, write>>

\* client-go's release: one read for the version, and one write if the process knows the
\* Lease as its own.  It does not ask whom the Lease names that it has just read.
Release(p) ==
    /\ Runs(p) /\ phase[p] = "releasing" /\ Idle(p)
    /\ seen[p].holder = p /\ now < deadline[p]
    /\ Sending(p, Nobody, lease.rv)
    /\ freed' = (freed \/ lease.holder \notin {p, Nobody})
    /\ UNCHANGED <<now, lease, late, phase, started, stops, paused, renewed, seen, deadline,
                   next, tries, write>>

\* Mutant: a process that chose to end trusts client-go's release.
EndsWithRelease(p) ==
    /\ Runs(p) /\ phase[p] = "releasing"
    /\ Abandon(p)
    /\ phase' = [phase EXCEPT ![p] = "ended"]
    /\ deadline' = [deadline EXCEPT ![p] = now + RenewDeadline]
    /\ write' = [write EXCEPT ![p] = 0]
    /\ UNCHANGED <<now, lease, started, stops, paused, renewed, seen, next, tries, freed>>

\* The elector ended, whatever became of its release.  A process that lost the
\* Lease exits; one that chose to end clears the Lease itself.
OnStoppedLeading(p) ==
    /\ Runs(p) /\ phase[p] = "releasing"
    /\ Abandon(p)
    /\ phase' = [phase EXCEPT ![p] = IF p \in stepping THEN "clearing" ELSE "ended"]
    /\ deadline' = [deadline EXCEPT ![p] = now + RenewDeadline]
    /\ write' = IF p \in stepping THEN write ELSE [write EXCEPT ![p] = 0]
    /\ UNCHANGED <<now, lease, started, stops, paused, renewed, seen, next, tries, freed>>

\* clearIfHeld: a Lease that still names this process is written with no holder.
\* A conflict reads the Lease again, three times in all.
clearIfHeld(p) ==
    /\ Runs(p) /\ phase[p] = "clearing"
    /\ Idle(p) \/ sent[p].answer = "conflict"
    /\ tries[p] > 0 /\ mayClear(p)
    /\ tries' = [tries EXCEPT ![p] = @ - 1]
    /\ Sending(p, Nobody, lease.rv)
    /\ UNCHANGED <<now, lease, late, phase, started, stops, paused, renewed, seen, deadline,
                   next, freed, write>>

\* The clear is done: it was accepted, there is nothing to clear, or the last try
\* met a conflict.
Cleared(p) ==
    /\ Runs(p) /\ phase[p] = "clearing"
    /\ \/ sent[p].answer = "ok"
       \/ (Idle(p) \/ sent[p].answer = "conflict") /\ ~mayClear(p)
       \/ sent[p].answer = "conflict" /\ tries[p] = 0
    /\ sent' = [sent EXCEPT ![p] = NoWrite]
    /\ phase' = [phase EXCEPT ![p] = "ended"]
    /\ UNCHANGED <<now, lease, late, started, stops, paused, renewed, seen, deadline, next,
                   tries, freed, write>>

\* The process ends without a release: the caller could not show that its
\* writers stopped, the clear failed, the kubelet killed it, or it crashed.
Die(p) ==
    /\ Alive(p)
    /\ Abandon(p)
    /\ phase' = [phase EXCEPT ![p] = "ended"]
    /\ write' = [write EXCEPT ![p] = 0]
    /\ paused' = paused \ {p}
    /\ stepping' = stepping \ {p}
    /\ UNCHANGED <<now, lease, started, named, renewed, seen, deadline, next, tries, freed>>

-----------------------------------------------------------------------------
\* The operator's own writes, through the guard.
AllowWrite(p) ==
    /\ Runs(p) /\ write[p] = 0
    /\ MayWrite(p)
    /\ write' = [write EXCEPT ![p] = now]
    /\ UNCHANGED <<now, lease, late, phase, started, stops, paused, renewed, elector>>

\* The write is answered, or RequestTimeout passes.
EndWrite(p) ==
    /\ Runs(p) /\ write[p] # 0
    /\ write' = [write EXCEPT ![p] = 0]
    /\ UNCHANGED <<now, lease, late, phase, started, stops, paused, renewed, elector>>

Pause(p) ==
    /\ Runs(p)
    /\ paused' = paused \cup {p}
    /\ UNCHANGED <<now, lease, late, phase, started, stops, renewed, elector, write>>

Resume(p) ==
    /\ p \in paused
    /\ paused' = paused \ {p}
    /\ UNCHANGED <<now, lease, late, phase, started, stops, renewed, elector, write>>

\* What a running process does no later than now.
Due(p) ==
    \/ phase[p] = "leading" /\ Idle(p) /\ now >= next[p]
    \/ phase[p] \in {"leading", "releasing", "clearing"} /\ deadline[p] # 0 /\ now >= deadline[p]
    \/ write[p] # 0 /\ now >= write[p] + RequestTimeout

Tick ==
    /\ now < MaxTime
    /\ \A p \in Procs : Runs(p) => ~Due(p)
    /\ now' = now + 1
    /\ UNCHANGED <<lease, late, phase, started, stops, paused, renewed, elector, write>>

Next ==
    \/ \E p \in Procs :
         \/ Handle(p) \/ Start(p) \/ Look(p) \/ Accepted(p) \/ Rejected(p) \/ Renew(p)
         \/ GiveUp(p) \/ end(p) \/ Release(p) \/ OnStoppedLeading(p)
         \/ clearIfHeld(p) \/ Cleared(p) \/ Die(p)
         \/ AllowWrite(p) \/ EndWrite(p)
    \/ \E p \in Pausing : Pause(p) \/ Resume(p)
    \/ \E w \in late : HandleLate(w)
    \/ Tick

Spec == Init /\ [][Next]_vars

-----------------------------------------------------------------------------
\* The processes that may write take turns, and never hand over directly, even
\* when one of them pauses (election.go: "A leader that runs stops sending
\* writes ... before another copy can take the Lease").  The exception is freed: a
\* leader that was overtaken while it was paused, and frees its successor's Lease.
Actor == INSTANCE SingleActor WITH actors <- IF freed THEN {} ELSE {p \in Procs : MayWrite(p)}
OneActorAtATime == Actor!Spec

\* A leader that is never paused has given up on each of its writes before
\* another copy may write, unless the other took a Lease that this one released
\* (RequestTimeout: "The client gives up on a write that the guard allowed just
\* before T+10s by T+25s, one retry period before a new leader can start"), or
\* one that a leader that paused freed.
Released(p) == sent[p].answer = "ok" /\ sent[p].holder = Nobody

WaitsEndFirst ==
    ~freed => \A p \in Procs \ Pausing : \A q \in Procs \ {p} :
        write[p] # 0 /\ MayWrite(q) => Released(p)

\* The same, whoever ended the lead.  A leader that cannot renew releases the
\* Lease while its last write can still be in flight.
WaitsEndBeforeAnyLead ==
    \A p \in Procs \ Pausing : \A q \in Procs \ {p} :
        write[p] # 0 => ~MayWrite(q)

\* A leader that stepped down, and that the Lease named when it did, no longer
\* holds it once it ended, although one of its renewals can land after the first
\* release (end: "a renewal that was already sent can still reach the API server
\* after the release read the Lease").  A leader that another copy overtook and
\* that finds the Lease free again is the exception: its renewal can land last.
StepDownFrees ==
    \A p \in stepping \cap named : phase[p] = "ended" => lease.holder # p

\* A candidate that stops before it led holds nothing (Await: "After a false
\* return the election has ended and this process holds nothing").
StoppedHoldsNothing ==
    \A p \in stepping \ started : phase[p] = "ended" => lease.holder # p

\* A process that chose to end leaves no Lease of its pod that ran out: neither
\* its own nor one that an earlier process of the pod held (clearIfHeld:
\* "without this clear a copy in another pod waits out the whole duration").
StopLeavesNoneBehind ==
    [][\A p \in stepping :
        phase[p] # "ended" /\ p \in stepping' /\ phase'[p] = "ended" =>
            \/ lease.holder = Nobody
            \/ Pod[lease.holder] # Pod[p]
            \/ now < lease.renew + Duration]_vars
=============================================================================
