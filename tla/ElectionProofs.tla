--------------------------- MODULE ElectionProofs ---------------------------
(***************************************************************************)
(* One process acts at a time, its writes end before another one acts, and *)
(* a process that steps down leaves the Lease free: for every set of       *)
(* processes and pods, and whoever may be paused.                          *)
(***************************************************************************)
EXTENDS Election, TLAPS

\* A write that the API server can still handle, while its sender waits for it.
Waits(q) == sent[q].rv # 0 /\ sent[q].answer = "none"

Podmate(p, h) == h \in Procs /\ Pod[h] = Pod[p]

\* Versions and times only grow, and a write carries a version that was.
LogInv ==
    /\ lease.renew <= now /\ (lease.holder \in Procs => lease.seconds = Duration)
    /\ \A w \in late : w.rv \in 1 .. lease.rv /\ w.at <= now /\ w.answer = "none"
    /\ \A p \in Procs :
        /\ sent[p].rv <= lease.rv /\ sent[p].at <= now /\ (sent[p].rv = 0 => sent[p] = NoWrite)
        /\ sent[p].answer # "none" => sent[p].rv < lease.rv
        /\ sent[p].answer = "ok" /\ sent[p].rv + 1 = lease.rv => lease.holder = sent[p].holder
        /\ seen[p].rv <= lease.rv /\ (seen[p].rv = lease.rv => lease.renew <= seen[p].at)

\* What a process waits for in each phase, and what it knows as its own.
RoleInv == \A p \in Procs :
    /\ phase[p] \in {"absent", "ended"} => Idle(p)
    /\ phase[p] \in {"absent", "waiting"} => p \notin started
    /\ phase[p] \in {"waiting", "leading"} /\ ~Idle(p) => sent[p].holder = p
    /\ phase[p] \in {"releasing", "clearing"} /\ ~Idle(p) => sent[p].holder = Nobody
    /\ p \in stepping \cup named => phase[p] \in {"releasing", "clearing", "ended"}
    /\ phase[p] = "clearing" => p \in stepping
    /\ seen[p].holder = p => seen[p].rv # 0 /\ (seen[p].rv = lease.rv => lease.holder = p)

\* One process of a pod runs at a time.
PodInv == \A p, q \in Procs : p # q /\ Pod[p] = Pod[q] => ~(Alive(p) /\ Alive(q))

\* The renewal clock never runs ahead of the elector.
ClockInv == \A p \in Procs :
    /\ renewed[p] <= now
    /\ phase[p] \in {"waiting", "leading"} /\ ~Idle(p) => renewed[p] <= sent[p].at
    /\ phase[p] = "leading" /\ deadline[p] # 0 => renewed[p] + RenewDeadline <= deadline[p]
    /\ phase[p] = "releasing" /\ p \notin stepping => renewed[p] + RenewDeadline <= now

\* A write that can replace the Lease of a process was sent once its duration had
\* passed, or it is that process's own.  Both this and the next one hold until a
\* leader frees the Lease of another.
TakeInv ==
    /\ \A w \in late : w.rv = lease.rv =>
        /\ lease.renew <= w.at
        /\ lease.holder \in Procs /\ w.holder # lease.holder =>
             \/ lease.renew + Duration <= w.at
             \/ w.holder = Nobody /\ phase[lease.holder] \in {"clearing", "ended"}
    /\ \A q \in Procs : Waits(q) /\ sent[q].rv = lease.rv =>
        /\ lease.renew <= sent[q].at
        /\ lease.holder \in Procs /\ sent[q].holder # lease.holder =>
             \/ lease.renew + Duration <= sent[q].at
             \/ q = lease.holder /\ phase[q] \in {"releasing", "clearing"}

\* The Lease names a leader for its duration after the leader's last renewal.
HeldInv == \A p \in Procs :
    /\ phase[p] \in {"waiting", "leading"} /\ sent[p].answer = "ok" /\ now < sent[p].at + Duration =>
         lease.holder = p /\ sent[p].at <= lease.renew
    /\ phase[p] \in {"leading", "releasing"} /\ p \notin stepping /\ now < renewed[p] + Duration =>
         (lease.holder = p /\ renewed[p] <= lease.renew) \/ Released(p)

\* A write of the operator is over within its timeout.
WaitInv == \A p \in Procs : write[p] # 0 =>
    /\ phase[p] \in {"leading", "releasing"} /\ p \notin stepping
    /\ write[p] < renewed[p] + RenewDeadline
    /\ p \notin Pausing => now <= write[p] + RequestTimeout

\* A conflict of the clear shows that no write of the pod can land any more, and the
\* next one that another pod holds the Lease, or nobody.
ClearInv == \A p \in Procs :
    /\ phase[p] \notin {"clearing", "ended"} => tries[p] = 3
    /\ phase[p] = "clearing" =>
        /\ tries[p] < 3 => ~Idle(p)
        /\ ~Idle(p) => \A w \in late : Podmate(p, w.holder) => w.rv <= sent[p].rv
        /\ sent[p].answer = "ok" => ~Podmate(p, lease.holder)
        /\ tries[p] <= 1 => \A w \in late : Podmate(p, w.holder) => w.rv < sent[p].rv
        /\ tries[p] <= 1 /\ sent[p].rv < lease.rv => ~Podmate(p, lease.holder)

\* After the end the Lease names the process until a renewal that is under way can no
\* longer land.
FreeInv == \A p \in stepping \cap named :
    /\ lease.holder = p \/ \A w \in late : w.holder = p => w.rv < lease.rv
    /\ phase[p] = "ended" => lease.holder # p

IInv ==
    /\ LogInv /\ RoleInv /\ PodInv /\ ClockInv /\ WaitInv /\ ClearInv /\ FreeInv
    /\ ~freed => TakeInv /\ HeldInv

-----------------------------------------------------------------------------
(* What the operators of the model return. *)

\* A request that a process sends, and what it makes of the others'.
LEMMA SendingFields ==
    ASSUME TypeOK, NEW p \in Procs, NEW h \in Procs \cup {Nobody}, NEW rv \in 0 .. MaxRv, Sending(p, h, rv)
    PROVE  /\ sent' \in [Procs -> LeaseWrite]
           /\ sent'[p].rv = rv /\ sent'[p].holder = h /\ sent'[p].at = now /\ sent'[p].answer = "none"
           /\ \A q \in Procs \ {p} : sent'[q] = sent[q]
<1>1. sent \in [Procs -> LeaseWrite] /\ now \in Times
  BY TimeAssumption DEF TypeOK, Times, Duration
<1>2. [rv |-> rv, holder |-> h, at |-> now, answer |-> "none"] \in LeaseWrite
  BY <1>1 DEF LeaseWrite
<1> QED
  BY <1>1, <1>2 DEF Sending

\* A read of the Lease, and the write that it makes a process send.
LEMMA ReadsFields ==
    ASSUME TypeOK, NEW p \in Procs, Reads(p)
    PROVE  /\ sent' \in [Procs -> LeaseWrite]
           /\ seen' \in [Procs -> [rv : 0 .. MaxRv, holder : Procs \cup {Nobody}, at : Times]]
           /\ \A q \in Procs \ {p} : sent'[q] = sent[q] /\ seen'[q] = seen[q]
           /\ seen'[p].rv = lease.rv /\ (seen'[p].holder = p => lease.holder = p)
           /\ seen'[p].at = now \/ (seen'[p].at = seen[p].at /\ seen[p].rv = lease.rv)
           /\ \/ sent'[p] = NoWrite
              \/ /\ sent'[p].rv = lease.rv /\ sent'[p].holder = p /\ sent'[p].at = now /\ sent'[p].answer = "none"
                 /\ lease.holder \in {Nobody, p} \/ abandonedByThisPod(p) \/ now >= seen'[p].at + lease.seconds
<1>1. /\ sent \in [Procs -> LeaseWrite] /\ now \in Times /\ lease \in Lease
      /\ seen \in [Procs -> [rv : 0 .. MaxRv, holder : Procs \cup {Nobody}, at : Times]]
  BY TimeAssumption DEF TypeOK, Times, Duration
<1>2. lease.rv \in 0 .. MaxRv /\ lease.holder \in Procs \cup {Nobody}
  BY <1>1 DEF Lease
<1>3. Observed(p) \in [rv : 0 .. MaxRv, holder : Procs \cup {Nobody}, at : Times]
  BY <1>1, <1>2 DEF Observed
<1>4. seen' = [seen EXCEPT ![p] = Observed(p)]
  BY DEF Reads
<1>5. /\ seen' \in [Procs -> [rv : 0 .. MaxRv, holder : Procs \cup {Nobody}, at : Times]]
      /\ seen'[p] = Observed(p) /\ \A q \in Procs \ {p} : seen'[q] = seen[q]
  BY <1>1, <1>3, <1>4
<1>6. seen'[p].rv = lease.rv /\ (seen'[p].holder = p => lease.holder = p)
  BY <1>5, ProcsAssumption DEF Observed
<1>7. seen'[p].at = now \/ (seen'[p].at = seen[p].at /\ seen[p].rv = lease.rv)
  BY <1>5 DEF Observed
<1>8. CASE /\ Observed(p).holder \in {Nobody, p} \/ now >= Observed(p).at + lease.seconds
           /\ Sending(p, p, lease.rv)
  <2>1. lease.holder \in {Nobody, p} \/ abandonedByThisPod(p) \/ now >= seen'[p].at + lease.seconds
    BY <1>5, <1>8 DEF Observed
  <2>2. /\ sent' \in [Procs -> LeaseWrite] /\ \A q \in Procs \ {p} : sent'[q] = sent[q]
        /\ sent'[p].rv = lease.rv /\ sent'[p].holder = p /\ sent'[p].at = now /\ sent'[p].answer = "none"
    BY <1>2, <1>8, SendingFields
  <2> QED
    BY <1>5, <1>6, <1>7, <2>1, <2>2
<1>9. CASE sent' = [sent EXCEPT ![p] = NoWrite]
  <2>1. NoWrite \in LeaseWrite
    BY TimeAssumption DEF LeaseWrite, NoWrite, Times, Duration
  <2>2. sent' \in [Procs -> LeaseWrite] /\ sent'[p] = NoWrite /\ \A q \in Procs \ {p} : sent'[q] = sent[q]
    BY <1>1, <1>9, <2>1
  <2> QED
    BY <1>5, <1>6, <1>7, <2>2
<1> QED
  BY <1>8, <1>9 DEF Reads

\* A request that a process gives up on can still be handled.
LEMMA AbandonFields ==
    ASSUME TypeOK, NEW p \in Procs, Abandon(p)
    PROVE  /\ sent' \in [Procs -> LeaseWrite] /\ late' \subseteq LeaseWrite
           /\ sent'[p] = NoWrite
           /\ \A q \in Procs \ {p} : sent'[q] = sent[q]
           /\ late' = late \/ (Waits(p) /\ late' = late \cup {sent[p]})
<1>1. sent \in [Procs -> LeaseWrite] /\ late \subseteq LeaseWrite
  BY DEF TypeOK
<1>2. NoWrite \in LeaseWrite
  BY TimeAssumption DEF LeaseWrite, NoWrite, Times, Duration
<1> QED
  BY <1>1, <1>2 DEF Abandon, Waits

\* What the API server stores.
LEMMA StoredFields ==
    ASSUME NEW w \in LeaseWrite, w.rv \in 1 .. MaxRv, Stores(w)
    PROVE  /\ Stored(w) \in Lease
           /\ Stored(w).rv = lease.rv + 1 /\ Stored(w).holder = w.holder /\ Stored(w).renew = w.at
           /\ w.holder \in Procs => Stored(w).seconds = Duration
  BY TimeAssumption, ProcsAssumption DEF Stores, Stored, Lease, LeaseWrite, Duration, RetryPeriod

\* What the API server makes of a request.
LEMMA HandleFields ==
    ASSUME TypeOK, NEW p \in Procs, Handle(p)
    PROVE  /\ Waits(p) /\ sent' \in [Procs -> LeaseWrite] /\ lease' \in Lease
           /\ \A q \in Procs \ {p} : sent'[q] = sent[q]
           /\ sent'[p].rv = sent[p].rv /\ sent'[p].holder = sent[p].holder /\ sent'[p].at = sent[p].at
           /\ \/ /\ sent'[p].answer = "ok" /\ sent[p].rv = lease.rv
                 /\ lease'.rv = lease.rv + 1 /\ lease'.holder = sent[p].holder /\ lease'.renew = sent[p].at
                 /\ sent[p].holder \in Procs => lease'.seconds = Duration
              \/ sent'[p].answer = "conflict" /\ sent[p].rv # lease.rv /\ lease' = lease
<1>1. sent \in [Procs -> LeaseWrite] /\ lease \in Lease
  BY DEF TypeOK
<1>2. Waits(p) /\ sent[p].rv \in 1 .. MaxRv /\ sent[p] \in LeaseWrite
  BY <1>1, TimeAssumption DEF Handle, Idle, Waits, LeaseWrite
<1>3. ASSUME NEW a \in {"ok", "conflict"}, sent' = [sent EXCEPT ![p].answer = a]
      PROVE  /\ sent' \in [Procs -> LeaseWrite] /\ sent'[p].answer = a
             /\ \A q \in Procs \ {p} : sent'[q] = sent[q]
             /\ sent'[p].rv = sent[p].rv /\ sent'[p].holder = sent[p].holder /\ sent'[p].at = sent[p].at
  BY <1>1, <1>3 DEF LeaseWrite
<1>4. CASE sent' = [sent EXCEPT ![p].answer = "ok"] /\ Stores(sent[p]) /\ lease' = Stored(sent[p])
  BY <1>2, <1>3, <1>4, StoredFields DEF Stores
<1>5. CASE sent' = [sent EXCEPT ![p].answer = "conflict"] /\ sent[p].rv # lease.rv /\ lease' = lease
  BY <1>1, <1>2, <1>3, <1>5
<1> QED
  BY <1>4, <1>5 DEF Handle

\* What the API server makes of a request that nobody waits for.
LEMMA HandleLateFields ==
    ASSUME TypeOK, LogInv, NEW w \in late, HandleLate(w)
    PROVE  /\ late' = late \ {w} /\ lease' \in Lease
           /\ \/ lease' = lease
              \/ /\ w.rv = lease.rv
                 /\ lease'.rv = lease.rv + 1 /\ lease'.holder = w.holder /\ lease'.renew = w.at
                 /\ w.holder \in Procs => lease'.seconds = Duration
<1>1. w \in LeaseWrite /\ lease \in Lease
  BY DEF TypeOK
<1>2. w.rv \in 1 .. MaxRv
  BY <1>1, TimeAssumption DEF LogInv, LeaseWrite, Lease
<1> QED
  BY <1>1, <1>2, StoredFields DEF HandleLate, Stores

\* The guard opens for a leader that did not choose to end.
LEMMA GuardOpens ==
    ASSUME TypeOK, RoleInv, ClockInv, NEW p \in Procs, MayWrite(p)
    PROVE  phase[p] = "leading" /\ p \notin stepping /\ now < renewed[p] + RenewDeadline
<1>1. phase[p] \in {"waiting", "leading", "releasing", "clearing"}
  BY DEF TypeOK, MayWrite, Alive
<1>2. renewed[p] \in Nat /\ now \in Nat /\ now - renewed[p] < RenewDeadline
  BY TimeAssumption DEF TypeOK, Times, MayWrite, Duration
<1>3. now < renewed[p] + RenewDeadline
  BY <1>2 DEF RenewDeadline
<1>4. p \in started /\ p \notin stepping
  BY DEF MayWrite
<1>5. phase[p] # "waiting" /\ phase[p] # "clearing"
  BY <1>4 DEF RoleInv
<1>6. phase[p] # "releasing"
  BY <1>2, <1>3, <1>4 DEF ClockInv, RenewDeadline
<1> QED
  BY <1>1, <1>3, <1>4, <1>5, <1>6
-----------------------------------------------------------------------------
(* The types. *)

\* The first states have the types.
LEMMA InitType == Init => TypeOK
<1> SUFFICES ASSUME Init PROVE TypeOK
  OBVIOUS
<1>1. NoWrite \in LeaseWrite
  BY TimeAssumption DEF LeaseWrite, NoWrite, Times, Duration
<1>2. lease \in Lease
  BY TimeAssumption DEF Init, Lease, Times, Duration, RetryPeriod
<1>3. 0 \in Times /\ now \in 0 .. MaxTime
  BY TimeAssumption DEF Init, Times, Duration
<1>4. seen \in [Procs -> [rv : 0 .. MaxRv, holder : Procs \cup {Nobody}, at : Times]]
  BY <1>3, TimeAssumption DEF Init
<1>5. freed \in BOOLEAN
  BY DEF Init
<1> QED
  BY <1>1, <1>2, <1>3, <1>4, <1>5 DEF Init, TypeOK

\* A step keeps the types; LogInv keeps a version below its bound.
LEMMA TypeStep == TypeOK /\ LogInv /\ [Next]_vars => TypeOK'
<1> SUFFICES ASSUME TypeOK, LogInv, [Next]_vars PROVE TypeOK'
  OBVIOUS
<1> USE DEF elector, stops
<1>a. /\ now \in Nat /\ now \in Times /\ now \in 0 .. MaxTime
      /\ \A d \in 0 .. Duration : now + d \in Times
      /\ 0 \in Times
  BY TimeAssumption DEF TypeOK, Times, Duration
<1>b. now + RenewDeadline \in Times /\ now + RetryPeriod \in Times
  BY <1>a DEF RenewDeadline, RetryPeriod, Duration
<1>c. lease.rv \in 0 .. MaxRv /\ lease.rv \in Nat
  BY TimeAssumption DEF TypeOK, Lease
<1>1. ASSUME NEW p \in Procs, Handle(p) PROVE TypeOK'
  BY <1>1, HandleFields DEF TypeOK, Handle
<1>2. ASSUME NEW p \in Procs, Start(p) PROVE TypeOK'
  BY <1>2 DEF TypeOK, Start
<1>3. ASSUME NEW p \in Procs, Look(p) PROVE TypeOK'
  <2>1. Reads(p)
    BY <1>3 DEF Look
  <2> QED
    BY <1>3, <2>1, ReadsFields DEF TypeOK, Look
<1>4. ASSUME NEW p \in Procs, Accepted(p) PROVE TypeOK'
  <2>1. sent[p] \in LeaseWrite /\ sent[p].rv < lease.rv
    BY <1>4 DEF Accepted, TypeOK, LogInv
  <2>2. sent[p].rv + 1 \in 0 .. MaxRv /\ sent[p].at \in Times
    BY <1>c, <2>1, TimeAssumption DEF LeaseWrite
  <2>3. seen' \in [Procs -> [rv : 0 .. MaxRv, holder : Procs \cup {Nobody}, at : Times]]
    BY <1>4, <1>a, <2>2 DEF Accepted, TypeOK
  <2>4. renewed' \in [Procs -> Times]
    BY <1>4, <2>2 DEF Accepted, TypeOK, mark
  <2>5. NoWrite \in LeaseWrite
    BY <1>a, TimeAssumption DEF LeaseWrite, NoWrite
  <2>6. sent' \in [Procs -> LeaseWrite] /\ deadline' \in [Procs -> Times] /\ next' \in [Procs -> Times]
    BY <1>4, <1>a, <1>b, <2>5 DEF Accepted, TypeOK
  <2> QED
    BY <1>4, <2>3, <2>4, <2>6 DEF Accepted, TypeOK
<1>5. ASSUME NEW p \in Procs, Rejected(p) PROVE TypeOK'
  <2>1. sent[p] \in LeaseWrite /\ NoWrite \in LeaseWrite
    BY <1>a, TimeAssumption DEF TypeOK, LeaseWrite, NoWrite
  <2>2. late' \subseteq LeaseWrite /\ next' \in [Procs -> Times]
    BY <1>5, <1>b, <2>1 DEF Rejected, TypeOK
  <2>3. /\ sent' \in [Procs -> LeaseWrite]
        /\ seen' \in [Procs -> [rv : 0 .. MaxRv, holder : Procs \cup {Nobody}, at : Times]]
    <3>1. CASE Reads(p)
      BY <3>1, ReadsFields
    <3>2. CASE sent' = [sent EXCEPT ![p] = NoWrite] /\ UNCHANGED seen
      BY <2>1, <3>2 DEF TypeOK
    <3> QED
      BY <1>5, <3>1, <3>2 DEF Rejected
  <2> QED
    BY <1>5, <2>2, <2>3 DEF Rejected, TypeOK
<1>6. ASSUME NEW p \in Procs, Renew(p) PROVE TypeOK'
  <2>1. seen[p].rv \in 0 .. MaxRv
    BY DEF TypeOK
  <2>2. /\ sent' \in [Procs -> LeaseWrite]
        /\ seen' \in [Procs -> [rv : 0 .. MaxRv, holder : Procs \cup {Nobody}, at : Times]]
    <3>1. CASE Reads(p)
      BY <3>1, ReadsFields
    <3>2. CASE UNCHANGED <<seen, sent>>
      BY <3>2 DEF TypeOK
    <3>3. CASE Sending(p, p, seen[p].rv) /\ UNCHANGED seen
      BY <2>1, <3>3, SendingFields DEF TypeOK
    <3> QED
      BY <1>6, <3>1, <3>2, <3>3 DEF Renew
  <2>3. next' \in [Procs -> Times] /\ deadline' \in [Procs -> Times]
    BY <1>6, <1>b DEF Renew, TypeOK
  <2> QED
    BY <1>6, <2>2, <2>3 DEF Renew, TypeOK
<1>7. ASSUME NEW p \in Procs, GiveUp(p) PROVE TypeOK'
  BY <1>7, <1>b, AbandonFields DEF GiveUp, TypeOK
<1>8. ASSUME NEW p \in Procs, end(p) PROVE TypeOK'
  BY <1>8, <1>b, AbandonFields DEF end, TypeOK
<1>9. ASSUME NEW p \in Procs, Release(p) PROVE TypeOK'
  BY <1>9, <1>c, SendingFields DEF Release, TypeOK
<1>10. ASSUME NEW p \in Procs, OnStoppedLeading(p) PROVE TypeOK'
  BY <1>10, <1>a, <1>b, AbandonFields DEF OnStoppedLeading, TypeOK
<1>11. ASSUME NEW p \in Procs, clearIfHeld(p) PROVE TypeOK'
  <2>1. tries' \in [Procs -> 0 .. 3]
    BY <1>11 DEF clearIfHeld, TypeOK
  <2> QED
    BY <1>11, <1>c, <2>1, SendingFields DEF clearIfHeld, TypeOK
<1>12. ASSUME NEW p \in Procs, Cleared(p) PROVE TypeOK'
  <2>1. NoWrite \in LeaseWrite
    BY <1>a, TimeAssumption DEF LeaseWrite, NoWrite
  <2> QED
    BY <1>12, <2>1 DEF Cleared, TypeOK
<1>13. ASSUME NEW p \in Procs, Die(p) PROVE TypeOK'
  BY <1>13, <1>a, AbandonFields DEF Die, TypeOK
<1>14. ASSUME NEW p \in Procs, AllowWrite(p) \/ EndWrite(p) PROVE TypeOK'
  BY <1>14, <1>a DEF AllowWrite, EndWrite, TypeOK
<1>15. ASSUME NEW p \in Pausing, Pause(p) \/ Resume(p) PROVE TypeOK'
  BY <1>15 DEF Pause, Resume, TypeOK
<1>16. ASSUME NEW w \in late, HandleLate(w) PROVE TypeOK'
  BY <1>16, HandleLateFields DEF HandleLate, TypeOK
<1>17. CASE Tick
  BY <1>17, TimeAssumption DEF Tick, TypeOK
<1>18. CASE UNCHANGED vars
  BY <1>18 DEF TypeOK, vars
<1> QED
  BY <1>1, <1>2, <1>3, <1>4, <1>5, <1>6, <1>7, <1>8, <1>9, <1>10, <1>11, <1>12, <1>13, <1>14, <1>15, <1>16, <1>17, <1>18
  DEF Next
-----------------------------------------------------------------------------
(* The Lease, its versions and its times. *)

\* The numbers that the proofs compare.
LEMMA Numbers ==
    ASSUME TypeOK
    PROVE  /\ now \in Nat /\ lease.rv \in Nat /\ lease.rv # 0 /\ lease.renew \in Nat
           /\ \A w \in late : w.rv \in Nat /\ w.at \in Nat
           /\ \A p \in Procs : /\ sent[p] \in LeaseWrite /\ sent[p].rv \in Nat /\ sent[p].at \in Nat
                               /\ seen[p].rv \in Nat /\ seen[p].at \in Nat
                               /\ renewed[p] \in Nat /\ deadline[p] \in Nat /\ write[p] \in Nat
                               /\ tries[p] \in 0 .. 3
           /\ NoWrite.rv = 0 /\ NoWrite.at = 0 /\ NoWrite.holder = Nobody /\ NoWrite.answer = "none"
  BY TimeAssumption DEF TypeOK, Lease, LeaseWrite, Times, Duration, NoWrite

\* The Lease changes when the API server handles a write of its version.
LEMMA LeaseFrame ==
    ASSUME TypeOK, LogInv, [Next]_vars
    PROVE  \/ lease' = lease
           \/ \E p \in Procs : Handle(p) /\ sent[p].rv = lease.rv
           \/ \E w \in late : HandleLate(w) /\ w.rv = lease.rv
<1>1. ASSUME NEW p \in Procs, Handle(p) PROVE lease' = lease \/ sent[p].rv = lease.rv
  BY <1>1, HandleFields
<1>2. ASSUME NEW w \in late, HandleLate(w) PROVE lease' = lease \/ w.rv = lease.rv
  BY <1>2, HandleLateFields
<1>3. \/ lease' = lease
      \/ \E p \in Procs : Handle(p)
      \/ \E w \in late : HandleLate(w)
  BY DEF Next, vars, Start, Look, Accepted, Rejected, Renew, GiveUp, end, Release, OnStoppedLeading,
         clearIfHeld, Cleared, Die, AllowWrite, EndWrite, Pause, Resume, Tick
<1> QED
  BY <1>1, <1>2, <1>3

\* A Lease that changes has the next version, and the time at which its write was sent.
LEMMA LeaseGrows ==
    ASSUME TypeOK, LogInv, [Next]_vars
    PROVE  /\ now <= now' /\ now' \in Nat
           /\ lease' = lease \/ lease'.rv = lease.rv + 1
           /\ lease.rv <= lease'.rv
           /\ lease'.renew <= now' /\ (lease'.holder \in Procs => lease'.seconds = Duration)
<1>1. now <= now' /\ now' \in Nat
  <2>1. now' = now \/ now' = now + 1
    BY DEF Next, vars, Handle, HandleLate, Start, Look, Accepted, Rejected, Renew, GiveUp, end, Release, OnStoppedLeading,
         clearIfHeld, Cleared, Die, AllowWrite, EndWrite, Pause, Resume, Tick
  <2> QED
    BY <2>1, Numbers
<1>2. CASE lease' = lease
  BY <1>1, <1>2, Numbers DEF LogInv
<1>3. ASSUME NEW p \in Procs, Handle(p), sent[p].rv = lease.rv
      PROVE  lease'.rv = lease.rv + 1 /\ lease'.renew <= now' /\ (lease'.holder \in Procs => lease'.seconds = Duration)
  BY <1>1, <1>3, HandleFields, Numbers DEF LogInv
<1>4. ASSUME NEW w \in late, HandleLate(w), lease' # lease
      PROVE  lease'.rv = lease.rv + 1 /\ lease'.renew <= now' /\ (lease'.holder \in Procs => lease'.seconds = Duration)
  BY <1>1, <1>4, HandleLateFields, Numbers DEF LogInv
<1> QED
  BY <1>1, <1>2, <1>3, <1>4, LeaseFrame, Numbers

\* What becomes of the request that a process waits for: it stays, it is answered, it
\* is over, or the process sends the next one with the version that it read.
LEMMA SentFrame ==
    ASSUME TypeOK, LogInv, RoleInv, [Next]_vars, NEW p \in Procs
    PROVE  \/ sent'[p] = sent[p]
           \/ Handle(p)
           \/ sent'[p] = NoWrite
           \/ /\ sent'[p].at = now /\ sent'[p].answer = "none" /\ now' = now /\ lease' = lease
              /\ sent'[p].rv \in 1 .. lease.rv
              /\ (Look(p) \/ Rejected(p) \/ Renew(p) \/ Release(p) \/ clearIfHeld(p))
              /\ \/ phase[p] \in {"waiting", "leading"} /\ sent'[p].holder = p
                 \/ phase[p] \in {"releasing", "clearing"} /\ sent'[p].holder = Nobody
<1>a. lease.rv \in 1 .. lease.rv /\ lease.rv \in 0 .. MaxRv
  BY Numbers DEF TypeOK, Lease
<1>b. ASSUME NEW q \in Procs, NEW h \in Procs \cup {Nobody}, NEW rv \in 0 .. MaxRv, Sending(q, h, rv), q # p
      PROVE  sent'[p] = sent[p]
  BY <1>b, SendingFields
<1>c. ASSUME NEW q \in Procs, Abandon(q)
      PROVE  sent'[p] = sent[p] \/ sent'[p] = NoWrite
  BY <1>c, AbandonFields
<1>1. ASSUME NEW q \in Procs, Handle(q) PROVE sent'[p] = sent[p] \/ Handle(p)
  BY <1>1, HandleFields
<1>2. ASSUME NEW q \in Procs, Look(q), q # p PROVE sent'[p] = sent[p]
  BY <1>2, ReadsFields DEF Look
<1>3. ASSUME Look(p) PROVE \/ sent'[p] = NoWrite
                           \/ /\ sent'[p].at = now /\ sent'[p].answer = "none" /\ now' = now /\ lease' = lease
                              /\ sent'[p].rv \in 1 .. lease.rv
                              /\ phase[p] \in {"waiting", "leading"} /\ sent'[p].holder = p
  BY <1>3, <1>a, ReadsFields DEF Look
<1>4. ASSUME NEW q \in Procs, Accepted(q) \/ Cleared(q) PROVE sent'[p] = sent[p] \/ sent'[p] = NoWrite
  BY <1>4 DEF Accepted, Cleared, TypeOK
<1>5. ASSUME NEW q \in Procs, Rejected(q), q # p PROVE sent'[p] = sent[p]
  BY <1>5, ReadsFields DEF Rejected, TypeOK
<1>6. ASSUME Rejected(p) PROVE \/ sent'[p] = NoWrite
                               \/ /\ sent'[p].at = now /\ sent'[p].answer = "none" /\ now' = now /\ lease' = lease
                                  /\ sent'[p].rv \in 1 .. lease.rv
                                  /\ phase[p] \in {"waiting", "leading"} /\ sent'[p].holder = p
  <2>1. /\ now' = now /\ lease' = lease /\ phase[p] \in {"waiting", "leading"}
        /\ Reads(p) \/ sent'[p] = NoWrite
    BY <1>6 DEF Rejected, TypeOK
  <2> QED
    BY <1>a, <2>1, ReadsFields
<1>7. ASSUME NEW q \in Procs, Renew(q), q # p PROVE sent'[p] = sent[p]
  <2>1. seen[q].rv \in 0 .. MaxRv
    BY DEF TypeOK
  <2>2. Sending(q, q, seen[q].rv) \/ Reads(q) \/ sent' = sent
    BY <1>7 DEF Renew
  <2> QED
    BY <1>7, <1>b, <2>1, <2>2, ReadsFields
<1>8. ASSUME Renew(p) PROVE \/ sent'[p] = sent[p]
                            \/ sent'[p] = NoWrite
                            \/ /\ sent'[p].at = now /\ sent'[p].answer = "none" /\ now' = now /\ lease' = lease
                               /\ sent'[p].rv \in 1 .. lease.rv
                               /\ phase[p] \in {"waiting", "leading"} /\ sent'[p].holder = p
  <2>1. now' = now /\ lease' = lease /\ phase[p] \in {"waiting", "leading"}
    BY <1>8 DEF Renew
  <2>2. CASE seen[p].holder = p /\ Sending(p, p, seen[p].rv)
    <3>1. seen[p].rv \in 0 .. MaxRv
      BY DEF TypeOK
    <3>2. seen[p].rv \in 1 .. lease.rv
      BY <2>2, Numbers DEF LogInv, RoleInv
    <3> QED
      BY <2>1, <2>2, <3>1, <3>2, SendingFields
  <2>3. CASE Reads(p)
    BY <1>a, <2>1, <2>3, ReadsFields
  <2> QED
    BY <1>8, <2>2, <2>3 DEF Renew
<1>9. ASSUME NEW q \in Procs, GiveUp(q) \/ end(q) \/ OnStoppedLeading(q) \/ Die(q)
      PROVE sent'[p] = sent[p] \/ sent'[p] = NoWrite
  BY <1>9, <1>c DEF GiveUp, end, OnStoppedLeading, Die
<1>10. ASSUME NEW q \in Procs, Release(q) \/ clearIfHeld(q), q # p PROVE sent'[p] = sent[p]
  BY <1>10, <1>a, <1>b DEF Release, clearIfHeld
<1>11. ASSUME Release(p) \/ clearIfHeld(p)
       PROVE  /\ sent'[p].at = now /\ sent'[p].answer = "none" /\ now' = now /\ lease' = lease
              /\ sent'[p].rv \in 1 .. lease.rv
              /\ phase[p] \in {"releasing", "clearing"} /\ sent'[p].holder = Nobody
  BY <1>11, <1>a, SendingFields DEF Release, clearIfHeld
<1>12. ASSUME NEW q \in Procs, Start(q) \/ AllowWrite(q) \/ EndWrite(q) PROVE sent' = sent
  BY <1>12 DEF Start, AllowWrite, EndWrite, elector
<1>13. ASSUME NEW q \in Pausing, Pause(q) \/ Resume(q) PROVE sent' = sent
  BY <1>13 DEF Pause, Resume, elector
<1>14. ASSUME NEW w \in late, HandleLate(w) PROVE sent' = sent
  BY <1>14 DEF HandleLate, elector
<1>15. Tick \/ UNCHANGED vars => sent' = sent
  BY DEF Tick, vars, elector
<1> QED
  BY <1>1, <1>2, <1>3, <1>4, <1>5, <1>6, <1>7, <1>8, <1>9, <1>10, <1>11, <1>12, <1>13, <1>14, <1>15 DEF Next

\* What becomes of the writes that nobody waits for.
LEMMA LateFrame ==
    ASSUME TypeOK, LogInv, [Next]_vars
    PROVE  \/ late' \subseteq late
           \/ /\ lease' = lease /\ now' = now
              /\ \E p \in Procs :
                    /\ Waits(p) /\ late' = late \cup {sent[p]}
                    /\ \A q \in Procs \ {p} : sent'[q] = sent[q] /\ phase'[q] = phase[q]
                    /\ Rejected(p) \/ GiveUp(p) \/ end(p) \/ OnStoppedLeading(p) \/ Die(p)
<1>1. ASSUME NEW p \in Procs, GiveUp(p) \/ end(p) \/ OnStoppedLeading(p) \/ Die(p)
      PROVE  \/ late' = late
             \/ /\ Waits(p) /\ late' = late \cup {sent[p]}
                /\ \A q \in Procs \ {p} : sent'[q] = sent[q] /\ phase'[q] = phase[q]
                /\ lease' = lease /\ now' = now
  BY <1>1, AbandonFields DEF GiveUp, end, OnStoppedLeading, Die, TypeOK
<1>3. ASSUME NEW p \in Procs, Rejected(p)
      PROVE  \/ late' = late
             \/ /\ Waits(p) /\ late' = late \cup {sent[p]}
                /\ \A q \in Procs \ {p} : sent'[q] = sent[q] /\ phase'[q] = phase[q]
                /\ lease' = lease /\ now' = now
  <2>1. /\ lease' = lease /\ now' = now /\ phase' = phase /\ sent[p].rv # 0
        /\ late' = late \/ (sent[p].answer = "none" /\ late' = late \cup {sent[p]})
    BY <1>3 DEF Rejected, Idle
  <2>2. \A q \in Procs \ {p} : sent'[q] = sent[q]
    BY <1>3, ReadsFields DEF Rejected, TypeOK
  <2> QED
    BY <2>1, <2>2 DEF Waits
<1>2. \/ late' \subseteq late
      \/ \E p \in Procs : Rejected(p) \/ GiveUp(p) \/ end(p) \/ OnStoppedLeading(p) \/ Die(p)
  BY DEF Next, vars, Handle, HandleLate, Start, Look, Accepted, Renew, Release,
         clearIfHeld, Cleared, AllowWrite, EndWrite, Pause, Resume, Tick
<1> QED
  BY <1>1, <1>2, <1>3

\* A leader that frees the Lease of another did so for good.
LEMMA FreedFrame == TypeOK /\ [Next]_vars => (freed => freed')
  BY DEF Next, vars, Handle, HandleLate, Start, Look, Accepted, Rejected, Renew, GiveUp, end, Release, OnStoppedLeading,
         clearIfHeld, Cleared, Die, AllowWrite, EndWrite, Pause, Resume, Tick, elector

\* A process's own steps, and what they leave alone.
Act(p) ==
    \/ Handle(p) \/ Start(p) \/ Look(p) \/ Accepted(p) \/ Rejected(p) \/ Renew(p)
    \/ GiveUp(p) \/ end(p) \/ Release(p) \/ OnStoppedLeading(p)
    \/ clearIfHeld(p) \/ Cleared(p) \/ Die(p)
    \/ AllowWrite(p) \/ EndWrite(p)

Same(p) ==
    /\ sent'[p] = sent[p] /\ phase'[p] = phase[p] /\ seen'[p] = seen[p]
    /\ renewed'[p] = renewed[p] /\ deadline'[p] = deadline[p]
    /\ tries'[p] = tries[p] /\ write'[p] = write[p]
    /\ (p \in stepping' <=> p \in stepping) /\ (p \in started' <=> p \in started)
    /\ (p \in named' <=> p \in named)

\* The steps of the others and of the world leave a process alone.
LEMMA OthersFrame ==
    ASSUME TypeOK, [Next]_vars, NEW p \in Procs
    PROVE  Act(p) \/ Same(p)
<1>1. ASSUME NEW q \in Procs \ {p}, Act(q) PROVE Same(p)
  <2>a. ASSUME NEW h \in Procs \cup {Nobody}, NEW rv \in 0 .. MaxRv, Sending(q, h, rv) PROVE sent'[p] = sent[p]
    BY <2>a, SendingFields
  <2>b. ASSUME Abandon(q) PROVE sent'[p] = sent[p]
    BY <2>b, AbandonFields
  <2>c. lease.rv \in 0 .. MaxRv /\ seen[q].rv \in 0 .. MaxRv
    BY DEF TypeOK, Lease
  <2>1. CASE Handle(q)
    BY <2>1, HandleFields DEF Handle, Same, stops
  <2>2. CASE Start(q) \/ AllowWrite(q) \/ EndWrite(q)
    BY <2>2 DEF TypeOK, Start, AllowWrite, EndWrite, Same, stops, elector
  <2>3. CASE Look(q)
    BY <1>1, <2>3, ReadsFields DEF Look, Same, stops
  <2>4. CASE Accepted(q)
    BY <2>4 DEF TypeOK, Accepted, mark, Same, stops
  <2>5. CASE Rejected(q)
    <3>1. sent'[p] = sent[p] /\ seen'[p] = seen[p]
      BY <1>1, <2>5, ReadsFields DEF Rejected, TypeOK
    <3> QED
      BY <1>1, <2>5, <3>1 DEF Rejected, Same, stops
  <2>6. CASE Renew(q)
    <3>1. sent'[p] = sent[p] /\ seen'[p] = seen[p]
      BY <1>1, <2>6, <2>a, <2>c, ReadsFields DEF Renew
    <3> QED
      BY <1>1, <2>6, <3>1 DEF Renew, Same, TypeOK, stops
  <2>7. CASE GiveUp(q)
    BY <2>7, <2>b DEF TypeOK, GiveUp, Same, stops
  <2>8. CASE end(q)
    BY <2>8, <2>b DEF TypeOK, end, Same
  <2>9. CASE Release(q)
    BY <2>9, <2>a, <2>c DEF TypeOK, Release, Same, stops
  <2>10. CASE OnStoppedLeading(q)
    BY <2>10, <2>b DEF TypeOK, OnStoppedLeading, Same, stops
  <2>11. CASE clearIfHeld(q)
    BY <2>11, <2>a, <2>c DEF TypeOK, clearIfHeld, Same, stops
  <2>12. CASE Cleared(q)
    BY <2>12 DEF TypeOK, Cleared, Same, stops
  <2>13. CASE Die(q)
    BY <2>13, <2>b DEF TypeOK, Die, Same
  <2> QED
    BY <1>1, <2>1, <2>2, <2>3, <2>4, <2>5, <2>6, <2>7, <2>8, <2>9, <2>10, <2>11, <2>12, <2>13 DEF Act
<1>2. ASSUME NEW q \in Pausing, Pause(q) \/ Resume(q) PROVE Same(p)
  BY <1>2 DEF Pause, Resume, Same, elector, stops
<1>3. ASSUME NEW w \in late, HandleLate(w) PROVE Same(p)
  BY <1>3 DEF HandleLate, Same, elector, stops
<1>4. CASE Tick \/ UNCHANGED vars
  BY <1>4 DEF Tick, vars, Same, elector, stops
<1> QED
  BY <1>1, <1>2, <1>3, <1>4 DEF Next, Act

\* Versions and times grow.
LEMMA LogStep == TypeOK /\ LogInv /\ RoleInv /\ [Next]_vars => LogInv'
<1> SUFFICES ASSUME TypeOK, LogInv, RoleInv, [Next]_vars PROVE LogInv'
  OBVIOUS
<1>1. now <= now' /\ lease.rv <= lease'.rv /\ now' \in Nat /\ lease'.rv \in Nat /\ now \in Nat /\ lease.rv \in Nat
  BY LeaseGrows, Numbers
<1>2. ASSUME NEW w \in late' PROVE w.rv \in 1 .. lease'.rv /\ w.at <= now' /\ w.answer = "none"
  <2>1. CASE w \in late
    BY <1>1, <2>1, Numbers DEF LogInv
  <2>2. ASSUME NEW p \in Procs, Waits(p), w = sent[p] PROVE w.rv \in 1 .. lease'.rv /\ w.at <= now' /\ w.answer = "none"
    BY <1>1, <2>2, Numbers DEF LogInv, Waits
  <2> QED
    BY <2>1, <2>2, LateFrame
<1>3. ASSUME NEW p \in Procs
      PROVE  /\ sent'[p].rv <= lease'.rv /\ sent'[p].at <= now' /\ (sent'[p].rv = 0 => sent'[p] = NoWrite)
             /\ sent'[p].answer # "none" => sent'[p].rv < lease'.rv
  <2>1. CASE sent'[p] = sent[p]
    BY <1>1, <2>1, Numbers DEF LogInv
  <2>2. CASE Handle(p)
    BY <1>1, <2>2, HandleFields, Numbers DEF LogInv, Waits
  <2>3. CASE sent'[p] = NoWrite
    BY <1>1, <2>3, Numbers
  <2>4. CASE /\ sent'[p].at = now /\ sent'[p].answer = "none" /\ now' = now /\ lease' = lease
             /\ sent'[p].rv \in 1 .. lease.rv
    BY <1>1, <2>4
  <2> QED
    BY <2>1, <2>2, <2>3, <2>4, SentFrame
<1>4. ASSUME NEW p \in Procs, sent'[p].answer = "ok", sent'[p].rv + 1 = lease'.rv
      PROVE  lease'.holder = sent'[p].holder
  <2>1. CASE Handle(p)
    BY <1>4, <2>1, HandleFields, Numbers
  <2>2. CASE sent'[p] = sent[p]
    <3>1. sent[p].rv < lease.rv /\ sent[p].rv \in Nat
      BY <1>4, <2>2, Numbers DEF LogInv
    <3>2. lease' = lease
      BY <1>1, <1>4, <2>2, <3>1, LeaseGrows
    <3> QED
      BY <1>4, <2>2, <3>2 DEF LogInv
  <2>3. sent'[p] # NoWrite /\ sent'[p].answer # "none"
    BY <1>4, Numbers
  <2> QED
    BY <2>1, <2>2, <2>3, SentFrame
<1>5. ASSUME NEW p \in Procs
      PROVE  seen'[p].rv <= lease'.rv /\ (seen'[p].rv = lease'.rv => lease'.renew <= seen'[p].at)
  <2>1. CASE seen'[p] = seen[p]
    BY <1>1, <2>1, LeaseGrows, Numbers DEF LogInv
  <2>2. CASE Look(p) \/ Rejected(p) \/ Renew(p)
    <3>1. lease' = lease /\ (Reads(p) \/ seen' = seen)
      BY <2>2 DEF Look, Rejected, Renew
    <3> QED
      BY <1>1, <2>1, <3>1, ReadsFields, Numbers DEF LogInv
  <2>3. CASE Accepted(p)
    <3>1. lease' = lease /\ seen'[p].rv = sent[p].rv + 1 /\ seen'[p].at = now /\ sent[p].answer # "none"
      BY <2>3 DEF Accepted, TypeOK
    <3> QED
      BY <1>1, <3>1, Numbers DEF LogInv
  <2>4. Act(p) => seen'[p] = seen[p] \/ Look(p) \/ Rejected(p) \/ Renew(p) \/ Accepted(p)
    BY DEF Act, Handle, Start, GiveUp, end, Release, OnStoppedLeading, clearIfHeld, Cleared, Die,
           AllowWrite, EndWrite, elector
  <2> QED
    BY <2>1, <2>2, <2>3, <2>4, OthersFrame DEF Same
<1> QED
  BY <1>2, <1>3, <1>4, <1>5, LeaseGrows DEF LogInv
-----------------------------------------------------------------------------
(* The phases. *)

\* How a process goes through the election.
LEMMA PhaseFrame ==
    ASSUME TypeOK, [Next]_vars, NEW p \in Procs
    PROVE  \/ phase'[p] = phase[p] /\ (p \in stepping' <=> p \in stepping) /\ (p \in named' <=> p \in named)
              /\ (p \in started' => p \in started \/ Accepted(p))
           \/ Start(p) /\ phase[p] = "absent" /\ phase'[p] = "waiting" /\ UNCHANGED <<stepping, named, started>>
           \/ Accepted(p) /\ phase[p] = "waiting" /\ phase'[p] = "leading" /\ UNCHANGED <<stepping, named>>
           \/ GiveUp(p) /\ phase[p] = "leading" /\ phase'[p] = "releasing" /\ UNCHANGED <<stepping, named, started>>
           \/ end(p) /\ phase[p] = "leading" /\ phase'[p] = "releasing" /\ p \in stepping' /\ UNCHANGED started
           \/ end(p) /\ phase[p] = "waiting" /\ phase'[p] = "clearing" /\ p \in stepping' /\ UNCHANGED <<named, started>>
           \/ OnStoppedLeading(p) /\ phase[p] = "releasing" /\ p \in stepping /\ phase'[p] = "clearing" /\ UNCHANGED <<stepping, named, started>>
           \/ OnStoppedLeading(p) /\ phase[p] = "releasing" /\ p \notin stepping /\ phase'[p] = "ended" /\ UNCHANGED <<stepping, named, started>>
           \/ Cleared(p) /\ phase[p] = "clearing" /\ phase'[p] = "ended" /\ UNCHANGED <<stepping, named, started>>
           \/ Die(p) /\ phase[p] \notin {"absent", "ended"} /\ phase'[p] = "ended" /\ p \notin stepping' /\ UNCHANGED <<named, started>>
<1>a. phase \in [Procs -> {"absent", "waiting", "leading", "releasing", "clearing", "ended"}]
  BY DEF TypeOK
<1>1. CASE Same(p)
  BY <1>1 DEF Same
<1>2. CASE Start(p)
  BY <1>2, <1>a DEF Start, stops
<1>3. CASE Accepted(p)
  BY <1>3, <1>a DEF Accepted, stops
<1>4. CASE GiveUp(p)
  BY <1>4, <1>a DEF GiveUp, stops
<1>5. CASE end(p)
  BY <1>5, <1>a DEF end
<1>6. CASE OnStoppedLeading(p)
  BY <1>6, <1>a DEF OnStoppedLeading, stops
<1>7. CASE Cleared(p)
  BY <1>7, <1>a DEF Cleared, stops
<1>8. CASE Die(p)
  BY <1>8, <1>a DEF Die, Alive
<1>9. CASE Handle(p) \/ Look(p) \/ Rejected(p) \/ Renew(p) \/ Release(p) \/ clearIfHeld(p) \/ AllowWrite(p) \/ EndWrite(p)
  BY <1>9 DEF Handle, Look, Rejected, Renew, Release, clearIfHeld, AllowWrite, EndWrite, stops
<1> QED
  BY <1>1, <1>2, <1>3, <1>4, <1>5, <1>6, <1>7, <1>8, <1>9, OthersFrame DEF Act

\* A step keeps what a process waits for in each phase.
LEMMA RoleStep == TypeOK /\ LogInv /\ RoleInv /\ [Next]_vars => RoleInv'
<1> SUFFICES ASSUME TypeOK, LogInv, RoleInv, [Next]_vars, NEW p \in Procs
             PROVE  /\ phase'[p] \in {"absent", "ended"} => sent'[p].rv = 0
                    /\ phase'[p] \in {"absent", "waiting"} => p \notin started'
                    /\ phase'[p] \in {"waiting", "leading"} /\ sent'[p].rv # 0 => sent'[p].holder = p
                    /\ phase'[p] \in {"releasing", "clearing"} /\ sent'[p].rv # 0 => sent'[p].holder = Nobody
                    /\ p \in stepping' \cup named' => phase'[p] \in {"releasing", "clearing", "ended"}
                    /\ phase'[p] = "clearing" => p \in stepping'
                    /\ seen'[p].holder = p => seen'[p].rv # 0 /\ (seen'[p].rv = lease'.rv => lease'.holder = p)
  BY DEF RoleInv, Idle
<1>1. sent'[p].rv # 0 => sent[p].rv # 0 \/ Look(p) \/ Rejected(p) \/ Renew(p) \/ Release(p) \/ clearIfHeld(p)
  BY SentFrame, HandleFields, Numbers DEF Waits
<1>7. seen'[p].holder = p => seen'[p].rv # 0 /\ (seen'[p].rv = lease'.rv => lease'.holder = p)
  <2>1. CASE seen'[p] = seen[p]
    BY <2>1, LeaseGrows, Numbers DEF RoleInv, LogInv
  <2>2. CASE Look(p) \/ Rejected(p) \/ Renew(p)
    <3>1. lease' = lease /\ (Reads(p) \/ seen' = seen)
      BY <2>2 DEF Look, Rejected, Renew
    <3> QED
      BY <2>1, <3>1, ReadsFields, Numbers
  <2>3. CASE Accepted(p)
    <3>1. /\ lease' = lease /\ seen'[p].rv = sent[p].rv + 1 /\ sent[p].answer = "ok" /\ sent[p].rv # 0
          /\ phase[p] \in {"waiting", "leading"}
      BY <2>3, Numbers DEF Accepted, TypeOK, LogInv
    <3>2. sent[p].holder = p
      BY <3>1 DEF RoleInv, Idle
    <3> QED
      BY <3>1, <3>2, Numbers DEF LogInv
  <2>4. Act(p) => seen'[p] = seen[p] \/ Look(p) \/ Rejected(p) \/ Renew(p) \/ Accepted(p)
    BY DEF Act, Handle, Start, GiveUp, end, Release, OnStoppedLeading, clearIfHeld, Cleared, Die,
           AllowWrite, EndWrite, elector
  <2> QED
    BY <2>1, <2>2, <2>3, <2>4, OthersFrame DEF Same
<1>2. CASE phase'[p] = phase[p]
  <2>1. phase[p] \in {"absent", "ended"} => sent'[p].rv = 0
    BY <1>1 DEF RoleInv, Idle, Look, Rejected, Renew, Release, clearIfHeld, Runs, Alive
  <2>2. phase[p] \in {"waiting", "leading"} /\ sent'[p].rv # 0 => sent'[p].holder = p
    BY SentFrame, HandleFields, Numbers DEF RoleInv, Idle, Waits
  <2>3. phase[p] \in {"releasing", "clearing"} /\ sent'[p].rv # 0 => sent'[p].holder = Nobody
    BY SentFrame, HandleFields, Numbers DEF RoleInv, Idle, Waits
  <2>4. /\ phase'[p] \in {"absent", "waiting"} => p \notin started'
        /\ p \in stepping' \cup named' => phase'[p] \in {"releasing", "clearing", "ended"}
        /\ phase'[p] = "clearing" => p \in stepping'
    <3>1. CASE Accepted(p)
      BY <1>2, <3>1 DEF Accepted, RoleInv, TypeOK, stops
    <3>2. CASE ~Accepted(p)
      BY <1>2, <3>2, PhaseFrame DEF RoleInv
    <3> QED
      BY <3>1, <3>2
  <2> QED
    BY <1>2, <1>7, <2>1, <2>2, <2>3, <2>4
<1>3. CASE Start(p) /\ phase[p] = "absent" /\ phase'[p] = "waiting" /\ UNCHANGED <<stepping, named, started>>
  <2>1. sent' = sent
    BY <1>3 DEF Start, elector
  <2> QED
    BY <1>3, <1>7, <2>1 DEF RoleInv, Idle
<1>4. CASE Accepted(p) /\ phase[p] = "waiting" /\ phase'[p] = "leading" /\ UNCHANGED <<stepping, named>>
  <2>1. lease' = lease /\ seen'[p].rv = sent[p].rv + 1 /\ sent[p].answer = "ok" /\ sent[p].rv # 0 /\ sent'[p] = NoWrite
    BY <1>4, Numbers DEF Accepted, TypeOK, LogInv
  <2>2. sent[p].holder = p
    BY <1>4, <2>1 DEF RoleInv, Idle
  <2> QED
    BY <1>4, <1>7, <2>1, <2>2, Numbers DEF LogInv, RoleInv
<1>5. ASSUME GiveUp(p) \/ end(p) \/ OnStoppedLeading(p) \/ Die(p) \/ Cleared(p) PROVE sent'[p].rv = 0
  BY <1>5, AbandonFields, Numbers DEF GiveUp, end, OnStoppedLeading, Die, Cleared, TypeOK
<1>6. CASE GiveUp(p) \/ end(p) \/ OnStoppedLeading(p) \/ Cleared(p) \/ Die(p)
  <2>1. phase'[p] \in {"releasing", "clearing", "ended"}
    BY <1>6 DEF GiveUp, end, OnStoppedLeading, Cleared, Die, TypeOK
  <2>2. phase'[p] = "clearing" => p \in stepping'
    BY <1>6 DEF GiveUp, end, OnStoppedLeading, Cleared, Die, TypeOK, stops
  <2> QED
    BY <1>5, <1>6, <1>7, <2>1, <2>2
<1> QED
  BY <1>2, <1>3, <1>4, <1>6, PhaseFrame

\* A process starts only when no other one of its pod runs.
LEMMA PodStep == TypeOK /\ PodInv /\ [Next]_vars => PodInv'
<1> SUFFICES ASSUME TypeOK, PodInv, [Next]_vars, NEW p \in Procs, NEW q \in Procs, p # q, Pod[p] = Pod[q]
             PROVE  ~(Alive(p)' /\ Alive(q)')
  BY DEF PodInv
<1>1. ASSUME NEW r \in Procs, Alive(r)' PROVE Alive(r) \/ Start(r)
  BY <1>1, PhaseFrame DEF Alive, Accepted, GiveUp, end, OnStoppedLeading
<1>2. ASSUME NEW r \in Procs, NEW s \in Procs, r # s, Pod[r] = Pod[s], Start(r) PROVE ~Alive(s)'
  BY <1>2 DEF Start, Alive, TypeOK
<1> QED
  BY <1>1, <1>2 DEF PodInv

\* A step keeps the renewal clock behind the elector.
LEMMA ClockStep == TypeOK /\ LogInv /\ RoleInv /\ ClockInv /\ [Next]_vars => ClockInv'
<1> SUFFICES ASSUME TypeOK, LogInv, RoleInv, ClockInv, [Next]_vars, NEW p \in Procs
             PROVE  /\ renewed'[p] <= now'
                    /\ phase'[p] \in {"waiting", "leading"} /\ sent'[p].rv # 0 => renewed'[p] <= sent'[p].at
                    /\ phase'[p] = "leading" /\ deadline'[p] # 0 => renewed'[p] + RenewDeadline <= deadline'[p]
                    /\ phase'[p] = "releasing" /\ p \notin stepping' => renewed'[p] + RenewDeadline <= now'
  BY DEF ClockInv, Idle
<1>1. now <= now' /\ now \in Nat /\ now' \in Nat /\ RenewDeadline = 2
  BY LeaseGrows, Numbers DEF RenewDeadline
<1>2. CASE Same(p)
  BY <1>1, <1>2, Numbers DEF Same, ClockInv, Idle
<1>3. CASE Accepted(p)
  BY <1>1, <1>3, Numbers DEF Accepted, mark, TypeOK, LogInv
<1>4. renewed'[p] = renewed[p] \/ Accepted(p)
  BY OthersFrame DEF Same, Act, Handle, Start, Look, Rejected, Renew, GiveUp, end, Release, OnStoppedLeading,
     clearIfHeld, Cleared, Die, AllowWrite, EndWrite
<1>5. CASE Handle(p) \/ Start(p) \/ AllowWrite(p) \/ EndWrite(p)
  <2>1. CASE Start(p)
    <3>1. sent'[p].rv = 0 /\ renewed'[p] = renewed[p] /\ now' = now /\ phase'[p] = "waiting"
      BY <2>1 DEF Start, RoleInv, Idle, TypeOK, elector
    <3> QED
      BY <3>1 DEF ClockInv
  <2>2. CASE Handle(p)
    <3>1. phase' = phase /\ deadline' = deadline /\ renewed' = renewed /\ stepping' = stepping /\ now' = now
      BY <2>2 DEF Handle, stops
    <3> QED
      BY <2>2, <3>1, HandleFields DEF ClockInv, Idle
  <2>3. CASE AllowWrite(p) \/ EndWrite(p)
    BY <2>3 DEF AllowWrite, EndWrite, elector, stops, ClockInv, Idle
  <2> QED
    BY <1>5, <2>1, <2>2, <2>3
<1>6. CASE Look(p) \/ Rejected(p) \/ Renew(p) \/ Release(p) \/ clearIfHeld(p)
  <2>1. phase' = phase /\ renewed' = renewed /\ stepping' = stepping /\ now' = now
    BY <1>6 DEF Look, Rejected, Renew, Release, clearIfHeld, stops
  <2>2. deadline'[p] = deadline[p] \/ deadline'[p] = now + RenewDeadline
    BY <1>6 DEF Look, Rejected, Renew, Release, clearIfHeld, TypeOK
  <2>3. sent'[p].rv # 0 => sent'[p].at = now \/ (sent'[p].at = sent[p].at /\ sent[p].rv # 0)
    BY SentFrame, HandleFields, Numbers
  <2> QED
    BY <1>1, <2>1, <2>2, <2>3, Numbers DEF ClockInv, Idle
<1>7. CASE GiveUp(p)
  <2>1. phase[p] = "leading" /\ deadline[p] # 0 /\ deadline[p] <= now /\ now' = now /\ renewed' = renewed
        /\ phase'[p] = "releasing"
    BY <1>7, Numbers DEF GiveUp, TypeOK
  <2> QED
    BY <1>1, <2>1, Numbers DEF ClockInv
<1>8. CASE end(p)
  <2>1. phase'[p] \in {"releasing", "clearing"} /\ p \in stepping' /\ now' = now /\ renewed' = renewed
    BY <1>8 DEF end, TypeOK
  <2> QED
    BY <2>1 DEF ClockInv
<1>9. CASE OnStoppedLeading(p) \/ Cleared(p) \/ Die(p)
  <2>1. phase'[p] \in {"clearing", "ended"} /\ now' = now /\ renewed' = renewed
    BY <1>9 DEF OnStoppedLeading, Cleared, Die, TypeOK
  <2> QED
    BY <2>1 DEF ClockInv
<1> QED
  BY <1>2, <1>3, <1>5, <1>6, <1>7, <1>8, <1>9, OthersFrame DEF Act
-----------------------------------------------------------------------------
(* Who may take the Lease from whom. *)

\* Nobody else replaces the Lease of a process before its duration passed; the process
\* itself renews it, or clears it once it no longer leads.
LEMMA Overtake ==
    ASSUME TypeOK, LogInv, RoleInv, TakeInv, [Next]_vars, lease' # lease,
           NEW h \in Procs, lease.holder = h, now < lease.renew + Duration
    PROVE  /\ lease.renew <= lease'.renew
           /\ \/ lease'.holder = h
              \/ lease'.holder = Nobody /\ phase[h] \in {"clearing", "ended"}
              \/ lease'.holder = Nobody /\ Handle(h) /\ sent'[h].answer = "ok" /\ sent'[h].holder = Nobody
<1>1. ASSUME NEW p \in Procs, Handle(p), sent[p].rv = lease.rv
      PROVE  /\ lease.renew <= lease'.renew
             /\ \/ lease'.holder = h
                \/ lease'.holder = Nobody /\ Handle(h) /\ sent'[h].answer = "ok" /\ sent'[h].holder = Nobody
  <2>1. Waits(p) /\ lease'.holder = sent[p].holder /\ lease'.renew = sent[p].at /\ sent'[p].answer = "ok"
        /\ sent'[p].holder = sent[p].holder
    BY <1>1, HandleFields
  <2>2. lease.renew <= sent[p].at /\ sent[p].at <= now
    BY <1>1, <2>1 DEF TakeInv, LogInv
  <2>3. sent[p].holder # h => p = h /\ phase[p] \in {"releasing", "clearing"}
    BY <1>1, <2>1, <2>2, Numbers DEF TakeInv, Duration
  <2>4. phase[p] \in {"releasing", "clearing"} => sent[p].holder = Nobody
    BY <2>1 DEF RoleInv, Idle, Waits
  <2> QED
    BY <1>1, <2>1, <2>2, <2>3, <2>4
<1>2. ASSUME NEW w \in late, HandleLate(w), w.rv = lease.rv
      PROVE  /\ lease.renew <= lease'.renew
             /\ lease'.holder = h \/ (lease'.holder = Nobody /\ phase[h] \in {"clearing", "ended"})
  <2>1. lease'.holder = w.holder /\ lease'.renew = w.at
    BY <1>2, HandleLateFields
  <2>2. lease.renew <= w.at /\ w.at <= now
    BY <1>2 DEF TakeInv, LogInv
  <2>3. w.holder # h => w.holder = Nobody /\ phase[h] \in {"clearing", "ended"}
    BY <1>2, <2>2, Numbers DEF TakeInv, Duration
  <2> QED
    BY <2>1, <2>2, <2>3
<1> QED
  BY <1>1, <1>2, LeaseFrame

\* A step keeps the writes that can replace a Lease.
LEMMA TakeStep == TypeOK /\ LogInv /\ RoleInv /\ TakeInv /\ [Next]_vars /\ ~freed' => TakeInv'
<1> SUFFICES ASSUME TypeOK, LogInv, RoleInv, TakeInv, [Next]_vars, ~freed' PROVE TakeInv'
  OBVIOUS
<1>a. now <= now' /\ lease.rv \in Nat /\ now \in Nat /\ lease.renew \in Nat
  BY LeaseGrows, Numbers
<1>b. RoleInv'
  BY RoleStep
<1>1. CASE lease' # lease
  <2>1. lease'.rv = lease.rv + 1
    BY <1>1, LeaseGrows
  <2>2. ASSUME NEW w \in late' PROVE w.rv # lease'.rv
    BY <1>1, <1>a, <2>1, LateFrame, Numbers DEF LogInv
  <2>3. ASSUME NEW q \in Procs, Waits(q)' PROVE sent'[q].rv # lease'.rv
    <3>1. sent'[q] = sent[q]
      BY <1>1, <2>3, SentFrame, HandleFields, Numbers DEF Waits
    <3> QED
      BY <1>a, <2>1, <3>1, Numbers DEF LogInv
  <2> QED
    BY <2>2, <2>3 DEF TakeInv
<1>2. CASE lease' = lease
  <2>1. ASSUME NEW w \in late', w.rv = lease.rv
        PROVE  /\ lease.renew <= w.at
               /\ lease.holder \in Procs /\ w.holder # lease.holder =>
                    \/ lease.renew + Duration <= w.at
                    \/ w.holder = Nobody /\ phase'[lease.holder] \in {"clearing", "ended"}
    <3>1. CASE w \in late
      <4>1. ASSUME NEW h \in Procs, phase[h] \in {"clearing", "ended"} PROVE phase'[h] \in {"clearing", "ended"}
        BY <4>1, PhaseFrame
      <4> QED
        BY <2>1, <3>1, <4>1 DEF TakeInv
    <3>2. ASSUME NEW p \in Procs, Waits(p), w = sent[p], Rejected(p) \/ GiveUp(p) \/ end(p) \/ OnStoppedLeading(p) \/ Die(p)
          PROVE  /\ lease.renew <= w.at
                 /\ lease.holder \in Procs /\ w.holder # lease.holder =>
                      \/ lease.renew + Duration <= w.at
                      \/ w.holder = Nobody /\ phase'[lease.holder] \in {"clearing", "ended"}
      <4>1. phase[p] \in {"releasing", "clearing"} => phase'[p] \in {"clearing", "ended"} /\ w.holder = Nobody
        <5>1. phase[p] \in {"releasing", "clearing"} => w.holder = Nobody
          BY <3>2 DEF RoleInv, Idle, Waits
        <5>2. phase[p] \in {"releasing", "clearing"} => phase'[p] \in {"clearing", "ended"}
          BY <3>2 DEF Rejected, GiveUp, end, OnStoppedLeading, Die, TypeOK
        <5> QED
          BY <5>1, <5>2
      <4> QED
        BY <2>1, <3>2, <4>1 DEF TakeInv
    <3> QED
      BY <3>1, <3>2, LateFrame
  <2>2. ASSUME NEW q \in Procs, Waits(q)', sent'[q].rv = lease.rv
        PROVE  /\ lease.renew <= sent'[q].at
               /\ lease.holder \in Procs /\ sent'[q].holder # lease.holder =>
                    \/ lease.renew + Duration <= sent'[q].at
                    \/ q = lease.holder /\ phase'[q] \in {"releasing", "clearing"}
    <3>1. CASE sent'[q] = sent[q]
      <4>1. phase[q] \in {"releasing", "clearing"} => phase'[q] \in {"releasing", "clearing", "ended"}
        BY PhaseFrame
      <4>2. phase'[q] # "ended"
        BY <1>b, <2>2 DEF RoleInv, Idle, Waits
      <4>3. Waits(q)
        BY <2>2, <3>1 DEF Waits
      <4> QED
        BY <2>2, <3>1, <4>1, <4>2, <4>3 DEF TakeInv
    <3>2. CASE sent'[q] # sent[q]
      <4>1. /\ sent'[q].at = now /\ (Look(q) \/ Rejected(q) \/ Renew(q) \/ Release(q) \/ clearIfHeld(q))
            /\ \/ phase[q] \in {"waiting", "leading"} /\ sent'[q].holder = q
               \/ phase[q] \in {"releasing", "clearing"} /\ sent'[q].holder = Nobody
        BY <2>2, <3>2, SentFrame, HandleFields, Numbers DEF Waits
      <4>2. lease.renew <= sent'[q].at
        BY <4>1 DEF LogInv
      <4>3. ASSUME lease.holder \in Procs, sent'[q].holder # lease.holder
            PROVE  \/ lease.renew + Duration <= now
                   \/ q = lease.holder /\ phase'[q] \in {"releasing", "clearing"}
        <5>1. lease.seconds = Duration /\ Nobody \notin Procs
          BY <4>3, ProcsAssumption DEF LogInv
        <5>2. abandonedByThisPod(q) => lease.renew + Duration <= now
          BY <1>a, <5>1, Numbers DEF abandonedByThisPod, Duration
        <5>3. CASE Reads(q)
          <6>1. sent'[q].holder = q /\ lease.holder # q
            BY <2>2, <4>3, <5>3, ReadsFields, Numbers
          <6>2. abandonedByThisPod(q) \/ now >= seen'[q].at + lease.seconds
            BY <2>2, <4>3, <5>1, <5>3, <6>1, ReadsFields, Numbers
          <6>3. now >= seen'[q].at + lease.seconds => lease.renew + Duration <= now
            BY <1>a, <5>1, <5>3, ReadsFields, Numbers DEF LogInv, Duration
          <6> QED
            BY <5>2, <6>2, <6>3
        <5>4. CASE seen[q].holder = q /\ Sending(q, q, seen[q].rv)
          <6>1. sent'[q].rv = seen[q].rv /\ sent'[q].holder = q
            BY <5>4, SendingFields DEF TypeOK
          <6> QED
            BY <2>2, <4>3, <5>4, <6>1 DEF RoleInv
        <5>5. CASE Look(q) \/ Rejected(q) \/ Renew(q)
          <6>1. Reads(q) \/ (seen[q].holder = q /\ Sending(q, q, seen[q].rv))
            BY <2>2, <3>2, <5>5, Numbers DEF Look, Rejected, Renew, TypeOK
          <6> QED
            BY <5>3, <5>4, <6>1
        <5>6. CASE Release(q)
          BY <4>3, <5>1, <5>6 DEF Release
        <5>7. CASE clearIfHeld(q)
          BY <5>2, <5>7 DEF clearIfHeld, mayClear
        <5> QED
          BY <4>1, <5>5, <5>6, <5>7
      <4> QED
        BY <4>1, <4>2, <4>3
    <3> QED
      BY <3>1, <3>2
  <2> QED
    BY <1>2, <2>1, <2>2 DEF TakeInv
<1> QED
  BY <1>1, <1>2

\* A step keeps the Lease in the name of its leader.
LEMMA HeldStep == TypeOK /\ LogInv /\ RoleInv /\ ClockInv /\ TakeInv /\ HeldInv /\ [Next]_vars => HeldInv'
<1> SUFFICES ASSUME TypeOK, LogInv, RoleInv, ClockInv, TakeInv, HeldInv, [Next]_vars, NEW p \in Procs
             PROVE  /\ phase'[p] \in {"waiting", "leading"} /\ sent'[p].answer = "ok" /\ now' < sent'[p].at + Duration =>
                         lease'.holder = p /\ sent'[p].at <= lease'.renew
                    /\ phase'[p] \in {"leading", "releasing"} /\ p \notin stepping' /\ now' < renewed'[p] + Duration =>
                         (lease'.holder = p /\ renewed'[p] <= lease'.renew) \/ Released(p)'
  BY DEF HeldInv
<1>a. now <= now' /\ now \in Nat /\ now' \in Nat /\ Duration = 6 /\ Nobody # p
  BY LeaseGrows, Numbers, ProcsAssumption DEF Duration
<1>1. ASSUME NEW t \in Nat, lease.holder = p, t <= lease.renew, now' < t + Duration
      PROVE  /\ t <= lease'.renew
             /\ \/ lease'.holder = p
                \/ phase[p] \in {"clearing", "ended"}
                \/ Handle(p) /\ sent'[p].answer = "ok" /\ sent'[p].holder = Nobody
  <2>1. CASE lease' = lease
    BY <1>1, <2>1
  <2>2. CASE lease' # lease
    <3>1. now < lease.renew + Duration
      BY <1>1, <1>a, Numbers
    <3>2. lease'.renew \in Nat
      <4>1. lease' \in Lease
        BY TypeStep DEF TypeOK
      <4> QED
        BY <4>1, TimeAssumption DEF Lease, Times, Duration
    <3> QED
      BY <1>1, <2>2, <3>1, <3>2, Overtake, Numbers
  <2> QED
    BY <2>1, <2>2
<1>2. ASSUME phase'[p] \in {"waiting", "leading"}, sent'[p].answer = "ok", now' < sent'[p].at + Duration
      PROVE  lease'.holder = p /\ sent'[p].at <= lease'.renew
  <2>1. CASE Handle(p)
    <3>1. phase' = phase
      BY <2>1 DEF Handle
    <3>2. sent[p].rv # 0
      BY <2>1 DEF Handle, Idle
    <3>3. sent[p].holder = p
      BY <1>2, <3>1, <3>2 DEF RoleInv, Idle
    <3>4. lease'.holder = sent[p].holder /\ lease'.renew = sent[p].at /\ sent'[p].at = sent[p].at
      BY <1>2, <2>1, HandleFields
    <3> QED
      BY <3>3, <3>4, Numbers
  <2>2. CASE sent'[p] = sent[p]
    <3>1. phase[p] \in {"absent", "waiting", "leading"}
      BY <1>2, PhaseFrame
    <3>2. phase[p] # "absent"
      BY <1>2, <2>2, Numbers DEF RoleInv, Idle, LogInv
    <3>3. now < sent[p].at + Duration
      BY <1>2, <1>a, <2>2, Numbers
    <3>4. lease.holder = p /\ sent[p].at <= lease.renew
      BY <1>2, <2>2, <3>1, <3>2, <3>3 DEF HeldInv
    <3>5. ~Handle(p)
      BY <1>2, <2>2 DEF Handle
    <3> QED
      BY <1>1, <1>2, <2>2, <3>1, <3>4, <3>5, Numbers
  <2> QED
    BY <1>2, <2>1, <2>2, SentFrame, Numbers
<1>3. ASSUME phase'[p] \in {"leading", "releasing"}, p \notin stepping', now' < renewed'[p] + Duration
      PROVE  (lease'.holder = p /\ renewed'[p] <= lease'.renew) \/ Released(p)'
  <2>1. CASE Accepted(p)
    <3>1. phase[p] \in {"waiting", "leading"} /\ sent[p].answer = "ok" /\ renewed'[p] = sent[p].at /\ lease' = lease
          /\ now' = now
      BY <2>1 DEF Accepted, mark, TypeOK
    <3> QED
      BY <1>3, <3>1 DEF HeldInv
  <2>2. CASE ~Accepted(p)
    <3>1. renewed'[p] = renewed[p]
      BY <2>2, OthersFrame DEF Same, Act, Handle, Start, Look, Rejected, Renew, GiveUp, end, Release, OnStoppedLeading,
         clearIfHeld, Cleared, Die, AllowWrite, EndWrite
    <3>2. phase[p] \in {"leading", "releasing"} /\ p \notin stepping
      BY <1>3, <2>2, PhaseFrame
    <3>3. now < renewed[p] + Duration
      BY <1>3, <1>a, <3>1, Numbers
    <3>4. CASE lease.holder = p /\ renewed[p] <= lease.renew
      <4>1. renewed[p] \in Nat /\ now' < renewed[p] + Duration
        BY <1>3, <3>1, Numbers
      <4> QED
        BY <1>1, <3>1, <3>2, <3>4, <4>1 DEF Released
    <3>5. CASE Released(p)
      <4>1. sent[p].answer = "ok" /\ sent[p].holder = Nobody /\ sent[p].rv # 0
        BY <3>5, Numbers DEF Released, LogInv
      <4>2. phase[p] = "releasing"
        BY <1>a, <3>2, <4>1 DEF RoleInv, Idle
      <4>3. phase'[p] = "releasing"
        BY <1>3, <4>2, PhaseFrame
      <4>4. sent'[p] = sent[p]
        BY <3>2, <4>1, <4>2, <4>3, OthersFrame DEF Same, Act, Handle, Start, Look, Accepted, Rejected, Renew, GiveUp, end,
           Release, OnStoppedLeading, clearIfHeld, Cleared, Die, AllowWrite, EndWrite, elector, Idle, TypeOK
      <4> QED
        BY <4>1, <4>4 DEF Released
    <3> QED
      BY <3>2, <3>3, <3>4, <3>5 DEF HeldInv
  <2> QED
    BY <2>1, <2>2
<1> QED
  BY <1>2, <1>3

\* A step keeps the operator's writes within their timeout.
LEMMA WaitStep == TypeOK /\ LogInv /\ RoleInv /\ ClockInv /\ WaitInv /\ [Next]_vars => WaitInv'
<1> SUFFICES ASSUME TypeOK, LogInv, RoleInv, ClockInv, WaitInv, [Next]_vars, NEW p \in Procs, write'[p] # 0
             PROVE  /\ phase'[p] \in {"leading", "releasing"} /\ p \notin stepping'
                    /\ write'[p] < renewed'[p] + RenewDeadline
                    /\ p \notin Pausing => now' <= write'[p] + RequestTimeout
  BY DEF WaitInv
<1>a. now \in Nat /\ RenewDeadline = 2 /\ RequestTimeout = 3
  BY Numbers DEF RenewDeadline, RequestTimeout, Duration, RetryPeriod
<1>1. CASE AllowWrite(p)
  <2>1. MayWrite(p) /\ write'[p] = now /\ UNCHANGED <<now, phase, renewed, stepping>>
    BY <1>1 DEF AllowWrite, TypeOK, stops
  <2>2. phase[p] = "leading" /\ p \notin stepping /\ now < renewed[p] + RenewDeadline
    BY <2>1, GuardOpens
  <2> QED
    BY <1>a, <2>1, <2>2
<1>2. CASE ~AllowWrite(p)
  <2>1. write'[p] = write[p]
    BY <1>2, OthersFrame DEF Same, Act, Handle, Start, Look, Accepted, Rejected, Renew, GiveUp, end,
       Release, OnStoppedLeading, clearIfHeld, Cleared, Die, EndWrite, TypeOK
  <2>2. phase[p] \in {"leading", "releasing"} /\ p \notin stepping /\ write[p] < renewed[p] + RenewDeadline
        /\ (p \notin Pausing => now <= write[p] + RequestTimeout)
    BY <2>1 DEF WaitInv
  <2>3. ~end(p) /\ ~OnStoppedLeading(p) /\ ~Die(p)
    BY <2>1, <2>2 DEF end, OnStoppedLeading, Die, TypeOK
  <2>4. phase'[p] \in {"leading", "releasing"} /\ p \notin stepping'
    BY <2>2, <2>3, PhaseFrame
  <2>5. renewed[p] <= renewed'[p] /\ renewed'[p] \in Nat
    <3>1. CASE Accepted(p)
      <4>1. renewed'[p] = sent[p].at /\ phase[p] \in {"waiting", "leading"} /\ sent[p].rv # 0
        BY <3>1, Numbers DEF Accepted, mark, TypeOK, LogInv
      <4> QED
        BY <4>1, Numbers DEF ClockInv, Idle
    <3>2. CASE ~Accepted(p)
      <4>1. renewed'[p] = renewed[p]
        BY <3>2, OthersFrame DEF Same, Act, Handle, Start, Look, Rejected, Renew, GiveUp, end, Release, OnStoppedLeading,
           clearIfHeld, Cleared, Die, AllowWrite, EndWrite
      <4> QED
        BY <4>1, Numbers
    <3> QED
      BY <3>1, <3>2
  <2>6. p \notin Pausing => now' <= write[p] + RequestTimeout
    <3>1. now' = now \/ Tick
      BY DEF Next, vars, Handle, HandleLate, Start, Look, Accepted, Rejected, Renew, GiveUp, end, Release, OnStoppedLeading,
         clearIfHeld, Cleared, Die, AllowWrite, EndWrite, Pause, Resume
    <3>2. ASSUME Tick, p \notin Pausing PROVE now' <= write[p] + RequestTimeout
      <4>1. Runs(p)
        BY <2>2, <3>2 DEF Runs, Alive, TypeOK
      <4>2. write[p] # 0 /\ now' = now + 1
        BY <2>1, <3>2 DEF Tick
      <4>3. ~(now >= write[p] + RequestTimeout)
        BY <3>2, <4>1, <4>2 DEF Tick, Due
      <4> QED
        BY <1>a, <4>2, <4>3, Numbers
    <3> QED
      BY <2>2, <3>1, <3>2
  <2> QED
    BY <1>a, <2>1, <2>2, <2>4, <2>5, <2>6, Numbers
<1> QED
  BY <1>1, <1>2
-----------------------------------------------------------------------------
(* The clear. *)

\* While a process clears, no write of its pod joins those that can still land.
LEMMA PodIsQuiet ==
    ASSUME TypeOK, LogInv, RoleInv, PodInv, [Next]_vars,
           NEW p \in Procs, phase[p] = "clearing", phase'[p] = "clearing"
    PROVE  /\ \A w \in late' : Podmate(p, w.holder) => w \in late
           /\ lease' # lease /\ Podmate(p, lease'.holder) =>
                \E w \in late : w.rv = lease.rv /\ Podmate(p, w.holder)
<1>a. Nobody \notin Procs /\ Alive(p)
  BY ProcsAssumption DEF Alive
<1>1. ASSUME NEW q \in Procs, Waits(q) PROVE ~Podmate(p, sent[q].holder)
  <2>1. phase[q] \notin {"absent", "ended"} /\ Alive(q)
    BY <1>1 DEF RoleInv, Idle, Waits, Alive
  <2>2. sent[q].holder = q \/ sent[q].holder = Nobody
    BY <1>1, <2>1 DEF TypeOK, RoleInv, Idle, Waits
  <2>3. q = p => sent[q].holder = Nobody
    BY <1>1 DEF RoleInv, Idle, Waits
  <2>4. q # p => Pod[q] # Pod[p]
    BY <1>a, <2>1 DEF PodInv
  <2> QED
    BY <1>a, <2>2, <2>3, <2>4 DEF Podmate
<1>2. ASSUME NEW w \in late', Podmate(p, w.holder) PROVE w \in late
  BY <1>1, <1>2, LateFrame
<1>3. ASSUME lease' # lease, Podmate(p, lease'.holder)
      PROVE  \E w \in late : w.rv = lease.rv /\ Podmate(p, w.holder)
  <2>1. ASSUME NEW q \in Procs, Handle(q) PROVE FALSE
    BY <1>1, <1>3, <2>1, HandleFields
  <2>2. PICK w \in late : HandleLate(w) /\ w.rv = lease.rv
    BY <1>3, <2>1, LeaseFrame
  <2>3. lease'.holder = w.holder
    BY <1>3, <2>2, HandleLateFields
  <2> QED
    BY <1>3, <2>2, <2>3
<1> QED
  BY <1>2, <1>3

\* A step keeps what a conflict of the clear shows.
LEMMA ClearStep == TypeOK /\ LogInv /\ RoleInv /\ PodInv /\ ClearInv /\ [Next]_vars => ClearInv'
<1> SUFFICES ASSUME TypeOK, LogInv, RoleInv, PodInv, ClearInv, [Next]_vars, NEW p \in Procs
             PROVE  /\ phase'[p] \notin {"clearing", "ended"} => tries'[p] = 3
                    /\ phase'[p] = "clearing" =>
                        /\ tries'[p] < 3 => sent'[p].rv # 0
                        /\ sent'[p].rv # 0 => \A w \in late' : Podmate(p, w.holder) => w.rv <= sent'[p].rv
                        /\ sent'[p].answer = "ok" => ~Podmate(p, lease'.holder)
                        /\ tries'[p] <= 1 => \A w \in late' : Podmate(p, w.holder) => w.rv < sent'[p].rv
                        /\ tries'[p] <= 1 /\ sent'[p].rv < lease'.rv => ~Podmate(p, lease'.holder)
  BY DEF ClearInv, Idle, Podmate
<1>a. Nobody \notin Procs
  BY ProcsAssumption
<1>1. phase[p] \in {"clearing", "ended"} => phase'[p] \in {"clearing", "ended"}
  BY PhaseFrame
<1>2. tries'[p] = tries[p] \/ (clearIfHeld(p) /\ phase[p] = "clearing" /\ phase' = phase)
  BY OthersFrame DEF Same, Act, Handle, Start, Look, Accepted, Rejected, Renew, GiveUp, end, Release, OnStoppedLeading,
     clearIfHeld, Cleared, Die, AllowWrite, EndWrite, elector
<1>3. phase'[p] \notin {"clearing", "ended"} => tries'[p] = 3
  BY <1>1, <1>2 DEF ClearInv
<1>4. CASE phase'[p] = "clearing" /\ phase[p] # "clearing"
  <2>1. end(p) \/ OnStoppedLeading(p)
    BY <1>4, PhaseFrame
  <2>2. sent'[p] = NoWrite
    BY <2>1, AbandonFields DEF end, OnStoppedLeading
  <2>3. tries'[p] = 3
    BY <1>1, <1>2, <1>4, <2>1 DEF ClearInv, end, OnStoppedLeading
  <2> QED
    BY <1>3, <2>2, <2>3, Numbers
<1>5. CASE phase'[p] = "clearing" /\ phase[p] = "clearing"
  <2>a. \A w \in late' : Podmate(p, w.holder) => w \in late
    BY <1>5, PodIsQuiet
  <2>b. lease' # lease /\ Podmate(p, lease'.holder) => \E w \in late : w.rv = lease.rv /\ Podmate(p, w.holder)
    BY <1>5, PodIsQuiet
  <2>c. /\ tries[p] < 3 => sent[p].rv # 0
        /\ sent[p].rv # 0 => \A w \in late : Podmate(p, w.holder) => w.rv <= sent[p].rv
        /\ sent[p].answer = "ok" => ~Podmate(p, lease.holder)
        /\ tries[p] <= 1 => \A w \in late : Podmate(p, w.holder) => w.rv < sent[p].rv
        /\ tries[p] <= 1 /\ sent[p].rv < lease.rv => ~Podmate(p, lease.holder)
    BY <1>5 DEF ClearInv, Idle
  <2>1. CASE sent'[p] = sent[p] /\ tries'[p] = tries[p]
    <3>1. sent[p].answer = "ok" => ~Podmate(p, lease'.holder)
      <4> SUFFICES ASSUME sent[p].answer = "ok", Podmate(p, lease'.holder) PROVE FALSE
        OBVIOUS
      <4>1. sent[p].rv < lease.rv /\ sent[p].rv # 0
        BY Numbers DEF LogInv
      <4>2. PICK w \in late : w.rv = lease.rv /\ Podmate(p, w.holder)
        BY <2>b, <2>c
      <4> QED
        BY <2>c, <4>1, <4>2, Numbers
    <3>2. tries[p] <= 1 /\ sent[p].rv < lease'.rv => ~Podmate(p, lease'.holder)
      <4> SUFFICES ASSUME tries[p] <= 1, sent[p].rv < lease'.rv, Podmate(p, lease'.holder) PROVE FALSE
        OBVIOUS
      <4>1. lease' # lease
        BY <2>c
      <4>2. PICK w \in late : w.rv = lease.rv /\ Podmate(p, w.holder)
        BY <2>b, <4>1
      <4>3. sent[p].rv <= lease.rv
        BY DEF LogInv
      <4> QED
        BY <2>c, <4>2, <4>3, Numbers
    <3> QED
      BY <1>3, <2>1, <2>a, <2>c, <3>1, <3>2
  <2>2. CASE Handle(p)
    <3>1. tries'[p] = tries[p] /\ late' = late /\ sent[p].rv # 0 /\ sent[p].holder = Nobody
      BY <1>5, <2>2 DEF Handle, RoleInv, Idle
    <3>2. sent'[p].rv = sent[p].rv
      BY <2>2, HandleFields
    <3>3. CASE sent'[p].answer = "ok"
      <4>1. lease'.holder = Nobody
        BY <2>2, <3>1, <3>3, HandleFields
      <4> QED
        BY <1>3, <1>a, <2>c, <3>1, <3>2, <4>1 DEF Podmate
    <3>4. CASE sent'[p].answer # "ok"
      <4>1. lease' = lease
        BY <2>2, <3>4, HandleFields
      <4> QED
        BY <1>3, <2>c, <3>1, <3>2, <3>4, <4>1
    <3> QED
      BY <3>3, <3>4
  <2>3. CASE clearIfHeld(p)
    <3>1. /\ tries'[p] = tries[p] - 1 /\ late' = late /\ lease' = lease
          /\ sent[p].rv = 0 \/ sent[p].answer = "conflict"
      BY <2>3 DEF clearIfHeld, Idle, TypeOK
    <3>2. sent'[p].rv = lease.rv /\ sent'[p].answer = "none"
      <4>1. lease.rv \in 0 .. MaxRv
        BY TimeAssumption DEF TypeOK, Lease
      <4>2. Sending(p, Nobody, lease.rv)
        BY <2>3 DEF clearIfHeld
      <4> QED
        BY <4>1, <4>2, SendingFields
    <3>3. \A w \in late : w.rv <= lease.rv
      BY Numbers DEF LogInv
    <3>4. ASSUME tries'[p] <= 1, NEW w \in late, Podmate(p, w.holder) PROVE w.rv < lease.rv
      <4>1. tries[p] < 3
        BY <3>1, <3>4, Numbers
      <4>2. sent[p].rv # 0 /\ sent[p].rv < lease.rv
        BY <2>c, <3>1, <4>1 DEF LogInv
      <4> QED
        BY <2>c, <3>4, <4>2, Numbers
    <3> QED
      BY <1>3, <3>1, <3>2, <3>3, <3>4, Numbers
  <2>4. Act(p) => Handle(p) \/ clearIfHeld(p) \/ (sent'[p] = sent[p] /\ tries'[p] = tries[p])
    BY <1>5 DEF Act, Start, Look, Accepted, Rejected, Renew, GiveUp, end, Release, OnStoppedLeading,
       Cleared, Die, AllowWrite, EndWrite, TypeOK, elector
  <2> QED
    BY <2>1, <2>2, <2>3, <2>4, OthersFrame DEF Same
<1> QED
  BY <1>3, <1>4, <1>5

\* The end of a clear leaves the Lease to another pod, or to nobody, or to a process of
\* the pod whose duration has not passed.
LEMMA ClearEnds ==
    ASSUME TypeOK, LogInv, RoleInv, ClearInv, NEW p \in Procs, Cleared(p)
    PROVE  /\ lease.holder # p
           /\ Podmate(p, lease.holder) => now < lease.renew + Duration
<1>a. phase[p] = "clearing" /\ now \in Nat /\ lease.renew \in Nat
  BY Numbers DEF Cleared
<1>1. CASE sent[p].answer = "ok"
  BY <1>1, <1>a DEF ClearInv, Podmate
<1>2. CASE ~mayClear(p)
  <2>1. lease.holder # p
    BY <1>2 DEF mayClear
  <2>2. Podmate(p, lease.holder) => ~(now >= lease.renew + lease.seconds) /\ lease.seconds = Duration
    BY <1>2, <2>1 DEF mayClear, abandonedByThisPod, Podmate, LogInv
  <2> QED
    BY <1>a, <2>1, <2>2 DEF Duration
<1>3. CASE sent[p].answer = "conflict" /\ tries[p] = 0
  <2>1. sent[p].rv < lease.rv
    BY <1>3 DEF LogInv
  <2>2. ~Podmate(p, lease.holder)
    BY <1>3, <1>a, <2>1 DEF ClearInv
  <2> QED
    BY <2>2 DEF Podmate
<1> QED
  BY <1>1, <1>2, <1>3 DEF Cleared

\* A step keeps the Lease of a process that stepped down free of it.
LEMMA FreeStep == TypeOK /\ LogInv /\ RoleInv /\ ClearInv /\ FreeInv /\ [Next]_vars => FreeInv'
<1> SUFFICES ASSUME TypeOK, LogInv, RoleInv, ClearInv, FreeInv, [Next]_vars PROVE FreeInv'
  OBVIOUS
<1>b. stepping' \subseteq Procs
  BY TypeStep DEF TypeOK
<1> SUFFICES ASSUME NEW p \in Procs, p \in stepping', p \in named'
             PROVE  /\ lease'.holder = p \/ \A w \in late' : w.holder = p => w.rv < lease'.rv
                    /\ phase'[p] = "ended" => lease'.holder # p
  BY <1>b DEF FreeInv
<1>a. Nobody # p
  BY ProcsAssumption
<1>1. ASSUME NEW q \in Procs, Waits(q), sent[q].holder = p PROVE q = p /\ phase[p] \in {"waiting", "leading"}
  <2>1. phase[q] \notin {"absent", "ended"}
    BY <1>1 DEF RoleInv, Idle, Waits
  <2>2. phase[q] \in {"waiting", "leading"} /\ sent[q].holder = q
    BY <1>1, <1>a, <2>1 DEF TypeOK, RoleInv, Idle, Waits
  <2> QED
    BY <1>1, <2>2
<1>2. CASE ~(p \in stepping /\ p \in named)
  <2>1. end(p) /\ phase[p] = "leading" /\ lease.holder = p
    <3>1. ~(p \in stepping' <=> p \in stepping) \/ ~(p \in named' <=> p \in named)
      BY <1>2
    <3>2. end(p) \/ Die(p)
      BY <3>1, OthersFrame DEF Same, Act, Handle, Start, Look, Accepted, Rejected, Renew, GiveUp, Release, OnStoppedLeading,
         clearIfHeld, Cleared, AllowWrite, EndWrite, stops
    <3>3. end(p)
      BY <3>2 DEF Die
    <3>4. p \notin named
      BY <3>3 DEF end, RoleInv
    <3> QED
      BY <3>3, <3>4 DEF end
  <2>2. phase'[p] = "releasing" /\ lease' = lease
    BY <2>1 DEF end, TypeOK
  <2> QED
    BY <2>1, <2>2
<1>3. CASE p \in stepping /\ p \in named
  <2>a. phase[p] \in {"releasing", "clearing", "ended"}
    BY <1>3 DEF RoleInv
  <2>b. lease.holder = p \/ \A w \in late : w.holder = p => w.rv < lease.rv
    BY <1>3 DEF FreeInv
  <2>c. \A w \in late' : w.holder = p => w \in late
    BY <1>1, <2>a, LateFrame
  <2>1. lease'.holder = p \/ \A w \in late' : w.holder = p => w.rv < lease'.rv
    <3>1. CASE lease' = lease
      BY <2>b, <2>c, <3>1
    <3>2. CASE lease' # lease
      BY <2>c, <3>2, LeaseGrows, Numbers DEF LogInv
    <3> QED
      BY <3>1, <3>2
  <2>2. ASSUME phase'[p] = "ended" PROVE lease'.holder # p
    <3>1. CASE phase[p] = "ended"
      <4>1. lease.holder # p
        BY <1>3, <3>1 DEF FreeInv
      <4>2. ASSUME lease' # lease PROVE lease'.holder # p
        <5>1. ASSUME NEW q \in Procs, Handle(q) PROVE lease'.holder # p
          BY <1>1, <2>a, <4>2, <5>1, HandleFields
        <5>2. ASSUME NEW w \in late, HandleLate(w), w.rv = lease.rv PROVE lease'.holder # p
          BY <2>b, <4>1, <4>2, <5>2, HandleLateFields, Numbers
        <5> QED
          BY <4>2, <5>1, <5>2, LeaseFrame
      <4> QED
        BY <4>1, <4>2
    <3>2. CASE phase[p] # "ended"
      <4>1. Cleared(p)
        BY <1>3, <2>2, <3>2, PhaseFrame
      <4>2. lease' = lease
        BY <4>1 DEF Cleared
      <4> QED
        BY <4>1, <4>2, ClearEnds
    <3> QED
      BY <3>1, <3>2
  <2> QED
    BY <2>1, <2>2
<1> QED
  BY <1>2, <1>3
-----------------------------------------------------------------------------
(* The theorems. *)

\* The first states satisfy the invariant.
LEMMA InitInv == Init => IInv
<1> SUFFICES ASSUME Init PROVE IInv
  OBVIOUS
<1>1. /\ now = 1 /\ lease.rv = 1 /\ lease.holder = Nobody /\ lease.renew = 0 /\ late = {}
      /\ started = {} /\ stepping = {} /\ named = {}
      /\ NoWrite.rv = 0 /\ NoWrite.at = 0 /\ NoWrite.answer = "none"
  BY DEF Init, NoWrite
<1>2. ASSUME NEW p \in Procs
      PROVE  /\ phase[p] = "absent" /\ sent[p] = NoWrite /\ seen[p].rv = 0 /\ seen[p].holder = Nobody
             /\ renewed[p] = 0 /\ tries[p] = 3 /\ write[p] = 0 /\ deadline[p] = 0
  BY DEF Init
<1>3. Nobody \notin Procs
  BY ProcsAssumption
<1>4. LogInv
  BY <1>1, <1>2, <1>3 DEF LogInv
<1>5. RoleInv /\ PodInv
  BY <1>1, <1>2, <1>3 DEF RoleInv, PodInv, Idle, Alive
<1>6. ClockInv /\ WaitInv
  BY <1>1, <1>2 DEF ClockInv, WaitInv, Idle
<1>7. TakeInv /\ HeldInv
  BY <1>1, <1>2 DEF TakeInv, HeldInv, Waits
<1>8. ClearInv /\ FreeInv
  BY <1>1, <1>2 DEF ClearInv, FreeInv
<1> QED
  BY <1>4, <1>5, <1>6, <1>7, <1>8 DEF IInv

\* The guard lets a leader write while the Lease names it, until another one frees it.
WriterInv == \A p \in Procs : MayWrite(p) =>
    /\ phase[p] = "leading" /\ p \notin stepping /\ p \in started
    /\ now < renewed[p] + RenewDeadline
    /\ ~freed => lease.holder = p

\* The Lease names the process whose writes the guard allows.
LEMMA WriterHolds == TypeOK /\ IInv => WriterInv
<1> SUFFICES ASSUME TypeOK, IInv, NEW p \in Procs, MayWrite(p)
             PROVE  /\ phase[p] = "leading" /\ p \notin stepping /\ p \in started
                    /\ now < renewed[p] + RenewDeadline
                    /\ ~freed => lease.holder = p
  BY DEF WriterInv
<1>1. phase[p] = "leading" /\ p \notin stepping /\ p \in started /\ now < renewed[p] + RenewDeadline
  BY GuardOpens DEF IInv, MayWrite
<1>2. now < renewed[p] + Duration
  BY <1>1, Numbers DEF RenewDeadline, Duration
<1>3. ~Released(p)
  <2>1. sent[p].answer = "ok" => sent[p].rv # 0
    BY Numbers DEF IInv, LogInv
  <2> QED
    BY <1>1, <2>1, ProcsAssumption DEF IInv, RoleInv, Idle, Released
<1> QED
  BY <1>1, <1>2, <1>3 DEF IInv, HeldInv

\* The next state satisfies the invariant too.
LEMMA NextState == TypeOK /\ IInv /\ [Next]_vars => (TypeOK /\ IInv /\ WriterInv)'
<1>1. TypeOK /\ IInv /\ [Next]_vars => (TypeOK /\ IInv)'
  BY TypeStep, LogStep, RoleStep, PodStep, ClockStep, TakeStep, HeldStep, WaitStep, ClearStep, FreeStep, FreedFrame DEF IInv
<1> QED
  BY <1>1, WriterHolds, PTL

\* Every state satisfies the invariant.
LEMMA InvariantHolds == Spec => [](TypeOK /\ IInv)
<1>1. Init => TypeOK /\ IInv
  BY InitType, InitInv
<1> QED
  BY <1>1, NextState, PTL DEF Spec

\* Every variable keeps its type: no version passes its bound, and no process
\* waits for a write that it could not have sent.
THEOREM TypeCorrect == Spec => []TypeOK
  BY InvariantHolds, PTL

\* A leader that is never paused has given up on its writes before another process may
\* write, unless it released the Lease itself (RequestTimeout), or a leader that was
\* overtaken in a pause freed the Lease of its successor.
THEOREM WritesEndBeforeTheNextLead == Spec => []WaitsEndFirst
<1>1. TypeOK /\ IInv => WaitsEndFirst
  <2> SUFFICES ASSUME TypeOK, IInv, ~freed, NEW p \in Procs \ Pausing, NEW q \in Procs \ {p}, write[p] # 0, MayWrite(q)
               PROVE  Released(p)
    BY DEF WaitsEndFirst
  <2>1. /\ phase[p] \in {"leading", "releasing"} /\ p \notin stepping
        /\ write[p] < renewed[p] + RenewDeadline /\ now <= write[p] + RequestTimeout
    BY DEF IInv, WaitInv
  <2>2. now < renewed[p] + Duration
    BY <2>1, Numbers DEF RenewDeadline, RequestTimeout, RetryPeriod, Duration
  <2>3. lease.holder = q
    BY WriterHolds DEF WriterInv
  <2> QED
    BY <2>1, <2>2, <2>3 DEF IInv, HeldInv
<1> QED
  BY <1>1, InvariantHolds, PTL

\* A leader that chose to end while the Lease named it is not named once it ended,
\* whichever of its writes lands late (end, clearIfHeld).
THEOREM AStepDownFreesTheLease == Spec => []StepDownFrees
<1>1. IInv => StepDownFrees
  BY DEF IInv, FreeInv, StepDownFrees
<1> QED
  BY <1>1, InvariantHolds, PTL

\* A process that chose to end, and was not killed, leaves no Lease of its pod that ran
\* out: a conflict of its clear is somebody else's write (clearIfHeld).
THEOREM AStopLeavesNoneBehind == Spec => StopLeavesNoneBehind
<1>1. TypeOK /\ IInv /\ [Next]_vars =>
        [\A p \in stepping :
            phase[p] # "ended" /\ p \in stepping' /\ phase'[p] = "ended" =>
                \/ lease.holder = Nobody
                \/ Pod[lease.holder] # Pod[p]
                \/ now < lease.renew + Duration]_vars
  <2> SUFFICES ASSUME TypeOK, IInv, [Next]_vars, NEW p \in stepping,
                      phase[p] # "ended", p \in stepping', phase'[p] = "ended"
               PROVE  \/ lease.holder = Nobody
                      \/ Pod[lease.holder] # Pod[p]
                      \/ now < lease.renew + Duration
    OBVIOUS
  <2>1. p \in Procs /\ lease.holder \in Procs \cup {Nobody}
    BY DEF TypeOK, Lease
  <2>2. Cleared(p)
    BY <2>1, PhaseFrame DEF IInv
  <2>3. Podmate(p, lease.holder) => now < lease.renew + Duration
    BY <2>1, <2>2, ClearEnds DEF IInv
  <2> QED
    BY <2>1, <2>3 DEF Podmate
<1> QED
  BY <1>1, InvariantHolds, PTL DEF Spec, StopLeavesNoneBehind

\* The processes that the guard lets write, until a leader frees the Lease of another.
Writers == IF freed THEN {} ELSE {p \in Procs : MayWrite(p)}

\* Only the answer of a take or a renewal opens the guard, and at that time the Lease
\* names the process.
LEMMA GuardStep ==
    ASSUME TypeOK, IInv, [Next]_vars, ~freed, NEW p \in Procs, MayWrite(p)', ~MayWrite(p)
    PROVE  lease.holder = p /\ lease' = lease
<1>1. phase'[p] = "leading" /\ p \notin stepping' /\ now' < renewed'[p] + RenewDeadline /\ p \in started'
  BY NextState DEF WriterInv
<1>2. now <= now' /\ now \in Nat /\ now' \in Nat
  BY LeaseGrows, Numbers DEF IInv
<1>3. Accepted(p)
  <2> SUFFICES ASSUME ~Accepted(p) PROVE FALSE
    OBVIOUS
  <2>1. phase[p] = "leading" /\ p \notin stepping /\ p \in started /\ renewed'[p] = renewed[p]
    BY <1>1, OthersFrame, PhaseFrame DEF IInv, Same, Act, Handle, Start, Look, Rejected, Renew, GiveUp, end, Release,
       OnStoppedLeading, clearIfHeld, Cleared, Die, AllowWrite, EndWrite, elector, stops, TypeOK
  <2>2. now - renewed[p] < RenewDeadline
    BY <1>1, <1>2, <2>1, Numbers DEF RenewDeadline
  <2> QED
    BY <2>1, <2>2 DEF MayWrite, Alive
<1>4. renewed'[p] = sent[p].at /\ now' = now /\ lease' = lease /\ sent[p].answer = "ok"
      /\ phase[p] \in {"waiting", "leading"}
  BY <1>3 DEF Accepted, mark, TypeOK
<1>5. now < sent[p].at + Duration
  BY <1>1, <1>4, Numbers DEF RenewDeadline, Duration
<1> QED
  BY <1>4, <1>5 DEF IInv, HeldInv

\* The processes that may write take turns, and never hand over directly: the election
\* implements the single actor, whoever is paused and for however long, until a leader
\* that was overtaken in a pause frees the Lease of its successor.
THEOREM OneWriterAtATime == Spec => OneActorAtATime
<1>1. Init => Writers = {}
  BY DEF Init, Writers, MayWrite
<1>2. TypeOK /\ IInv /\ [Next]_vars => [Actor!Next]_Writers
  <2> SUFFICES ASSUME TypeOK, IInv, [Next]_vars, Writers' # Writers PROVE Actor!Next
    OBVIOUS
  <2>1. \A p \in Writers : lease.holder = p
    BY WriterHolds DEF Writers, WriterInv
  <2>2. \A p \in Writers' : lease'.holder = p
    BY NextState DEF Writers, WriterInv
  <2>5. ~freed
    BY FreedFrame DEF Writers
  <2>3. CASE \E p \in Writers' : p \notin Writers
    <3>1. PICK p \in Writers' : p \notin Writers
      BY <2>3
    <3>2. p \in Procs /\ lease.holder = p /\ lease' = lease
      BY <2>5, <3>1, GuardStep DEF Writers
    <3>3. Writers = {} /\ Writers' = {p}
      BY <2>1, <2>2, <3>1, <3>2
    <3> QED
      BY <3>2, <3>3 DEF Actor!Next, Actor!Take, Writers
  <2>4. CASE Writers' \subseteq Writers
    <3>1. Writers # {} /\ Writers' = {}
      BY <2>1, <2>4
    <3> QED
      BY <3>1 DEF Actor!Next, Actor!Leave, Writers
  <2> QED
    BY <2>3, <2>4
<1>3. Writers = {} => Actor!Init
  BY DEF Actor!Init, Writers
<1> QED
  BY <1>1, <1>2, <1>3, InvariantHolds, PTL DEF Spec, OneActorAtATime, Actor!Spec, Writers
=============================================================================
