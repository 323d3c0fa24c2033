--------------------------- MODULE ProvingProofs ---------------------------
(***************************************************************************)
(* Theorems about Proving.  A reset lands where the firmware's variables   *)
(* say, so each step of init and of the operator is followed with what it  *)
(* has still to write.                                                     *)
(***************************************************************************)
EXTENDS Proving, SequenceTheorems, TLAPS

\* The writes of a boot: the proven slot leads BootOrder, and BootNext aims at it.
Lead == <<"order", store.proven.slot>>
Aim == <<"next", store.proven.slot>>

\* The writes of a trial: the marker, and the one-shot.
Mark == <<"attempted", store.staged>>
Arm == <<"next", store.staged.slot>>

Unmark == <<"attempted", None>>
Unstage == <<"staged", None>>
Unnote == <<"note", None>>

Marked == store.staged # None /\ store.attempted = store.staged
Away == power \in {"off", "on"}
IsTorn(s) == disk[s].files = Torn

\* What the power takes away.
PowerInv ==
    /\ power # "up" => todo = <<>> /\ pass = "settle" /\ fetch = NoFetch
    /\ Away => plan = <<>> /\ trial = None /\ ~sees /\ synced = store
    /\ Away \/ power = "settling" => dirty = "clean" /\ ~sees
    /\ power = "on" => fw.next = None /\ (forgets # None => fw.order = forgets)

\* The trial of this boot, the watch, and the staged record of this slot.
TrialInv == ~Away =>
    /\ trial # None => tries /\ trial.slot = running
    /\ store.staged # None /\ store.staged.slot = running
        => tries /\ trial = store.staged /\ synced.staged = store.staged
    /\ sees => /\ trial # None /\ store.proven = trial
               /\ store.staged # None => store.staged.slot # running

\* What the operator has still to write.
Unmarks == todo \in {<<Unnote, Unmark, Sync>>, <<Unmark, Sync>>, <<Unmark, Sync, Unnote, Sync>>}
Unstages == todo \in {<<Unstage, Unmark, Sync>>, <<Unstage, Unmark, Sync, Unnote, Sync>>}
Promotes ==
    /\ todo = <<<<"promote", store.staged>>, Unnote, Unmark, Sync>>
    /\ store.staged # None /\ store.staged.slot = running
ProvesFirst(r) ==
    /\ todo = <<<<"proven", r>>, Sync>>
    /\ r.slot = running /\ store.proven = None
Stages(r) ==
    /\ todo = <<<<"staged", r>>, Sync>>
    /\ r.slot = Other(running) /\ store.staged = None /\ store.proven # None /\ fetch.ask # None

TodoInv ==
    /\ \/ todo \in {<<>>, <<Sync>>, <<Sync, Unnote, Sync>>, <<Unnote, Sync>>}
       \/ Unmarks /\ store.staged = None
       \/ Unstages /\ store.staged # None
       \/ Promotes /\ ~IsTorn(running)
       \/ \E r \in Record : (ProvesFirst(r) \/ Stages(r)) /\ ~IsTorn(running)
    /\ pass = "converge" /\ store.proven = None => \E r \in Record : ProvesFirst(r)
    /\ fetch.busy # None => fetch.busy.slot = Other(running) /\ fetch.ask # None

\* The documents, as they read and as a power cut leaves them.
DocInv ==
    /\ \A d \in {store, synced} : d.staged # None => d.proven # None
    /\ store.proven = None => synced.proven = None
    /\ store.proven # synced.proven =>
        /\ ~Away /\ power # "settling"
        /\ store.proven.slot = running /\ served = store.proven
        /\ synced.proven # None => synced.staged = store.proven

\* What init has still to write.
Rejects ==
    plan \in {<<<<"note", store.staged>>, Sync, Unstage, Unmark, Sync, Lead, Aim>>,
              <<Sync, Unstage, Unmark, Sync, Lead, Aim>>, <<Unstage, Unmark, Sync, Lead, Aim>>}
Heals == plan = <<Lead, Aim>> \/ (plan = <<Aim>> /\ fw.order = store.proven.slot)

SettlingPlan ==
    \/ tries /\ trial # None /\ plan = <<>>
    \/ ~tries /\ store.proven = None /\ plan = <<>>
    \/ /\ ~tries /\ store.proven # None
       /\ \/ Rejects /\ store.staged # None
          \/ plan \in {<<Unmark, Sync, Lead, Aim>>, <<Sync, Lead, Aim>>} /\ store.staged = None
          \/ Heals
          \/ plan = <<>> /\ fw = [next |-> store.proven.slot, order |-> store.proven.slot]

UpPlan ==
    \/ plan = <<>>
    \/ tries /\ trial = None /\ store.proven # None /\ store.proven.slot = running /\ Heals

\* A trial that may be armed, and one that is.
Armable ==
    /\ store.staged # None /\ store.staged.slot # running
    /\ store.staged.slot # store.proven.slot /\ ~IsTorn(store.staged.slot)
Aimed == fw.next = store.proven.slot \/ (Armable /\ Marked /\ fw.next = store.staged.slot)

Arms ==
    \/ plan = <<Lead, Aim, Mark, Sync, Arm>>
    \/ plan = <<Aim, Mark, Sync, Arm>> /\ fw.order = store.proven.slot
    \/ plan = <<Mark, Sync, Arm>> 
    \/ plan = <<Sync, Arm>> /\ Marked
    \/ plan = <<Arm>> /\ Marked /\ synced = store

TurnedPlan ==
    IF handed # "no" THEN plan \in {<<Lead>>, <<>>}
    ELSE IF store.proven = None THEN plan \in {<<<<"next", None>>>>, <<>>}
    ELSE Heals \/ (plan = <<>> /\ Aimed) \/ (Arms /\ Armable)

PlanInv ==
    /\ power = "settling" => SettlingPlan
    /\ power \in {"up", "stopping"} => UpPlan
    /\ power = "turned" => TurnedPlan
    /\ power = "off" /\ ended = "reboot" /\ handed = "no" /\ store.proven # None => Aimed

\* A machine without a proven release has only ever run the installed slot.
FirstInv == forgets = None /\ None \in {store.proven, synced.proven} =>
    /\ fw.order = "A" /\ fw.next # "B" /\ running = "A" /\ disk["A"].files = Installed
    /\ store.proven # None => store.proven.slot = "A"

\* The handover of BootNext.
HandInv ==
    /\ power \in {"settling", "up", "stopping"} /\ ~tries /\ kept = "kept"
        => store.proven # None /\ (forgets # None => forgets = store.proven.slot)
    /\ power \in {"turned", "off"} /\ handed # "no" =>
        /\ store.proven # None /\ fw.next # Other(store.proven.slot)
        /\ handed = "settled" /\ forgets # None => forgets = store.proven.slot
        /\ plan = <<>> /\ forgets = None => fw.order = store.proven.slot
    /\ power = "on" /\ handed = "settled" => store.proven # None

\* The boot lands where the reboot aimed.
LandInv == RebootsLandOnProven /\ UpdaterComesBack

\* What leads BootOrder.
Strays(d) == d.staged # None /\ d.proven # None /\ d.staged.slot = d.proven.slot /\ fw.order # d.staged.slot
OrderInv == forgets = None =>
    /\ \A d \in {store, synced} : Strays(d) =>
        fw.next # d.staged.slot /\ ~IsTorn(fw.order) /\ (power # "off" => running = fw.order)
    /\ power \in {"settling", "up"} /\ tries => fw.next # Other(running)
    /\ power = "up" /\ ~tries /\ store.proven # None
        => fw.order = store.proven.slot /\ fw.next # Other(store.proven.slot)
    /\ power = "up" /\ tries /\ trial = None /\ plan = <<>> /\ store.proven # None /\ store.proven.slot = running
        => fw.order = running
    /\ power \in {"settling", "up"} /\ trial \notin {None, store.proven} /\ store.proven # None
            /\ store.proven.slot = running
        => fw.order = running

\* Who wrote the attempt marker.
MarkInv ==
    /\ store.staged = None /\ store.attempted # None =>
        \/ stale
        \/ power = "settling" /\ plan = <<Unmark, Sync, Lead, Aim>>
        \/ power = "up" /\ Unmarks
    /\ Marked =>
        \/ trials > 0 \/ stale
        \/ Away /\ ended = "cut"
        \/ power = "settling" /\ Rejects
        \/ power = "turned" /\ handed = "no" /\ store.proven # None /\ plan \in {<<Sync, Arm>>, <<Arm>>} /\ Armable
        \/ /\ power = "off" \/ (power = "turned" /\ handed = "no" /\ plan = <<>>)
           /\ fw.next = store.staged.slot /\ ~IsTorn(store.staged.slot)
        \/ power = "on" /\ running = store.staged.slot

\* As long as no download takes a slot that a power cut may boot, the staged record
\* is tried by the one-shot alone.
Unproven(d) == d.staged # None /\ served # d.staged
OnceInv == ~exposed /\ forgets = None =>
    /\ \A d \in {store, synced} :
        /\ d.staged # None => d.staged.slot # d.proven.slot
        /\ d.proven # None => ~IsTorn(d.proven.slot)
        /\ Unproven(d) => fw.order # d.staged.slot
        /\ Unproven(d) /\ fw.next = d.staged.slot => d.attempted = d.staged /\ trials = 0
    /\ fetch.ask # None \/ dirty # "clean" =>
        /\ fw.order = running /\ store.proven # None /\ store.proven.slot = running
        /\ synced.proven # None => synced.proven.slot = running
    /\ trials > 0 => store.staged # None /\ synced.staged = store.staged
    /\ trials > 0 /\ served # store.staged =>
        /\ trials = 1
        /\ store.attempted = store.staged /\ synced.attempted = store.staged
        /\ ~Away => store.staged.slot = running \/ (power = "settling" /\ Rejects)
    /\ power = "on" /\ Proves /\ Unproven(store) => Marked /\ trials = 0

IInv == /\ PowerInv /\ TrialInv /\ TodoInv /\ DocInv /\ PlanInv /\ FirstInv
        /\ HandInv /\ LandInv /\ OrderInv /\ MarkInv /\ OnceInv

-----------------------------------------------------------------------------
\* Sequences of writes.

\* The other slot is the other one of two.
LEMMA OtherFacts ==
    /\ \A s \in Slots : Other(s) \in Slots /\ Other(s) # s /\ \A t \in Slots : t = s \/ t = Other(s)
    /\ Other("A") = "B" /\ Other("B") = "A"
<1>1. \A s \in Slots : \E t \in Slots : t # s
  BY DEF Slots
<1> QED
  BY <1>1 DEF Other, Slots

\* What a concatenation of the writes of one operation with those of the next is.
LEMMA Joined ==
    /\ \A a, b, c : <<a, b>> \o <<c>> = <<a, b, c>>
    /\ \A a, b, c, d, e : <<a, b>> \o <<c, d, e>> = <<a, b, c, d, e>>
    /\ \A a, b, c, d, e : <<a, b, c>> \o <<d, e>> = <<a, b, c, d, e>>
    /\ \A a, b, c, d, e, f, g : <<a, b, c, d, e>> \o <<f, g>> = <<a, b, c, d, e, f, g>>
<1>1. ASSUME NEW a, NEW b, NEW c
      PROVE  <<a, b>> \o <<c>> = <<a, b, c>>
  <2> DEFINE S == {a, b, c}
  <2>1. <<a, b>> \in Seq(S) /\ <<c>> \in Seq(S) /\ <<a, b, c>> \in Seq(S)
    OBVIOUS
  <2>2. <<a, b>> \o <<c>> \in Seq(S)
    BY <2>1, ConcatProperties
  <2>3. /\ Len(<<a, b>> \o <<c>>) = 3
        /\ \A i \in 1 .. 3 : (<<a, b>> \o <<c>>)[i] = <<a, b, c>>[i]
    OBVIOUS
  <2> QED
    BY <2>1, <2>2, <2>3, SeqEqual
<1>2. ASSUME NEW a, NEW b, NEW c, NEW d, NEW e
      PROVE  <<a, b>> \o <<c, d, e>> = <<a, b, c, d, e>>
  <2> DEFINE S == {a, b, c, d, e}
  <2>1. <<a, b>> \in Seq(S) /\ <<c, d, e>> \in Seq(S) /\ <<a, b, c, d, e>> \in Seq(S)
    OBVIOUS
  <2>2. <<a, b>> \o <<c, d, e>> \in Seq(S)
    BY <2>1, ConcatProperties
  <2>3. /\ Len(<<a, b>> \o <<c, d, e>>) = 5
        /\ \A i \in 1 .. 5 : (<<a, b>> \o <<c, d, e>>)[i] = <<a, b, c, d, e>>[i]
    OBVIOUS
  <2> QED
    BY <2>1, <2>2, <2>3, SeqEqual
<1>3. ASSUME NEW a, NEW b, NEW c, NEW d, NEW e
      PROVE  <<a, b, c>> \o <<d, e>> = <<a, b, c, d, e>>
  <2> DEFINE S == {a, b, c, d, e}
  <2>1. <<a, b, c>> \in Seq(S) /\ <<d, e>> \in Seq(S) /\ <<a, b, c, d, e>> \in Seq(S)
    OBVIOUS
  <2>2. <<a, b, c>> \o <<d, e>> \in Seq(S)
    BY <2>1, ConcatProperties
  <2>3. /\ Len(<<a, b, c>> \o <<d, e>>) = 5
        /\ \A i \in 1 .. 5 : (<<a, b, c>> \o <<d, e>>)[i] = <<a, b, c, d, e>>[i]
    OBVIOUS
  <2> QED
    BY <2>1, <2>2, <2>3, SeqEqual
<1>4. ASSUME NEW a, NEW b, NEW c, NEW d, NEW e, NEW f, NEW g
      PROVE  <<a, b, c, d, e>> \o <<f, g>> = <<a, b, c, d, e, f, g>>
  <2> DEFINE S == {a, b, c, d, e, f, g}
  <2>1. <<a, b, c, d, e>> \in Seq(S) /\ <<f, g>> \in Seq(S) /\ <<a, b, c, d, e, f, g>> \in Seq(S)
    OBVIOUS
  <2>2. <<a, b, c, d, e>> \o <<f, g>> \in Seq(S)
    BY <2>1, ConcatProperties
  <2>3. /\ Len(<<a, b, c, d, e>> \o <<f, g>>) = 7
        /\ \A i \in 1 .. 7 : (<<a, b, c, d, e>> \o <<f, g>>)[i] = <<a, b, c, d, e, f, g>>[i]
    OBVIOUS
  <2> QED
    BY <2>1, <2>2, <2>3, SeqEqual
<1> QED
  BY <1>1, <1>2, <1>3, <1>4

\* Sequences of one to five members of a set.
LEMMA Listed ==
    ASSUME NEW W, NEW a \in W, NEW b \in W, NEW c \in W, NEW d \in W, NEW e \in W
    PROVE  /\ <<a>> \in Seq(W) /\ <<a, b>> \in Seq(W) /\ <<a, b, c>> \in Seq(W)
           /\ <<a, b, c, d>> \in Seq(W) /\ <<a, b, c, d, e>> \in Seq(W)
  OBVIOUS

\* A concatenation with nothing.
LEMMA JoinedEmpty ==
    ASSUME NEW s \in Seq(Writes)
    PROVE  s \o <<>> = s /\ <<>> \o s = s
  BY ConcatEmptySeq

\* The operations, write by write.
LEMMA Operations ==
    ASSUME TypeOK
    PROVE  /\ assertProvenSlot = IF store.proven = None THEN <<>> ELSE <<Lead, Aim>>
           /\ armProvingBoot = IF MayArm THEN <<Mark, Sync, Arm>> ELSE <<>>
           /\ Reject = <<<<"note", store.staged>>, Sync, Unstage, Unmark, Sync>>
           /\ Promote = <<<<"promote", store.staged>>, Unnote, Unmark, Sync>>
           /\ WithdrawStaged = IF store.staged = None THEN <<>> ELSE <<Unstage, Unmark, Sync>>
           /\ ClearRejection = IF store.note = None THEN <<>> ELSE <<Unnote, Sync>>
<1>1. WriteAttempted(store.staged) \o <<Arm>> = <<Mark, Sync, Arm>>
  BY Joined DEF WriteAttempted, Mark
<1>2. armProvingBoot = IF MayArm THEN <<Mark, Sync, Arm>> ELSE <<>>
  BY <1>1 DEF armProvingBoot, Arm
<1> QED
  BY <1>2 DEF assertProvenSlot, healBootEntries, Lead, Aim, Reject, Promote, WithdrawStaged, ClearRejection,
     Unstage, Unmark, Unnote

\* What each kind of write changes.
LEMMA FirmwareWrites ==
    ASSUME TypeOK, NEW s
    PROVE  /\ Write(<<"order", s>>) =>
                UNCHANGED <<documents, history>> /\ fw'.order = s /\ fw'.next = fw.next
           /\ Write(<<"next", s>>) =>
                UNCHANGED <<documents, history>> /\ fw'.next = s /\ fw'.order = fw.order
<1>1. DOMAIN fw = {"next", "order"} /\ DOMAIN store = {"staged", "proven", "attempted", "note"}
  BY DEF TypeOK, Documents
<1>2. /\ [fw EXCEPT !["order"] = s].order = s /\ [fw EXCEPT !["order"] = s].next = fw.next
      /\ [fw EXCEPT !["next"] = s].next = s /\ [fw EXCEPT !["next"] = s].order = fw.order
  BY DEF TypeOK
<1>3. \A w \in {"order", "next"} : Write(<<w, s>>) => UNCHANGED <<documents, history>> /\ fw' = [fw EXCEPT ![w] = s]
  BY <1>1 DEF Write, Sync, documents, history, TypeOK
<1> QED
  BY <1>2, <1>3

\* A sync leaves the documents as they read, and makes them what a power cut leaves.
LEMMA SyncWrites ==
    ASSUME TypeOK, Write(Sync)
    PROVE  UNCHANGED <<store, fw, history>> /\ synced' = store
<1>1. DOMAIN fw = {"next", "order"} /\ DOMAIN store = {"staged", "proven", "attempted", "note"}
  BY DEF TypeOK, Documents
<1> QED
  BY <1>1 DEF Write, Sync, history, TypeOK

\* A document's write leaves the firmware and what is on the disk for sure.
Keeps(fields) == \A f \in {"staged", "proven", "attempted", "note"} \ fields : store'[f] = store[f]

\* A document's write changes one document, and neither the firmware nor what is on the disk
\* for sure.
LEMMA DocumentWrites ==
    ASSUME TypeOK, NEW r,
           NEW w \in {"staged", "proven", "attempted", "note"}, Write(<<w, r>>)
    PROVE  /\ UNCHANGED <<synced, fw, ended, handed, tries, exposed>>
           /\ store'[w] = r /\ Keeps({w})
           /\ w # "proven" => served' = served
           /\ w # "staged" => trials' = trials
           /\ w # "attempted" => stale' = stale
<1>1. DOMAIN fw = {"next", "order"} /\ DOMAIN store = {"staged", "proven", "attempted", "note"}
  BY DEF TypeOK, Documents
<1>2. store' = [store EXCEPT ![w] = r]
  BY <1>1 DEF Write
<1>3. store'[w] = r /\ Keeps({w})
  BY <1>1, <1>2 DEF Keeps
<1>4. UNCHANGED <<synced, fw, ended, handed, tries, exposed>>
  BY <1>1 DEF Write, Sync
<1>5. w # "proven" => served' = served
  BY <1>3 DEF Write, Keeps
<1>6. w # "staged" => trials' = trials
  BY <1>3 DEF Write, Keeps
<1>7. w # "attempted" => stale' = stale
  BY DEF Write, TypeOK
<1> QED
  BY <1>3, <1>4, <1>5, <1>6, <1>7

\* A write of the staged record starts the count of its boots again.
LEMMA StagedWrites ==
    ASSUME TypeOK, NEW r, Write(<<"staged", r>>)
    PROVE  /\ UNCHANGED <<synced, fw, ended, handed, tries, exposed, served, stale>>
           /\ store'.staged = r
           /\ store'.proven = store.proven /\ store'.attempted = store.attempted /\ store'.note = store.note
           /\ trials' = IF r = store.staged THEN trials ELSE 0
  BY DocumentWrites DEF Keeps, Write

\* A write of the proven record is what served last.
LEMMA ProvenWrites ==
    ASSUME TypeOK, NEW r, Write(<<"proven", r>>)
    PROVE  /\ UNCHANGED <<synced, fw, ended, handed, tries, exposed, trials, stale>>
           /\ store'.proven = r
           /\ store'.staged = store.staged /\ store'.attempted = store.attempted /\ store'.note = store.note
           /\ served' = IF r = store.proven THEN served ELSE r
  BY DocumentWrites DEF Keeps, Write

\* A write of the attempt marker ends the life of an old one.
LEMMA AttemptedWrites ==
    ASSUME TypeOK, NEW r, Write(<<"attempted", r>>)
    PROVE  /\ UNCHANGED <<synced, fw, ended, handed, tries, exposed, trials, served>>
           /\ store'.attempted = r /\ ~stale'
           /\ store'.staged = store.staged /\ store'.proven = store.proven /\ store'.note = store.note
  BY DocumentWrites DEF Keeps, Write

\* A write of the rejection's note changes nothing that the firmware or a boot reads.
LEMMA NoteWrites ==
    ASSUME TypeOK, NEW r, Write(<<"note", r>>)
    PROVE  /\ UNCHANGED <<synced, fw, history>>
           /\ store'.note = r
           /\ store'.staged = store.staged /\ store'.proven = store.proven /\ store'.attempted = store.attempted
  BY DocumentWrites DEF Keeps, history

\* A promotion renames the staged record onto the proven one.
LEMMA PromoteWrites ==
    ASSUME TypeOK, NEW r, Write(<<"promote", r>>)
    PROVE  /\ UNCHANGED <<synced, fw, ended, handed, tries, exposed, stale>>
           /\ store'.staged = None /\ store'.proven = r
           /\ store'.attempted = store.attempted /\ store'.note = store.note
           /\ trials' = IF store.staged = None THEN trials ELSE 0
           /\ served' = IF r = store.proven THEN served ELSE r
<1>1. DOMAIN fw = {"next", "order"}
  BY DEF TypeOK
<1>2. store' = [store EXCEPT !.staged = None, !.proven = r]
  BY DEF Write
<1>3. /\ store'.staged = None /\ store'.proven = r
      /\ store'.attempted = store.attempted /\ store'.note = store.note
  BY <1>2 DEF TypeOK, Documents
<1>4. UNCHANGED <<synced, fw, ended, handed, tries, exposed, stale>>
  BY <1>1 DEF Write, Sync, TypeOK
<1> QED
  BY <1>3, <1>4 DEF Write

-----------------------------------------------------------------------------
\* Types.

\* A write of the right kind keeps the types.
LEMMA WriteTypes ==
    ASSUME TypeOK, NEW op \in Writes, Write(op)
    PROVE  /\ store' \in Documents /\ synced' \in Documents /\ fw' \in [next : Entries, order : Slots]
           /\ trials' \in 0 .. 2 /\ served' \in MaybeRecord /\ {sees, keep, tries', exposed', stale'} \subseteq BOOLEAN
           /\ ended' = ended /\ handed' = handed
<1>1. store' \in Documents
  <2>1. CASE op[1] = "promote"
    <3>1. op[2] \in Record
      BY <2>1 DEF Writes, Sync
    <3>2. store' = [store EXCEPT !.staged = None, !.proven = op[2]]
      BY <2>1 DEF Write
    <3> QED
      BY <3>1, <3>2 DEF TypeOK, Documents, MaybeRecord
  <2>2. CASE op[1] # "promote" /\ op[1] \in DOMAIN store
    <3>1. op[1] \in {"staged", "proven", "attempted", "note"} /\ op[2] \in MaybeRecord
      BY <2>2 DEF TypeOK, Documents, Writes, Sync
    <3>2. store' = [store EXCEPT ![op[1]] = op[2]]
      BY <2>2 DEF Write
    <3> QED
      BY <3>1, <3>2 DEF TypeOK, Documents
  <2>3. CASE op[1] # "promote" /\ op[1] \notin DOMAIN store
    BY <2>3 DEF TypeOK, Write
  <2> QED
    BY <2>1, <2>2, <2>3
<1>2. fw' \in [next : Entries, order : Slots]
  <2>1. CASE op[1] \in DOMAIN fw
    <3>1. fw' = [fw EXCEPT ![op[1]] = op[2]]
      BY <2>1 DEF Write
    <3>2. CASE op[1] = "next"
      <4>1. op[2] \in Entries
        BY <3>2 DEF Writes, Sync
      <4> QED
        BY <3>1, <3>2, <4>1 DEF TypeOK
    <3>3. CASE op[1] = "order"
      <4>1. op[2] \in Slots
        BY <3>3 DEF Writes, Sync
      <4> QED
        BY <3>1, <3>3, <4>1 DEF TypeOK
    <3> QED
      BY <2>1, <3>2, <3>3 DEF TypeOK
  <2>2. CASE op[1] \notin DOMAIN fw
    BY <2>2 DEF TypeOK, Write
  <2> QED
    BY <2>1, <2>2
<1>3. synced' \in Documents /\ trials' \in 0 .. 2
  BY DEF Write, TypeOK
<1>4. served' \in MaybeRecord
  BY <1>1 DEF Write, TypeOK, Documents
<1> QED
  BY <1>1, <1>2, <1>3, <1>4 DEF Write, TypeOK

\* A slot's files change, and nothing else of the disk.
LEMMA FilesChange ==
    ASSUME TypeOK, NEW s \in Slots, NEW f \in Releases \cup {Torn}, disk' = [disk EXCEPT ![s].files = f]
    PROVE  /\ disk' \in [Slots -> [files : Releases \cup {Torn}, doc : Releases \cup {None}]]
           /\ disk'[s].files = f /\ \A t \in Slots : t # s => disk'[t] = disk[t]
<1>1. disk \in [Slots -> [files : Releases \cup {Torn}, doc : Releases \cup {None}]]
  BY DEF TypeOK
<1>2. disk'[s] = [disk[s] EXCEPT !.files = f] /\ \A t \in Slots : t # s => disk'[t] = disk[t]
  BY <1>1
<1>3. disk'[s] \in [files : Releases \cup {Torn}, doc : Releases \cup {None}] /\ disk'[s].files = f
  BY <1>1, <1>2
<1> QED
  BY <1>1, <1>2, <1>3

\* The operations are sequences of writes.
LEMMA OperationTypes ==
    ASSUME TypeOK
    PROVE  /\ assertProvenSlot \in Seq(Writes) /\ armProvingBoot \in Seq(Writes)
           /\ store.staged # None => Reject \in Seq(Writes) /\ Promote \in Seq(Writes)
           /\ WithdrawStaged \in Seq(Writes) /\ ClearRejection \in Seq(Writes)
           /\ \A r \in Record : WriteProven(r) \in Seq(Writes) /\ WriteStaged(r) \in Seq(Writes)
           /\ <<<<"next", None>>>> \in Seq(Writes)
           /\ store.proven # None => healBootEntries(store.proven.slot, FALSE) \in Seq(Writes)
<1>1. \A r \in Record : r.slot \in Slots
  BY DEF Record
<1>2. store.staged \in MaybeRecord /\ store.proven \in MaybeRecord
  BY DEF TypeOK, Documents
<1>3. Sync \in Writes /\ Unstage \in Writes /\ Unmark \in Writes /\ Unnote \in Writes /\ <<"next", None>> \in Writes
  BY DEF Writes, MaybeRecord, Entries, Unstage, Unmark, Unnote
<1>4. \A r \in Record : <<"note", r>> \in Writes /\ <<"promote", r>> \in Writes /\ <<"attempted", r>> \in Writes
  BY DEF Writes, MaybeRecord
<1>5. \A r \in Record : <<"staged", r>> \in Writes /\ <<"proven", r>> \in Writes
  BY DEF Writes, MaybeRecord
<1>6. \A t \in Slots : <<"order", t>> \in Writes /\ <<"next", t>> \in Writes
  BY DEF Writes, Entries
<1>7. store.proven # None => Lead \in Writes /\ Aim \in Writes
  BY <1>1, <1>2, <1>6 DEF Lead, Aim, MaybeRecord
<1>8. store.staged # None => Mark \in Writes /\ Arm \in Writes
  BY <1>1, <1>2, <1>4, <1>6 DEF Mark, Arm, MaybeRecord
<1>9. store.staged # None => <<"note", store.staged>> \in Writes /\ <<"promote", store.staged>> \in Writes
  BY <1>2, <1>4 DEF MaybeRecord
<1>10. assertProvenSlot \in Seq(Writes)
  <2>1. store.proven # None => <<Lead, Aim>> \in Seq(Writes)
    BY <1>7, Listed
  <2> QED
    BY <2>1, Operations, EmptySeq
<1>11. armProvingBoot \in Seq(Writes)
  <2>1. store.staged # None => <<Mark, Sync, Arm>> \in Seq(Writes)
    BY <1>3, <1>8, Listed
  <2> QED
    BY <2>1, Operations, EmptySeq DEF MayArm
<1>12. store.staged # None => Reject \in Seq(Writes) /\ Promote \in Seq(Writes)
  <2>1. store.staged # None => /\ <<<<"note", store.staged>>, Sync, Unstage, Unmark, Sync>> \in Seq(Writes)
                               /\ <<<<"promote", store.staged>>, Unnote, Unmark, Sync>> \in Seq(Writes)
    BY <1>3, <1>9, Listed
  <2> QED
    BY <2>1, Operations
<1>13. WithdrawStaged \in Seq(Writes) /\ ClearRejection \in Seq(Writes)
  <2>1. <<Unstage, Unmark, Sync>> \in Seq(Writes) /\ <<Unnote, Sync>> \in Seq(Writes)
    BY <1>3, Listed
  <2> QED
    BY <2>1, Operations, EmptySeq
<1>14. \A r \in Record : WriteProven(r) \in Seq(Writes) /\ WriteStaged(r) \in Seq(Writes)
  BY <1>3, <1>5, Listed DEF WriteProven, WriteStaged
<1>15. store.proven # None => healBootEntries(store.proven.slot, FALSE) \in Seq(Writes)
  BY <1>7, Listed DEF healBootEntries, Lead
<1>16. <<<<"next", None>>>> \in Seq(Writes)
  BY <1>3, Listed
<1> QED
  BY <1>10, <1>11, <1>12, <1>13, <1>14, <1>15, <1>16

\* Every step of the machine keeps the types.
LEMMA TypeStep == TypeOK /\ [Next]_vars => TypeOK'
<1> SUFFICES ASSUME TypeOK, [Next]_vars PROVE TypeOK'
  OBVIOUS
<1> USE ReleasesAssumption DEF documents, world, init, operator, history, pastWrites
<1>1. CASE InitWrites
  <2>1. Head(plan) \in Writes /\ Tail(plan) \in Seq(Writes)
    BY <1>1, HeadTailProperties DEF InitWrites, TypeOK
  <2> QED
    BY <1>1, <2>1, WriteTypes DEF InitWrites, TypeOK
<1>2. CASE OperatorWrites
  <2>1. Head(todo) \in Writes /\ Tail(todo) \in Seq(Writes)
    BY <1>2, HeadTailProperties DEF OperatorWrites, TypeOK
  <2> QED
    BY <1>2, <2>1, WriteTypes DEF OperatorWrites, TypeOK
<1>3. CASE PowerOn
  BY <1>3 DEF PowerOn, Heads, TypeOK, Entries
<1>4. CASE RunUpdater
  BY <1>4 DEF RunUpdater, Heads, TypeOK, Entries
<1>5. CASE settleSystemRelease
  <2>1. plan' \in Seq(Writes)
    <3>1. FellBack => store.staged # None
      BY DEF FellBack
    <3> QED
      BY <1>5, <3>1, OperationTypes, EmptySeq, ConcatProperties DEF settleSystemRelease
  <2> QED
    BY <1>5, <2>1 DEF settleSystemRelease, observeBootOrder, TypeOK, Documents, MaybeRecord, Proves
<1>6. CASE StartPlane
  BY <1>6 DEF StartPlane, TypeOK
<1>7. CASE SettleLifecycle
  <2>1. Version \in Releases
    BY <1>7 DEF SettleLifecycle, Serving
  <2>2. [rel |-> Version, slot |-> running] \in Record
    BY <2>1 DEF Record, TypeOK
  <2>3. todo' \in Seq(Writes)
    BY <1>7, <2>2, OperationTypes, EmptySeq DEF SettleLifecycle
  <2> QED
    BY <1>7, <2>3 DEF SettleLifecycle, TypeOK
<1>8. CASE Converged
  <2>1. todo' \in Seq(Writes)
    BY <1>8, OperationTypes, ConcatProperties DEF Converged
  <2> QED
    BY <1>8, <2>1 DEF Converged, TypeOK
<1>9. CASE WithdrawOther
  <2>1. todo' \in Seq(Writes)
    BY <1>9, OperationTypes DEF WithdrawOther
  <2> QED
    BY <1>9, <2>1 DEF WithdrawOther, TypeOK
<1>10. CASE ConvergeSystemRelease
  <2>1. Asks \in Record
    BY OtherFacts DEF Asks, Record, TypeOK
  <2>2. todo' \in Seq(Writes)
    BY <1>10, <2>1, OperationTypes, EmptySeq DEF ConvergeSystemRelease
  <2>3. fetch' \in [ask : MaybeRecord, verified : BOOLEAN, busy : MaybeRecord, live : BOOLEAN,
                    step : {"doc", "files", "fill", "done"}]
    BY <1>10, <2>1 DEF ConvergeSystemRelease, TypeOK, MaybeRecord
  <2>4. exposed' \in BOOLEAN
    BY <1>10 DEF ConvergeSystemRelease, TypeOK, Exposes
  <2> QED
    BY <1>10, <2>2, <2>3, <2>4 DEF ConvergeSystemRelease, TypeOK
<1>11. CASE Download
  <2>1. fetch.busy \in MaybeRecord
    BY DEF TypeOK
  <2>2. fetch.busy # None => fetch.busy.slot \in Slots /\ fetch.busy.rel \in Releases
    BY <2>1 DEF MaybeRecord, Record
  <2>3. ASSUME NEW now, NEW next \in {"files", "fill", "done"}, FetchStep(now, next), fetch.busy # None =>
               disk' \in [Slots -> [files : Releases \cup {Torn}, doc : Releases \cup {None}]],
               dirty' \in {dirty, "files"}
        PROVE  TypeOK'
    <3>1. fetch' \in [ask : MaybeRecord, verified : BOOLEAN, busy : MaybeRecord, live : BOOLEAN,
                      step : {"doc", "files", "fill", "done"}]
      BY <2>3 DEF FetchStep, TypeOK
    <3> QED
      BY <2>3, <3>1 DEF FetchStep, TypeOK
  <2>4. CASE withdrawSlotDocument
    <3>1. fetch.busy # None => disk' \in [Slots -> [files : Releases \cup {Torn}, doc : Releases \cup {None}]]
      BY <2>2, <2>4 DEF withdrawSlotDocument, TypeOK
    <3> QED
      BY <2>3, <2>4, <3>1 DEF withdrawSlotDocument
  <2>5. CASE FetchArtifacts \/ FillSlot
    <3>1. \/ fetch.busy = None
          \/ \E f \in Releases \cup {Torn} : disk' = [disk EXCEPT ![fetch.busy.slot].files = f]
      <4>1. CASE FillSlot
        BY <2>2, <4>1 DEF FillSlot
      <4>2. CASE FetchArtifacts
        <5>1. fetch.busy = None \/ disk[fetch.busy.slot].files \in Releases \cup {Torn}
          BY <2>2 DEF TypeOK
        <5> QED
          BY <4>2, <5>1 DEF FetchArtifacts
      <4> QED
        BY <2>5, <4>1, <4>2
    <3>3. fetch.busy # None => disk' \in [Slots -> [files : Releases \cup {Torn}, doc : Releases \cup {None}]]
      BY <2>2, <3>1, FilesChange
    <3> QED
      BY <2>3, <2>5, <3>3 DEF FetchArtifacts, FillSlot
  <2>6. CASE FetchVerified
    <3>1. fetch' \in [ask : MaybeRecord, verified : BOOLEAN, busy : MaybeRecord, live : BOOLEAN,
                      step : {"doc", "files", "fill", "done"}]
      BY <2>6 DEF FetchVerified, TypeOK, MaybeRecord
    <3> QED
      BY <2>2, <2>6, <3>1 DEF FetchVerified, TypeOK
  <2> QED
    BY <1>11, <2>3, <2>4, <2>5, <2>6 DEF Download
<1>12. CASE FetchStops
  BY <1>12 DEF FetchStops, TypeOK, MaybeRecord
<1>13. ASSUME NEW left \in {store, synced}, OperatorEnds(left)
       PROVE  /\ todo' \in Seq(Writes) /\ pass' = "settle" /\ stale' \in BOOLEAN
              /\ fetch' \in [ask : MaybeRecord, verified : BOOLEAN, busy : MaybeRecord, live : BOOLEAN,
                             step : {"doc", "files", "fill", "done"}]
  BY <1>13, EmptySeq DEF OperatorEnds, NoFetch, MaybeRecord, TypeOK
<1>14. CASE RestartOperator
  BY <1>13, <1>14 DEF RestartOperator, TypeOK
<1>15. CASE WatchSettles
  <2>1. trial' \in MaybeRecord /\ sees' \in BOOLEAN
    BY <1>15 DEF WatchSettles, TypeOK, MaybeRecord
  <2> QED
    BY <1>15, <2>1 DEF WatchSettles, TypeOK
<1>16. CASE assertProvenSlotUnderLock
  <2>1. plan' \in Seq(Writes)
    BY <1>16, OperationTypes, EmptySeq DEF assertProvenSlotUnderLock
  <2>2. trial' \in MaybeRecord /\ sees' \in BOOLEAN
    BY <1>16 DEF assertProvenSlotUnderLock, MaybeRecord
  <2> QED
    BY <1>16, <2>1, <2>2 DEF assertProvenSlotUnderLock, TypeOK
<1>17. CASE WatchReboots \/ RebootForRelease \/ RebootForOther \/ RebootForUpdate
  <2>1. \E handover \in BOOLEAN : KillEverything(handover)
    BY <1>17 DEF WatchReboots, RebootForRelease, RebootForOther, RebootForUpdate
  <2> QED
    BY <1>13, <2>1 DEF KillEverything, TypeOK
<1>18. CASE StageUpdate
  BY <1>18 DEF StageUpdate, TypeOK, Entries
<1>19. CASE assertAndArmForReboot
  <2>1. plan' \in Seq(Writes)
    BY <1>19, OperationTypes, EmptySeq, ConcatProperties DEF assertAndArmForReboot, HandsOver
  <2> QED
    BY <1>19, <2>1 DEF assertAndArmForReboot, TypeOK
<1>20. ASSUME NEW how \in {"reboot", "cut"}, NEW left \in {store, synced}, Off(how, left),
              disk' \in [Slots -> [files : Releases \cup {Torn}, doc : Releases \cup {None}]],
              handed' \in {handed, "no"}, fw' = fw
       PROVE  TypeOK'
  <2>1. plan' \in Seq(Writes) /\ trial' \in MaybeRecord /\ sees' \in BOOLEAN /\ keep' \in BOOLEAN /\ kept' = "unknown"
    BY <1>20, EmptySeq DEF Off, MaybeRecord
  <2>2. store' \in Documents /\ synced' \in Documents /\ handed' \in {"no", "settled", "trial"}
    BY <1>20 DEF Off, TypeOK
  <2>3. power' = "off" /\ ended' \in {"reboot", "cut"} /\ dirty' = "clean"
    BY <1>20 DEF Off
  <2> QED
    BY <1>13, <1>20, <2>1, <2>2, <2>3 DEF Off, TypeOK
<1>21. CASE Reset
  BY <1>20, <1>21 DEF Reset, TypeOK
<1>22. CASE PowerCut
  <2>1. disk' \in [Slots -> [files : Releases \cup {Torn}, doc : Releases \cup {None}]]
    BY <1>22, OtherFacts DEF PowerCut, TypeOK
  <2> QED
    BY <1>20, <1>22, <2>1 DEF PowerCut
<1>23. CASE EditTarget
  BY <1>23 DEF EditTarget, TypeOK
<1>24. CASE UNCHANGED vars
  BY <1>24 DEF vars, TypeOK
<1> QED
  BY <1>1, <1>2, <1>3, <1>4, <1>5, <1>6, <1>7, <1>8, <1>9, <1>10, <1>11, <1>12, <1>14, <1>15, <1>16, <1>17,
     <1>18, <1>19, <1>21, <1>22, <1>23, <1>24 DEF Next, Boot, Pass, Watch, Reboot

-----------------------------------------------------------------------------
\* The parts of the invariant, each with what it reads.

\* Records and their slots.
LEMMA Kinds ==
    ASSUME TypeOK
    PROVE  /\ running \in Slots /\ Other(running) \in Slots /\ fw.order \in Slots /\ fw.next \in Entries
           /\ \A d \in {store, synced} :
                /\ d.staged \in MaybeRecord /\ d.proven \in MaybeRecord
                /\ d.staged # None => d.staged \in Record /\ d.staged.slot \in Slots
                /\ d.proven # None => d.proven \in Record /\ d.proven.slot \in Slots
           /\ \A r \in Record : r # None /\ r.slot \in Slots
           /\ None \notin Slots /\ "updater" \notin Slots /\ None # "updater" /\ None # Torn
           /\ trial # None => trial \in Record
  BY ReleasesAssumption, OtherFacts DEF TypeOK, Documents, MaybeRecord, Record, Slots

\* Each part holds on as long as what it reads stays the same.
LEMMA Frames ==
    /\ PowerInv /\ UNCHANGED <<forgets, power, todo, pass, fetch, plan, trial, sees, documents, dirty, fw>> => PowerInv'
    /\ TrialInv /\ UNCHANGED <<power, trial, tries, running, documents, sees>> => TrialInv'
    /\ TodoInv /\ UNCHANGED <<todo, store, running, disk, fetch, pass>> => TodoInv'
    /\ DocInv /\ UNCHANGED <<documents, power, running, served>> => DocInv'
    /\ PlanInv /\ UNCHANGED <<power, plan, documents, fw, tries, trial, running, disk, handed, ended>> => PlanInv'
    /\ FirstInv /\ UNCHANGED <<forgets, documents, fw, running, disk>> => FirstInv'
    /\ HandInv /\ UNCHANGED <<power, tries, kept, store, forgets, handed, fw, plan>> => HandInv'
    /\ LandInv /\ UNCHANGED <<power, ended, handed, store, disk, running>> => LandInv'
    /\ OrderInv /\ UNCHANGED <<forgets, documents, fw, disk, power, running, tries, trial, plan>> => OrderInv'
    /\ MarkInv /\ UNCHANGED <<store, stale, power, plan, todo, trials, ended, handed, fw, disk, running>> => MarkInv'
    /\ OnceInv /\ UNCHANGED <<exposed, forgets, documents, disk, served, fw, trials, fetch, dirty, power, running, plan>>
        => OnceInv'
<1> USE DEF documents
<1>1. PowerInv /\ UNCHANGED <<forgets, power, todo, pass, fetch, plan, trial, sees, documents, dirty, fw>> => PowerInv'
  BY DEF PowerInv, Away
<1>2. TrialInv /\ UNCHANGED <<power, trial, tries, running, documents, sees>> => TrialInv'
  BY DEF TrialInv, Away
<1>3. TodoInv /\ UNCHANGED <<todo, store, running, disk, fetch, pass>> => TodoInv'
  BY DEF TodoInv, Unmarks, Unstages, Promotes, ProvesFirst, Stages, IsTorn
<1>4. DocInv /\ UNCHANGED <<documents, power, running, served>> => DocInv'
  BY DEF DocInv, Away
<1>5. PlanInv /\ UNCHANGED <<power, plan, documents, fw, tries, trial, running, disk, handed, ended>> => PlanInv'
  <2> SUFFICES ASSUME UNCHANGED <<power, plan, documents, fw, tries, trial, running, disk, handed, ended>>
               PROVE  PlanInv' <=> PlanInv
    OBVIOUS
  <2>1. Armable' <=> Armable
    BY DEF Armable, IsTorn
  <2>2. Aimed' <=> Aimed
    BY <2>1 DEF Aimed, Marked
  <2>3. (Heals' <=> Heals) /\ (Rejects' <=> Rejects)
    BY DEF Heals, Rejects, Lead, Aim
  <2>4. Arms' <=> Arms
    BY DEF Arms, Lead, Aim, Mark, Arm, Marked
  <2>5. TurnedPlan' <=> TurnedPlan
    BY <2>1, <2>2, <2>3, <2>4 DEF TurnedPlan, Lead
  <2>6. (SettlingPlan' <=> SettlingPlan) /\ (UpPlan' <=> UpPlan)
    BY <2>3 DEF SettlingPlan, UpPlan, Lead, Aim
  <2> QED
    BY <2>2, <2>5, <2>6 DEF PlanInv
<1>6. FirstInv /\ UNCHANGED <<forgets, documents, fw, running, disk>> => FirstInv'
  BY DEF FirstInv
<1>7. HandInv /\ UNCHANGED <<power, tries, kept, store, forgets, handed, fw, plan>> => HandInv'
  BY DEF HandInv
<1>8. LandInv /\ UNCHANGED <<power, ended, handed, store, disk, running>> => LandInv'
  BY DEF LandInv, RebootsLandOnProven, UpdaterComesBack, Proves
<1>9. OrderInv /\ UNCHANGED <<forgets, documents, fw, disk, power, running, tries, trial, plan>> => OrderInv'
  BY DEF OrderInv, Strays, IsTorn
<1>10. MarkInv /\ UNCHANGED <<store, stale, power, plan, todo, trials, ended, handed, fw, disk, running>> => MarkInv'
  BY DEF MarkInv, Marked, Unmarks, Away, Rejects, Arm, Lead, Aim, Armable, IsTorn
<1>11. OnceInv /\ UNCHANGED <<exposed, forgets, documents, disk, served, fw, trials, fetch, dirty, power, running, plan>>
        => OnceInv'
  BY DEF OnceInv, Unproven, IsTorn, Away, Rejects, Lead, Aim, Proves, Marked
<1> QED
  BY <1>1, <1>2, <1>3, <1>4, <1>5, <1>6, <1>7, <1>8, <1>9, <1>10, <1>11

-----------------------------------------------------------------------------
\* The operator's steps.

\* The operator decides what to write: everything else stays.
LEMMA PassStep ==
    ASSUME TypeOK, IInv, SettleLifecycle \/ Converged \/ WithdrawOther
    PROVE  IInv'
<1> USE DEF IInv, documents, world, init, operator, history
<1>1. /\ UNCHANGED <<documents, fw, disk, dirty, power, running, init, fetch, world, history>>
      /\ power = "up" /\ todo = <<>>
  BY DEF SettleLifecycle, Converged, WithdrawOther, Serving
<1>2. ~IsTorn(running)
  BY ReleasesAssumption DEF SettleLifecycle, Converged, WithdrawOther, Serving, Version, IsTorn
<1>3. fetch.busy # None => fetch.busy.slot = Other(running) /\ fetch.ask # None
  BY DEF TodoInv
<1>4. TodoInv'
  <2>1. CASE SettleLifecycle
    <3>1. CASE todo' = Promote /\ store.staged # None /\ store.staged.slot = running
      <4>1. Promotes'
        BY <1>1, <3>1, Operations DEF Promotes
      <4>2. store.proven # None
        BY <3>1 DEF DocInv
      <4> QED
        BY <1>1, <1>2, <1>3, <4>1, <4>2 DEF TodoInv, IsTorn
    <3>2. CASE store.staged = None /\ store.proven = None /\ todo' = WriteProven([rel |-> Version, slot |-> running])
      <4>1. [rel |-> Version, slot |-> running] \in Record
        BY <2>1 DEF SettleLifecycle, Serving, Record, TypeOK
      <4>2. \E r \in Record : ProvesFirst(r)'
        BY <1>1, <3>2, <4>1 DEF ProvesFirst, WriteProven
      <4> QED
        BY <1>1, <1>2, <1>3, <4>2 DEF TodoInv, IsTorn
    <3>3. CASE todo' = <<>> /\ store.proven # None
      BY <1>1, <1>3, <3>3 DEF TodoInv
    <3>4. [rel |-> Version, slot |-> running] # None
      BY <2>1, ReleasesAssumption DEF SettleLifecycle, Serving, Record, TypeOK
    <3> QED
      BY <2>1, <3>1, <3>2, <3>3, <3>4 DEF SettleLifecycle, DocInv
  <2>2. CASE Converged
    <3>1. store.proven # None
      BY <2>2, <1>1 DEF Converged, TodoInv, ProvesFirst
    <3>2. pass' = "settle"
      BY <2>2 DEF Converged
    <3>3. CASE store.staged = None
      <4>1. todo' \in {<<>>, <<Unnote, Sync>>}
        BY <2>2, <3>3, Operations, OperationTypes, JoinedEmpty DEF Converged
      <4> QED
        BY <1>1, <1>3, <3>1, <3>2, <4>1 DEF TodoInv
    <3>4. CASE store.staged # None
      <4>1. todo' \in {<<Unstage, Unmark, Sync>>, <<Unstage, Unmark, Sync, Unnote, Sync>>}
        <5>1. todo' = WithdrawStaged \o ClearRejection /\ WithdrawStaged = <<Unstage, Unmark, Sync>>
          BY <2>2, <3>4, Operations DEF Converged
        <5>2. CASE ClearRejection = <<>>
          BY <5>1, <5>2, OperationTypes, JoinedEmpty
        <5>3. CASE ClearRejection = <<Unnote, Sync>>
          BY <5>1, <5>3, Joined
        <5> QED
          BY <5>2, <5>3, Operations
      <4> QED
        BY <1>1, <1>3, <3>1, <3>2, <3>4, <4>1 DEF TodoInv, Unstages
    <3> QED
      BY <3>3, <3>4
  <2>3. CASE WithdrawOther
    <3>1. store.staged # None /\ todo' = <<Unstage, Unmark, Sync>> /\ pass' = pass
      BY <2>3, Operations DEF WithdrawOther, withdrawOtherStage
    <3>2. store.proven # None
      BY <3>1 DEF DocInv
    <3> QED
      BY <1>1, <1>3, <3>1, <3>2 DEF TodoInv, Unstages
  <2> QED
    BY <2>1, <2>2, <2>3
<1>5. PowerInv'
  BY <1>1 DEF PowerInv, Away
<1>6. MarkInv'
  <2>1. ~Unmarks
    BY <1>1 DEF Unmarks
  <2> QED
    BY <1>1, <2>1 DEF MarkInv, Marked, Away, Rejects, IsTorn
<1> QED
  BY <1>1, <1>4, <1>5, <1>6, Frames

\* The pass asks for a release: a download may begin, or its record is staged.
LEMMA ConvergeStep ==
    ASSUME TypeOK, IInv, ConvergeSystemRelease
    PROVE  IInv'
<1> USE DEF IInv, documents, world, init, pastWrites
<1>1. /\ UNCHANGED <<documents, fw, disk, dirty, power, running, init, world, trials, served, ended, handed, tries, stale>>
      /\ power = "up" /\ todo = <<>>
  BY DEF ConvergeSystemRelease, Serving
<1>2. ~IsTorn(running)
  BY ReleasesAssumption DEF ConvergeSystemRelease, Serving, Version, IsTorn
<1>3. Asks \in Record /\ Asks.slot = Other(running)
  BY OtherFacts DEF Asks, Record, TypeOK
<1>4. store.proven # None
  BY <1>1 DEF ConvergeSystemRelease, TodoInv, ProvesFirst
<1>5. /\ fetch'.ask = Asks
      /\ fetch'.busy # None => fetch'.busy.slot = Other(running)
  BY <1>3 DEF ConvergeSystemRelease, TodoInv
<1>6. fetch'.ask # None /\ pass' = "settle"
  BY <1>3, <1>5, Kinds DEF ConvergeSystemRelease
<1>7. TodoInv'
  <2>1. CASE todo' = <<>>
    BY <1>1, <1>5, <1>6, <2>1 DEF TodoInv
  <2>2. CASE todo' # <<>>
    <3>1. todo' = <<<<"staged", Asks>>, Sync>> /\ store.staged # Asks
      BY <2>2 DEF ConvergeSystemRelease, WriteStaged
    <3>2. store.staged = None
      BY <3>1 DEF ConvergeSystemRelease, withdrawOtherStage
    <3>3. \E r \in Record : Stages(r)'
      BY <1>1, <1>3, <1>4, <1>6, <3>1, <3>2 DEF Stages
    <3> QED
      BY <1>1, <1>2, <1>5, <1>6, <3>3 DEF TodoInv, IsTorn
  <2> QED
    BY <2>1, <2>2
<1>8. PowerInv'
  BY <1>1 DEF PowerInv, Away
<1>9. MarkInv'
  <2>1. ~Unmarks
    BY <1>1 DEF Unmarks
  <2> QED
    BY <1>1, <2>1 DEF MarkInv, Marked, Away, Rejects, IsTorn
<1>10. OnceInv'
  <2> SUFFICES ASSUME ~exposed', forgets' = None PROVE OnceInv'
    BY DEF OnceInv
  <2>1. ~exposed /\ ~Exposes
    BY DEF ConvergeSystemRelease, Exposes, TypeOK
  <2>2. fw.order = running /\ \A d \in {store, synced} : d.proven # None => d.proven.slot = running
    BY <2>1, Kinds, OtherFacts DEF Exposes
  <2> QED
    BY <1>1, <1>4, <2>1, <2>2 DEF OnceInv, Unproven, IsTorn, Away, Rejects, Lead, Aim, Proves, Marked
<1> QED
  BY <1>1, <1>7, <1>8, <1>9, <1>10, Frames

\* A download changes the other slot alone.
LEMMA DownloadStep ==
    ASSUME TypeOK, IInv, Download \/ FetchStops
    PROVE  IInv'
<1> USE DEF IInv, documents, world, init, pastWrites, history
<1>1. /\ UNCHANGED <<documents, fw, power, running, init, todo, pass, world, history>>
      /\ power = "up" /\ fetch.busy # None
  BY DEF Download, withdrawSlotDocument, FetchArtifacts, FillSlot, FetchVerified, FetchStep, FetchStops
<1>2. fetch.busy.slot = Other(running) /\ fetch.ask # None
  BY <1>1 DEF TodoInv
<1>3. fetch'.ask = fetch.ask /\ fetch'.busy \in {fetch.busy, None}
  BY DEF Download, withdrawSlotDocument, FetchArtifacts, FillSlot, FetchVerified, FetchStep, FetchStops, TypeOK
<1>4. disk'[running].files = disk[running].files
  BY <1>2, Kinds, OtherFacts
     DEF Download, withdrawSlotDocument, FetchArtifacts, FillSlot, FetchVerified, FetchStep, FetchStops, TypeOK
<1>5. TodoInv'
  BY <1>1, <1>2, <1>3, <1>4 DEF TodoInv, Unmarks, Unstages, Promotes, ProvesFirst, Stages, IsTorn
<1>6. PowerInv'
  BY <1>1 DEF PowerInv, Away
<1>7. PlanInv'
  BY <1>1 DEF PlanInv, UpPlan, Heals, Lead, Aim
<1>8. FirstInv'
  BY <1>1, <1>4 DEF FirstInv
<1>9. LandInv'
  BY <1>1 DEF LandInv, RebootsLandOnProven, UpdaterComesBack
<1>10. OrderInv'
  BY <1>1, <1>4 DEF OrderInv, Strays, IsTorn
<1>11. MarkInv'
  BY <1>1 DEF MarkInv, Marked, Away, Unmarks
<1>12. OnceInv'
  <2> SUFFICES ASSUME ~exposed, forgets = None PROVE OnceInv'
    BY <1>1 DEF OnceInv
  <2>1. \A d \in {store, synced} : d.proven # None => d.proven.slot = running
    BY <1>2 DEF OnceInv
  <2>2. \A d \in {store, synced} : d.proven # None => disk'[d.proven.slot].files # Torn
    BY <1>4, <2>1 DEF OnceInv, IsTorn
  <2> QED
    BY <1>1, <1>2, <1>3, <2>2 DEF OnceInv, Unproven, IsTorn, Away, Proves
<1> QED
  BY <1>1, <1>5, <1>6, <1>7, <1>8, <1>9, <1>10, <1>11, <1>12, Frames

\* The operator's process ends, and init may stop the machine.
LEMMA EndStep ==
    ASSUME TypeOK, IInv, RestartOperator \/ \E handover \in BOOLEAN : KillEverything(handover)
    PROVE  IInv'
<1> USE DEF IInv, documents, world, pastWrites
<1>1. /\ UNCHANGED <<documents, fw, disk, dirty, running, kept, trial, sees, plan, world, pastWrites>>
      /\ power = "up" /\ power' \in {"up", "stopping"} /\ OperatorEnds(store)
  BY DEF RestartOperator, KillEverything, init
<1>2. todo' = <<>> /\ pass' = "settle" /\ fetch'.ask = None /\ fetch'.busy = None /\ fetch' = NoFetch
  BY <1>1 DEF OperatorEnds, NoFetch
<1>3. PowerInv' /\ TodoInv'
  BY <1>1, <1>2 DEF PowerInv, Away, TodoInv
<1>4. TrialInv' /\ DocInv' /\ FirstInv' /\ HandInv' /\ LandInv'
  BY <1>1 DEF TrialInv, DocInv, FirstInv, HandInv, LandInv, RebootsLandOnProven, UpdaterComesBack, Away
<1>5. PlanInv'
  BY <1>1 DEF PlanInv, UpPlan, Heals, Lead, Aim
<1>6. OrderInv'
  BY <1>1 DEF OrderInv, Strays, IsTorn
<1>7. MarkInv'
  <2>1. store.staged = None /\ store.attempted # None => stale'
    BY <1>1 DEF OperatorEnds
  <2>2. stale => stale'
    BY <1>1 DEF OperatorEnds, TypeOK
  <2> QED
    BY <1>1, <2>1, <2>2 DEF MarkInv, Marked, Away
<1>8. OnceInv'
  BY <1>1, <1>2 DEF OnceInv, Unproven, IsTorn, Away, Proves
<1> QED
  BY <1>3, <1>4, <1>5, <1>6, <1>7, <1>8

-----------------------------------------------------------------------------
\* The watch and the requester.

\* The watch sees that the trial is settled.
LEMMA WatchStep ==
    ASSUME TypeOK, IInv, WatchSettles
    PROVE  IInv'
<1> USE DEF IInv, documents, world, operator, history
<1>1. /\ UNCHANGED <<documents, fw, disk, dirty, power, running, kept, keep, plan, operator, world, history>>
      /\ power = "up" /\ trial # None /\ ~sees /\ store.staged = None /\ store.proven # None
      /\ IF store.proven = trial THEN sees' = TRUE /\ trial' = trial ELSE trial' = None /\ sees' = sees
  <2>1. trial # None /\ store.proven # None => trial \in Record /\ store.proven \in Record
    BY DEF TypeOK, Documents, MaybeRecord
  <2>2. trial # None /\ store.proven # None => (Promoted <=> store.proven = trial)
    BY <2>1 DEF Promoted, Record
  <2> QED
    BY <2>2 DEF WatchSettles
<1>2. plan = <<>>
  BY <1>1 DEF PlanInv, UpPlan
<1>3. PowerInv' /\ TrialInv'
  BY <1>1 DEF PowerInv, TrialInv, Away
<1>4. PlanInv'
  BY <1>1, <1>2 DEF PlanInv, UpPlan
<1>5. OrderInv'
  BY <1>1 DEF OrderInv, Strays, IsTorn, TrialInv, Away
<1> QED
  BY <1>1, <1>3, <1>4, <1>5, Frames

\* The watch takes the lock, and asserts the proven slot unless the machine shuts down.
LEMMA LockStep ==
    ASSUME TypeOK, IInv, assertProvenSlotUnderLock
    PROVE  IInv'
<1> USE DEF IInv, documents, world, operator, history
<1>1. /\ UNCHANGED <<documents, fw, disk, dirty, power, running, kept, keep, operator, world, history>>
      /\ sees /\ plan = <<>> /\ ~sees' /\ trial' = None
      /\ plan' = IF power = "up" THEN assertProvenSlot ELSE <<>>
  BY DEF assertProvenSlotUnderLock, ShuttingDown, TypeOK
<1>2. ~Away /\ power # "settling"
  BY <1>1 DEF PowerInv
<1>3. /\ trial # None /\ tries /\ store.proven = trial /\ trial.slot = running
      /\ store.staged # None => store.staged.slot # running
  BY <1>1, <1>2 DEF TrialInv
<1>4. power = "up" => plan' = <<Lead, Aim>>
  BY <1>1, <1>3, Operations
<1>5. PowerInv' /\ TrialInv'
  BY <1>1, <1>2, <1>3 DEF PowerInv, TrialInv, Away
<1>6. PlanInv'
  <2>1. CASE power = "up"
    BY <1>1, <1>3, <1>4, <2>1 DEF PlanInv, UpPlan, Heals, Lead, Aim
  <2>2. CASE power # "up"
    <3>1. plan' = plan
      BY <1>1, <2>2
    <3>2. (TurnedPlan => TurnedPlan') /\ (UpPlan => UpPlan')
      BY <1>1, <3>1 DEF TurnedPlan, UpPlan, Heals, Arms, Armable, Aimed, Marked, Lead, Aim, Mark, Arm, IsTorn
    <3> QED
      BY <1>1, <1>2, <3>2 DEF PlanInv, Away
  <2> QED
    BY <2>1, <2>2
<1>7. HandInv'
  BY <1>1, <1>2 DEF HandInv, Away
<1>8. OrderInv'
  <2>1. power = "up" => plan' # <<>>
    BY <1>4
  <2> QED
    BY <1>1, <1>3, <2>1 DEF OrderInv, Strays, IsTorn
<1>9. MarkInv'
  BY <1>1, <1>2 DEF MarkInv, Marked, Away, Unmarks, Rejects, Arm, Armable, IsTorn
<1>10. OnceInv'
  BY <1>1, <1>2 DEF OnceInv, Unproven, IsTorn, Away, Proves
<1> QED
  BY <1>1, <1>5, <1>6, <1>7, <1>8, <1>9, <1>10, Frames

\* A requester aims BootNext at its updater.
LEMMA UpdateStep ==
    ASSUME TypeOK, IInv, StageUpdate
    PROVE  IInv'
<1> USE DEF IInv, documents, world, operator, history, init
<1>1. /\ UNCHANGED <<documents, disk, dirty, power, running, init, operator, world, history>>
      /\ power = "up" /\ plan = <<>> /\ fw'.next = "updater" /\ fw'.order = fw.order
  BY DEF StageUpdate, Serving, TypeOK
<1>2. "updater" \notin Slots /\ Slots = {"A", "B"}
  BY DEF Slots
<1>3. PowerInv' /\ FirstInv' /\ HandInv' /\ LandInv'
  BY <1>1, <1>2 DEF PowerInv, Away, FirstInv, HandInv, LandInv, RebootsLandOnProven, UpdaterComesBack
<1>4. PlanInv' /\ MarkInv'
  BY <1>1 DEF PlanInv, UpPlan, MarkInv, Marked, Away, Unmarks
<1>5. OrderInv'
  <2> SUFFICES ASSUME forgets = None PROVE OrderInv'
    BY <1>1 DEF OrderInv
  <2>1. \A s \in Slots : fw'.next # s
    BY <1>1, <1>2
  <2>2. ASSUME NEW d \in {store, synced}, Strays(d)
        PROVE  d.staged.slot \in Slots /\ ~IsTorn(fw.order) /\ running = fw.order
    BY <1>1, <2>2, Kinds DEF OrderInv, Strays
  <2>3. \A d \in {store, synced} : Strays(d)' => Strays(d)
    BY <1>1 DEF Strays
  <2>4. fw'.next # Other(running) /\ (store.proven # None => fw'.next # Other(store.proven.slot))
    BY <2>1, Kinds, OtherFacts
  <2>5. OrderInv
    OBVIOUS
  <2> QED
    BY <1>1, <2>1, <2>2, <2>3, <2>4, <2>5 DEF OrderInv, Strays, IsTorn
<1>6. OnceInv'
  BY <1>1, <1>2, Kinds DEF OnceInv, Unproven, IsTorn, Away, Proves
<1> QED
  BY <1>1, <1>3, <1>4, <1>5, <1>6, Frames

-----------------------------------------------------------------------------
\* The boot.

\* Init is done with the boot's writes, and starts the plane.
LEMMA StartStep ==
    ASSUME TypeOK, IInv, StartPlane
    PROVE  IInv'
<1> USE DEF IInv, documents, world, operator, history, init
<1>1. /\ UNCHANGED <<documents, fw, disk, dirty, running, init, operator, world, history>>
      /\ power = "settling" /\ plan = <<>> /\ power' = "up"
  BY DEF StartPlane
<1>2. tries => trial # None
  BY <1>1 DEF PlanInv, SettlingPlan, Heals, Rejects
<1>3. ~tries /\ store.proven # None => fw = [next |-> store.proven.slot, order |-> store.proven.slot]
  BY <1>1 DEF PlanInv, SettlingPlan, Heals, Rejects
<1>4. PowerInv' /\ TrialInv'
  BY <1>1 DEF PowerInv, TrialInv, Away
<1>5. DocInv' /\ HandInv' /\ LandInv'
  BY <1>1 DEF DocInv, HandInv, LandInv, RebootsLandOnProven, UpdaterComesBack, Away
<1>6. PlanInv'
  BY <1>1 DEF PlanInv, UpPlan
<1>7. OrderInv'
  BY <1>1, <1>2, <1>3, Kinds, OtherFacts DEF OrderInv, Strays, IsTorn
<1>8. MarkInv'
  BY <1>1 DEF MarkInv, Marked, Away, Rejects
<1>9. OnceInv'
  BY <1>1 DEF OnceInv, Unproven, IsTorn, Away, Proves, Rejects
<1> QED
  BY <1>1, <1>4, <1>5, <1>6, <1>7, <1>8, <1>9, Frames

\* The requester's updater runs.
LEMMA UpdaterStep ==
    ASSUME TypeOK, IInv, RunUpdater
    PROVE  IInv'
<1> USE DEF IInv, documents, world, operator, history, init
<1>1. /\ UNCHANGED <<documents, disk, dirty, power, running, init, operator, world, history>>
      /\ power = "off" /\ fw.next = "updater" /\ fw'.next = None
      /\ fw'.order = IF forgets = None THEN fw.order ELSE forgets
  BY DEF RunUpdater, Heads
<1>2. ~(ended = "reboot" /\ handed = "no" /\ store.proven # None)
  BY <1>1, Kinds DEF PlanInv, Aimed, Armable
<1>3. PowerInv' /\ FirstInv' /\ LandInv'
  BY <1>1, Kinds DEF PowerInv, Away, FirstInv, LandInv, RebootsLandOnProven, UpdaterComesBack, Slots
<1>4. PlanInv'
  BY <1>1, <1>2 DEF PlanInv
<1>5. HandInv'
  BY <1>1, Kinds, OtherFacts DEF HandInv
<1>6. OrderInv'
  BY <1>1, Kinds DEF OrderInv, Strays, IsTorn
<1>7. MarkInv'
  BY <1>1, Kinds DEF MarkInv, Marked, Away, IsTorn
<1>8. OnceInv'
  BY <1>1, Kinds DEF OnceInv, Unproven, IsTorn, Away, Proves
<1> QED
  BY <1>1, <1>3, <1>4, <1>5, <1>6, <1>7, <1>8, Frames

\* The firmware chooses the slot: where the reboot aimed, when it can be loaded.
LEMMA PowerOnStep ==
    ASSUME TypeOK, IInv, PowerOn
    PROVE  IInv'
<1> USE DEF IInv, documents, world, operator, history, init
<1> DEFINE head == IF forgets = None THEN fw.order ELSE forgets
           first == IF fw.next = None THEN head ELSE fw.next
<1>1. /\ UNCHANGED <<documents, disk, dirty, init, operator, world, history>>
      /\ power = "off" /\ power' = "on" /\ fw.next # "updater"
      /\ fw'.next = None /\ fw'.order = head
      /\ running' # first => disk[first].files = Torn
      /\ running' \in Slots
  BY DEF PowerOn, Heads
<1>2. first \in Slots /\ head \in Slots
  BY <1>1, Kinds DEF TypeOK, Entries
<1> HIDE DEF first
<1>3. fw.next # None => first = fw.next
  BY DEF first
<1>4. fw.next = None => first = head
  BY DEF first
<1>5. plan = <<>> /\ todo = <<>> /\ pass = "settle" /\ fetch = NoFetch /\ store = synced /\ ~sees /\ trial = None
  BY <1>1 DEF PowerInv, Away
<1>6. PowerInv' /\ TrialInv'
  BY <1>1 DEF PowerInv, TrialInv, Away
<1>7. TodoInv' /\ DocInv' /\ PlanInv'
  BY <1>1, <1>5 DEF TodoInv, NoFetch, DocInv, PlanInv, Away
<1>8. FirstInv'
  <2>1. None \in {store.proven, synced.proven} /\ forgets = None => first = "A"
    BY <1>1, <1>2, <1>3, <1>4 DEF FirstInv, Slots
  <2> QED
    <3>1. Installed # Torn
      BY ReleasesAssumption
    <3>2. None \in {store.proven, synced.proven} /\ forgets = None => running' = "A" /\ head = "A"
      BY <1>1, <2>1, <3>1 DEF FirstInv
    <3>3. None # "B"
      BY Kinds DEF Slots
    <3> QED
      BY <1>1, <3>2, <3>3 DEF FirstInv
<1>9. HandInv'
  BY <1>1 DEF HandInv
<1>10. LandInv'
  <2>1. RebootsLandOnProven'
    <3> SUFFICES ASSUME ended = "reboot", handed = "no", store.proven # None, disk[store.proven.slot].files # Torn
                 PROVE  running' = store.proven.slot
                        \/ (store.staged # None /\ store.staged.slot = running' /\ store.attempted = store.staged)
      BY <1>1 DEF RebootsLandOnProven, Proves
    <3> QED
      BY <1>1, <1>3, Kinds DEF PlanInv, Aimed, Armable, Marked, IsTorn
  <2>2. UpdaterComesBack'
    <3> SUFFICES ASSUME handed = "settled", disk[store.proven.slot].files # Torn
                 PROVE  running' = store.proven.slot
      BY <1>1 DEF UpdaterComesBack
    <3>1. store.proven # None /\ fw.next # Other(store.proven.slot) /\ head = store.proven.slot
      BY <1>1, <1>5 DEF HandInv
    <3>2. first = store.proven.slot
      BY <1>2, <1>3, <1>4, <3>1, Kinds, OtherFacts
    <3> QED
      BY <1>1, <3>2
  <2> QED
    BY <2>1, <2>2 DEF LandInv
<1>11. OrderInv'
  <2> SUFFICES ASSUME forgets = None, NEW d \in {store, synced}, Strays(d)
               PROVE  None # d.staged.slot /\ ~IsTorn(fw.order) /\ running' = fw.order
    BY <1>1 DEF OrderInv, Strays, IsTorn
  <2>1. fw.next # d.staged.slot /\ ~IsTorn(fw.order) /\ fw.order # d.staged.slot /\ d.staged.slot \in Slots
    BY Kinds DEF OrderInv, Strays
  <2>2. first = fw.order
    BY <1>2, <1>3, <1>4, <2>1, Kinds, OtherFacts
  <2> QED
    BY <1>1, <2>1, <2>2, Kinds DEF IsTorn
<1>12. MarkInv'
  BY <1>1, <1>3, Kinds DEF MarkInv, Marked, Away, IsTorn, Unmarks
<1>13. OnceInv'
  <2> SUFFICES ASSUME ~exposed, forgets = None PROVE OnceInv'
    BY <1>1 DEF OnceInv
  <2>1. ASSUME Unproven(store), store.staged.slot = running' PROVE Marked /\ trials = 0
    <3>1. store.proven # None /\ store.proven.slot # store.staged.slot /\ ~IsTorn(store.proven.slot)
          /\ fw.order # store.staged.slot
      BY <2>1 DEF OnceInv, Unproven, DocInv
    <3>2. CASE fw.next = store.staged.slot
      BY <2>1, <3>2 DEF OnceInv, Unproven, Marked
    <3>3. CASE fw.next # store.staged.slot
      <4>1. first # store.staged.slot
        BY <1>3, <1>4, <3>1, <3>3
      <4>2. first = store.proven.slot
        BY <1>2, <2>1, <3>1, <4>1, Kinds, OtherFacts DEF Unproven
      <4> QED
        BY <1>1, <2>1, <3>1, <4>1, <4>2 DEF IsTorn
    <3> QED
      BY <3>2, <3>3
  <2>2. Proves' <=> store.staged # None /\ store.staged.slot = running'
    BY <1>1 DEF Proves
  <2> QED
    <3>1. OnceInv /\ head = fw.order /\ dirty = "clean" /\ fetch.ask = None
      BY <1>1, <1>5 DEF PowerInv, Away, NoFetch
    <3>2. \A d \in {store, synced} : d.staged # None => None # d.staged.slot
      BY Kinds
    <3>3. Marked' <=> Marked
      BY <1>1 DEF Marked
    <3>4. \A d \in {store, synced} : Unproven(d)' <=> Unproven(d)
      BY <1>1 DEF Unproven
    <3>5. power' = "on" /\ Proves' /\ Unproven(store)' => Marked' /\ trials = 0
      BY <1>1, <2>1, <2>2, <3>3, <3>4
    <3> QED
      BY <1>1, <3>1, <3>2, <3>5 DEF OnceInv, Unproven, IsTorn, Away
<1> QED
  BY <1>6, <1>7, <1>8, <1>9, <1>10, <1>11, <1>12, <1>13

\* A boot reads the documents, and decides what it proves and what it rejects.
LEMMA BootStep ==
    ASSUME TypeOK, IInv, settleSystemRelease
    PROVE  IInv'
<1> USE DEF IInv, documents, world, operator
<1>1. /\ UNCHANGED <<documents, fw, disk, dirty, running, sees, keep, operator, world,
                     served, ended, handed, exposed, stale>>
      /\ power = "on" /\ power' = "settling"
      /\ kept' = observeBootOrder
      /\ trial' = IF Proves THEN store.staged ELSE None
      /\ trials' = IF Proves /\ trials < 2 THEN trials + 1 ELSE trials
      /\ tries' = Proves
      /\ plan' = IF Proves THEN <<>> ELSE (IF FellBack THEN Reject ELSE <<>>) \o assertProvenSlot
  BY DEF settleSystemRelease
<1>2. store = synced /\ ~sees /\ todo = <<>> /\ fetch.ask = None /\ dirty = "clean" /\ fw.next = None
  BY <1>1 DEF PowerInv, Away, NoFetch
<1>3. store.staged # None => store.proven # None
  BY DEF DocInv
<1>4. CASE Proves
  <2>1. store.staged # None /\ store.staged.slot = running
    BY <1>4 DEF Proves
  <2>2. plan' = <<>> /\ trial' = store.staged /\ tries'
    BY <1>1, <1>4
  <2>3. trials' # 0 /\ trials' > 0 /\ (trials = 0 => trials' = 1)
    BY <1>1, <1>4 DEF TypeOK
  <2>4. PowerInv' /\ TrialInv'
    BY <1>1, <1>2, <2>1, <2>2 DEF PowerInv, TrialInv, Away
  <2>5. DocInv' /\ HandInv' /\ LandInv'
    BY <1>1, <1>2, <2>2 DEF DocInv, HandInv, LandInv, RebootsLandOnProven, UpdaterComesBack, Away
  <2>6. PlanInv'
    BY <1>1, <2>1, <2>2 DEF PlanInv, SettlingPlan
  <2>7. OrderInv'
    BY <1>1, <1>2, <2>1, <2>2, Kinds DEF OrderInv, Strays, IsTorn
  <2>8. MarkInv'
    BY <1>1, <2>1, <2>3 DEF MarkInv, Marked, Away
  <2>9. OnceInv'
    <3> SUFFICES ASSUME ~exposed, forgets = None PROVE OnceInv'
      BY <1>1 DEF OnceInv
    <3>1. Unproven(store) => Marked /\ trials = 0
      BY <1>1, <1>4 DEF OnceInv
    <3>2. served # store.staged => trials' = 1 /\ store.attempted = store.staged
      BY <2>1, <2>3, <3>1 DEF Unproven, Marked
    <3>3. \A d \in {store, synced} : d.staged # None => None # d.staged.slot
      BY Kinds
    <3> QED
      BY <1>1, <1>2, <2>1, <2>3, <3>2, <3>3 DEF OnceInv, Unproven, IsTorn, Away
  <2> QED
    BY <1>1, <2>4, <2>5, <2>6, <2>7, <2>8, <2>9, Frames
<1>5. CASE ~Proves
  <2>1. /\ ~tries' /\ trial' = None /\ trials' = trials
        /\ store.staged # None => store.staged.slot # running
    BY <1>1, <1>5 DEF Proves
  <2>2. FellBack <=> Marked
    BY <1>5 DEF FellBack, Marked
  <2>3. /\ Marked => plan' = <<<<"note", store.staged>>, Sync, Unstage, Unmark, Sync, Lead, Aim>>
        /\ ~Marked => plan' = IF store.proven = None THEN <<>> ELSE <<Lead, Aim>>
    <3>1. CASE Marked
      <4>1. plan' = Reject \o assertProvenSlot /\ store.proven # None
        BY <1>1, <1>3, <1>5, <2>2, <3>1 DEF Marked
      <4>2. Reject = <<<<"note", store.staged>>, Sync, Unstage, Unmark, Sync>> /\ assertProvenSlot = <<Lead, Aim>>
        BY <4>1, Operations
      <4>3. plan' = <<<<"note", store.staged>>, Sync, Unstage, Unmark, Sync>> \o <<Lead, Aim>>
        BY <4>1, <4>2
      <4>4. plan' = <<<<"note", store.staged>>, Sync, Unstage, Unmark, Sync, Lead, Aim>>
        BY <4>3, Joined
      <4> QED
        BY <3>1, <4>4
    <3>2. CASE ~Marked
      <4>1. plan' = <<>> \o assertProvenSlot
        BY <1>1, <1>5, <2>2, <3>2
      <4> QED
        BY <3>2, <4>1, Operations, OperationTypes, JoinedEmpty
    <3> QED
      BY <3>1, <3>2
  <2>4. Marked => Rejects' /\ store.staged # None /\ store.proven # None
    BY <1>1, <1>3, <2>3 DEF Rejects, Lead, Aim, Marked
  <2>5. PowerInv' /\ TrialInv'
    BY <1>1, <1>2, <2>1 DEF PowerInv, TrialInv, Away
  <2>6. DocInv' /\ LandInv'
    BY <1>1, <1>2 DEF DocInv, LandInv, RebootsLandOnProven, UpdaterComesBack, Away
  <2>7. HandInv'
    <3>1. kept' = "kept" => store.proven # None /\ fw.order = store.proven.slot
      BY <1>1 DEF observeBootOrder
    <3> QED
      BY <1>1, <3>1 DEF HandInv, PowerInv
  <2>8. PlanInv'
    BY <1>1, <2>1, <2>3, <2>4 DEF PlanInv, SettlingPlan, Heals, Lead, Aim
  <2>9. OrderInv'
    BY <1>1, <1>2, <2>1, Kinds DEF OrderInv, Strays, IsTorn
  <2>10. MarkInv'
    BY <1>1, <2>1, <2>4 DEF MarkInv, Marked, Away, Unmarks
  <2>11. OnceInv'
    <3> SUFFICES ASSUME ~exposed, forgets = None PROVE OnceInv'
      BY <1>1 DEF OnceInv
    <3>1. trials > 0 /\ served # store.staged => Rejects'
      BY <2>4 DEF OnceInv, Marked
    <3> QED
      BY <1>1, <1>2, <2>1, <3>1 DEF OnceInv, Unproven, IsTorn, Away
  <2> QED
    BY <1>1, <2>5, <2>6, <2>7, <2>8, <2>9, <2>10, <2>11, Frames
<1> QED
  BY <1>4, <1>5

-----------------------------------------------------------------------------
\* The reboot and the power cut.

\* A reboot decides between a handover and the assertion with the arming of a trial.
LEMMA ArmStep ==
    ASSUME TypeOK, IInv, assertAndArmForReboot
    PROVE  IInv'
<1> USE DEF IInv, documents, world, operator
<1>1. /\ UNCHANGED <<documents, fw, disk, dirty, running, kept, trial, sees, keep, operator, world,
                     trials, served, ended, tries, exposed, stale>>
      /\ power = "stopping" /\ power' = "turned" /\ plan = <<>>
      /\ handed' = IF ~HandsOver THEN "no" ELSE IF tries THEN "trial" ELSE "settled"
      /\ plan' = IF HandsOver THEN healBootEntries(store.proven.slot, FALSE)
                 ELSE (IF Drops THEN <<<<"next", None>>>> ELSE <<>>) \o assertProvenSlot \o armProvingBoot
  BY DEF assertAndArmForReboot
<1>2. ASSUME HandsOver PROVE PlanInv' /\ HandInv'
  <2>1. plan' = <<Lead>> /\ handed' # "no"
    BY <1>1, <1>2 DEF healBootEntries, Lead
  <2>2. /\ store.proven # None /\ fw.next # Other(store.proven.slot)
        /\ handed' = "settled" /\ forgets # None => forgets = store.proven.slot
    BY <1>1, <1>2 DEF HandsOver, HandInv
  <2>3. PlanInv'
    BY <1>1, <2>1 DEF PlanInv, TurnedPlan, Lead
  <2>4. HandInv'
    <3>1. plan' # <<>>
      BY <2>1
    <3>2. UNCHANGED <<store, fw, forgets>> /\ power' = "turned"
      BY <1>1
    <3> QED
      BY <2>1, <2>2, <3>1, <3>2 DEF HandInv
  <2> QED
    BY <2>1, <2>3, <2>4
<1>3. ASSUME ~HandsOver PROVE PlanInv' /\ HandInv'
  <2>1. handed' = "no"
    BY <1>1, <1>3
  <2>2. CASE store.proven = None
    <3>1. assertProvenSlot = <<>> /\ armProvingBoot = <<>>
      BY <2>2, Operations DEF MayArm
    <3>2. plan' = (IF Drops THEN <<<<"next", None>>>> ELSE <<>>) \o <<>> \o <<>>
      BY <1>1, <1>3, <3>1
    <3>3. plan' \in {<<<<"next", None>>>>, <<>>}
      BY <3>2, OperationTypes, JoinedEmpty, EmptySeq
    <3> QED
      BY <1>1, <2>1, <2>2, <3>3 DEF PlanInv, TurnedPlan, HandInv
  <2>3. CASE store.proven # None
    <3>1. plan' = <<>> \o <<Lead, Aim>> \o armProvingBoot
      BY <1>1, <1>3, <2>3, Operations DEF Drops
    <3>2. plan' = <<Lead, Aim>> \o armProvingBoot
      BY <2>3, <3>1, Operations, OperationTypes, JoinedEmpty
    <3>3. CASE MayArm
      <4>1. plan' = <<Lead, Aim, Mark, Sync, Arm>>
        <5>1. plan' = <<Lead, Aim>> \o <<Mark, Sync, Arm>>
          BY <3>2, <3>3, Operations
        <5> QED
          BY <5>1, Joined
      <4>2. Armable
        BY <3>3, ReleasesAssumption, Kinds DEF MayArm, Armable, checkStagedSlot, IsTorn, Record
      <4> QED
        BY <1>1, <2>1, <2>3, <4>1, <4>2
           DEF PlanInv, TurnedPlan, HandInv, Arms, Armable, Lead, Aim, Mark, Arm, IsTorn
    <3>4. CASE ~MayArm
      <4>1. plan' = <<Lead, Aim>>
        BY <2>3, <3>2, <3>4, Operations, OperationTypes, JoinedEmpty
      <4> QED
        BY <1>1, <2>1, <2>3, <4>1 DEF PlanInv, TurnedPlan, HandInv, Heals, Lead, Aim
    <3> QED
      BY <3>3, <3>4
  <2> QED
    BY <2>2, <2>3
<1>4. PlanInv' /\ HandInv'
  BY <1>2, <1>3
<1>5. PowerInv' /\ TrialInv' /\ DocInv' /\ LandInv'
  BY <1>1 DEF PowerInv, TrialInv, DocInv, LandInv, RebootsLandOnProven, UpdaterComesBack, Away
<1>6. OrderInv'
  BY <1>1 DEF OrderInv, Strays, IsTorn
<1>7. MarkInv'
  BY <1>1 DEF MarkInv, Marked, Away
<1>8. OnceInv'
  BY <1>1 DEF OnceInv, Unproven, IsTorn, Away
<1> QED
  BY <1>1, <1>4, <1>5, <1>6, <1>7, <1>8, Frames

\* The machine is off with documents that it had, and the disk of this boot's slot.
LEMMA OffFacts ==
    ASSUME TypeOK, IInv, power # "off", NEW how \in {"reboot", "cut"}, NEW left \in {store, synced}, Off(how, left),
           UNCHANGED fw, disk'[running] = disk[running]
    PROVE  PowerInv' /\ TrialInv' /\ TodoInv' /\ DocInv' /\ FirstInv' /\ LandInv' /\ OrderInv'
<1> USE DEF IInv, world
<1>1. /\ power' = "off" /\ plan' = <<>> /\ trial' = None /\ ~sees' /\ todo' = <<>> /\ pass' = "settle"
      /\ fetch' = NoFetch /\ store' = left /\ synced' = left /\ dirty' = "clean"
      /\ UNCHANGED <<running, forgets>>
  BY DEF Off, OperatorEnds
<1>2. PowerInv' /\ TrialInv' /\ TodoInv' /\ LandInv'
  BY <1>1 DEF PowerInv, TrialInv, TodoInv, LandInv, RebootsLandOnProven, UpdaterComesBack, Away, NoFetch
<1>3. DocInv'
  BY <1>1 DEF DocInv
<1>4. FirstInv'
  BY <1>1 DEF FirstInv
<1>5. OrderInv'
  BY <1>1 DEF OrderInv, Strays, IsTorn
<1> QED
  BY <1>2, <1>3, <1>4, <1>5

\* The machine resets when everything is written.
LEMMA ResetStep ==
    ASSUME TypeOK, IInv, Reset
    PROVE  IInv'
<1> USE DEF IInv, world
<1>1. /\ power = "turned" /\ plan = <<>> /\ Off("reboot", store) /\ UNCHANGED <<fw, disk, handed>>
  BY DEF Reset
<1>2. /\ power' = "off" /\ ended' = "reboot" /\ plan' = <<>> /\ fetch'.ask = None /\ dirty' = "clean"
      /\ store' = store /\ synced' = store
      /\ stale' = (stale \/ (store.staged = None /\ store.attempted # None))
      /\ UNCHANGED <<running, forgets, trials, served, exposed>>
  BY <1>1 DEF Off, OperatorEnds, NoFetch
<1>3. PowerInv' /\ TrialInv' /\ TodoInv' /\ DocInv' /\ FirstInv' /\ LandInv' /\ OrderInv'
  BY <1>1, OffFacts
<1>4. PlanInv'
  <2>1. handed = "no" /\ store.proven # None => Aimed
    BY <1>1 DEF PlanInv, TurnedPlan, Heals, Arms
  <2> QED
    BY <1>1, <1>2, <2>1 DEF PlanInv, Aimed, Armable, Marked, IsTorn
<1>5. HandInv'
  BY <1>1, <1>2 DEF HandInv
<1>6. MarkInv'
  <2>1. stale => stale'
    BY <1>2 DEF TypeOK
  <2>2. Marked => trials > 0 \/ stale \/ (fw.next = store.staged.slot /\ ~IsTorn(store.staged.slot))
    BY <1>1 DEF MarkInv, Away
  <2> QED
    BY <1>1, <1>2, <2>1, <2>2 DEF MarkInv, Marked, IsTorn
<1>7. OnceInv'
  BY <1>1, <1>2 DEF OnceInv, Unproven, IsTorn, Away
<1> QED
  BY <1>3, <1>4, <1>5, <1>6, <1>7

\* The power fails between any two writes.
LEMMA CutStep ==
    ASSUME TypeOK, IInv, PowerCut
    PROVE  IInv'
<1> USE DEF IInv, world
<1>1. PICK left \in {store, synced} : Off("cut", left)
  BY DEF PowerCut
<1>2. PICK lost \in BOOLEAN :
        disk' = [disk EXCEPT
            ![Other(running)].doc = IF lost /\ dirty # "clean" THEN None ELSE @,
            ![Other(running)].files = IF lost /\ dirty = "files" THEN Torn ELSE @]
  BY DEF PowerCut
<1>3. disk'[running] = disk[running]
  BY <1>2, Kinds, OtherFacts DEF TypeOK
<1>4. dirty = "clean" => disk'[Other(running)].files = disk[Other(running)].files
  BY <1>2, Kinds, OtherFacts DEF TypeOK
<1>5. /\ power # "off" /\ UNCHANGED fw /\ handed' = "no"
      /\ power' = "off" /\ ended' = "cut" /\ plan' = <<>> /\ fetch'.ask = None /\ dirty' = "clean"
      /\ store' = left /\ synced' = left
      /\ stale' = (stale \/ (left.staged = None /\ left.attempted # None))
      /\ UNCHANGED <<running, forgets, trials, served, exposed>>
  BY <1>1 DEF PowerCut, Off, OperatorEnds, NoFetch
<1>6. PowerInv' /\ TrialInv' /\ TodoInv' /\ DocInv' /\ FirstInv' /\ LandInv' /\ OrderInv'
  BY <1>1, <1>3, <1>5, OffFacts
<1>7. PlanInv' /\ HandInv'
  BY <1>5 DEF PlanInv, HandInv
<1>8. MarkInv'
  BY <1>5 DEF MarkInv, Marked, Away
<1>9. OnceInv'
  <2> SUFFICES ASSUME ~exposed, forgets = None PROVE OnceInv'
    BY <1>5 DEF OnceInv
  <2>1. ASSUME left.proven # None PROVE disk'[left.proven.slot].files # Torn
    <3>1. ~IsTorn(left.proven.slot) /\ left.proven.slot \in Slots
      BY <2>1, Kinds DEF OnceInv
    <3>2. CASE left.proven.slot = running
      BY <1>3, <3>1, <3>2 DEF IsTorn
    <3>3. CASE left.proven.slot # running
      <4>1. dirty = "clean"
        BY <2>1, <3>3 DEF OnceInv
      <4>2. left.proven.slot = Other(running)
        BY <3>1, <3>3, Kinds, OtherFacts
      <4> QED
        BY <1>4, <3>1, <4>1, <4>2 DEF IsTorn
    <3> QED
      BY <3>2, <3>3
  <2> QED
    BY <1>5, <2>1 DEF OnceInv, Unproven, IsTorn, Away
<1> QED
  BY <1>6, <1>7, <1>8, <1>9

-----------------------------------------------------------------------------
\* What the operator writes.

\* The head and the tail of a sequence of writes.
LEMMA Parted ==
    /\ \A a : Head(<<a>>) = a /\ Tail(<<a>>) = <<>>
    /\ \A a, b : Head(<<a, b>>) = a /\ Tail(<<a, b>>) = <<b>>
    /\ \A a, b, c : Head(<<a, b, c>>) = a /\ Tail(<<a, b, c>>) = <<b, c>>
    /\ \A a, b, c, d : Head(<<a, b, c, d>>) = a /\ Tail(<<a, b, c, d>>) = <<b, c, d>>
    /\ \A a, b, c, d, e : Head(<<a, b, c, d, e>>) = a /\ Tail(<<a, b, c, d, e>>) = <<b, c, d, e>>
    /\ \A a, b, c, d, e, f : Head(<<a, b, c, d, e, f>>) = a /\ Tail(<<a, b, c, d, e, f>>) = <<b, c, d, e, f>>
    /\ \A a, b, c, d, e, f, g :
        Head(<<a, b, c, d, e, f, g>>) = a /\ Tail(<<a, b, c, d, e, f, g>>) = <<b, c, d, e, f, g>>
  OBVIOUS

\* While the operator has something to write, the machine is up; a write takes the head
\* of the sequence and leaves everything outside the documents and the firmware alone.
LEMMA OperatorFrame ==
    ASSUME TypeOK, IInv, OperatorWrites
    PROVE  /\ power = "up" /\ power' = "up" /\ Write(Head(todo)) /\ todo' = Tail(todo)
           /\ UNCHANGED <<disk, dirty, running, kept, trial, sees, keep, plan, pass, fetch, forgets>>
  BY DEF OperatorWrites, init, world, IInv, PowerInv

\* The operator syncs the documents.
LEMMA OperatorSyncs ==
    ASSUME TypeOK, IInv, OperatorWrites, todo \in {<<Sync>>, <<Sync, Unnote, Sync>>}
    PROVE  IInv'
<1> USE DEF IInv, documents, history
<1>1. /\ power = "up" /\ power' = "up"
      /\ UNCHANGED <<disk, dirty, running, kept, trial, sees, keep, plan, pass, fetch, forgets>>
  BY OperatorFrame
<1>2. Head(todo) = Sync /\ todo' \in {<<>>, <<Unnote, Sync>>}
  <2>1. todo' = Tail(todo)
    BY OperatorFrame
  <2>2. CASE todo = <<Sync>>
    BY <2>1, <2>2, Parted
  <2>3. CASE todo = <<Sync, Unnote, Sync>>
    BY <2>1, <2>3, Parted
  <2> QED
    BY <2>2, <2>3
<1>3. UNCHANGED <<store, fw, history>> /\ synced' = store
  BY <1>2, OperatorFrame, SyncWrites
<1>4. PowerInv' /\ TrialInv' /\ DocInv' /\ FirstInv'
  BY <1>1, <1>3 DEF PowerInv, TrialInv, DocInv, FirstInv, Away
<1>5. todo # <<<<"proven", store.proven>>, Sync>> /\ \A r : todo # <<<<"proven", r>>, Sync>>
  BY DEF Sync, Unnote
<1>6. TodoInv'
  BY <1>1, <1>2, <1>3, <1>5 DEF TodoInv, ProvesFirst
<1>7. PlanInv'
  BY <1>1, <1>3 DEF PlanInv, UpPlan, Heals, Lead, Aim
<1>8. OrderInv'
  BY <1>1, <1>3 DEF OrderInv, Strays, IsTorn
<1>9. MarkInv'
  <2>1. ~Unmarks
    BY DEF Unmarks, Unnote, Unmark, Sync
  <2> QED
    BY <1>1, <1>3, <2>1 DEF MarkInv, Marked, Away, IsTorn
<1>10. OnceInv'
  BY <1>1, <1>3 DEF OnceInv, Unproven, IsTorn, Away
<1> QED
  BY <1>1, <1>3, <1>4, <1>6, <1>7, <1>8, <1>9, <1>10, Frames

\* The operator removes the rejection's note.
LEMMA OperatorUnnotes ==
    ASSUME TypeOK, IInv, OperatorWrites,
           todo = <<Unnote, Sync>> \/ (todo = <<Unnote, Unmark, Sync>> /\ store.staged = None)
    PROVE  IInv'
<1> USE DEF IInv, documents, history
<1>1. /\ power = "up" /\ power' = "up"
      /\ UNCHANGED <<disk, dirty, running, kept, trial, sees, keep, plan, pass, fetch, forgets>>
  BY OperatorFrame
<1>2. /\ Head(todo) = Unnote
      /\ (todo = <<Unnote, Sync>> /\ todo' = <<Sync>>)
         \/ (Unmarks /\ todo' = <<Unmark, Sync>> /\ store.staged = None)
  <2>1. todo' = Tail(todo)
    BY OperatorFrame
  <2>2. CASE todo = <<Unnote, Sync>>
    BY <2>1, <2>2, Parted
  <2>3. CASE todo = <<Unnote, Unmark, Sync>> /\ store.staged = None
    BY <2>1, <2>3, Parted DEF Unmarks
  <2> QED
    BY <2>2, <2>3
<1>3. /\ UNCHANGED <<synced, fw, history>>
      /\ store'.staged = store.staged /\ store'.proven = store.proven /\ store'.attempted = store.attempted
  BY <1>2, OperatorFrame, NoteWrites DEF Unnote
<1>4. PowerInv' /\ TrialInv' /\ DocInv' /\ FirstInv' /\ HandInv' /\ LandInv'
  BY <1>1, <1>3 DEF PowerInv, TrialInv, DocInv, FirstInv, HandInv, LandInv, RebootsLandOnProven, UpdaterComesBack, Away
<1>5. \A r : todo # <<<<"proven", r>>, Sync>>
  BY <1>2 DEF Sync, Unnote, Unmarks, Unmark
<1>6. TodoInv'
  BY <1>1, <1>2, <1>3, <1>5 DEF TodoInv, ProvesFirst, Unmarks
<1>7. PlanInv'
  BY <1>1, <1>3 DEF PlanInv, UpPlan, Heals, Lead, Aim
<1>8. OrderInv'
  BY <1>1, <1>3 DEF OrderInv, Strays, IsTorn
<1>9. MarkInv'
  <2>1. Unmarks => Unmarks'
    BY <1>2 DEF Unmarks, Unnote, Unmark, Sync
  <2> QED
    BY <1>1, <1>3, <2>1 DEF MarkInv, Marked, Away, IsTorn
<1>10. OnceInv'
  BY <1>1, <1>3 DEF OnceInv, Unproven, IsTorn, Away
<1> QED
  BY <1>4, <1>6, <1>7, <1>8, <1>9, <1>10

\* The operator removes the attempt marker of a record that is no longer staged.
LEMMA OperatorUnmarks ==
    ASSUME TypeOK, IInv, OperatorWrites, store.staged = None,
           todo \in {<<Unmark, Sync>>, <<Unmark, Sync, Unnote, Sync>>}
    PROVE  IInv'
<1> USE DEF IInv, documents, history
<1>1. /\ power = "up" /\ power' = "up"
      /\ UNCHANGED <<disk, dirty, running, kept, trial, sees, keep, plan, pass, fetch, forgets>>
  BY OperatorFrame
<1>2. Head(todo) = Unmark /\ todo' \in {<<Sync>>, <<Sync, Unnote, Sync>>}
  <2>1. todo' = Tail(todo)
    BY OperatorFrame
  <2>2. CASE todo = <<Unmark, Sync>>
    BY <2>1, <2>2, Parted
  <2>3. CASE todo = <<Unmark, Sync, Unnote, Sync>>
    BY <2>1, <2>3, Parted
  <2> QED
    BY <2>2, <2>3
<1>3. /\ UNCHANGED <<synced, fw, ended, handed, tries, exposed, trials, served>>
      /\ store'.attempted = None
      /\ store'.staged = store.staged /\ store'.proven = store.proven
  BY <1>2, OperatorFrame, AttemptedWrites DEF Unmark
<1>4. PowerInv' /\ TrialInv' /\ DocInv' /\ FirstInv' /\ HandInv' /\ LandInv'
  BY <1>1, <1>3 DEF PowerInv, TrialInv, DocInv, FirstInv, HandInv, LandInv, RebootsLandOnProven, UpdaterComesBack, Away
<1>5. \A r : todo # <<<<"proven", r>>, Sync>>
  BY DEF Sync, Unnote, Unmark
<1>6. TodoInv'
  BY <1>1, <1>2, <1>3, <1>5 DEF TodoInv, ProvesFirst
<1>7. PlanInv'
  BY <1>1, <1>3 DEF PlanInv, UpPlan, Heals, Lead, Aim
<1>8. OrderInv'
  BY <1>1, <1>3 DEF OrderInv, Strays, IsTorn
<1>9. MarkInv'
  BY <1>1, <1>3 DEF MarkInv, Marked
<1>10. OnceInv'
  BY <1>1, <1>3 DEF OnceInv, Unproven, IsTorn, Away
<1> QED
  BY <1>4, <1>6, <1>7, <1>8, <1>9, <1>10

\* The operator withdraws the staged record.
LEMMA OperatorUnstages ==
    ASSUME TypeOK, IInv, OperatorWrites, Unstages, store.staged # None
    PROVE  IInv'
<1> USE DEF IInv, documents, history
<1>1. /\ power = "up" /\ power' = "up"
      /\ UNCHANGED <<disk, dirty, running, kept, trial, sees, keep, plan, pass, fetch, forgets>>
  BY OperatorFrame
<1>2. Head(todo) = Unstage /\ todo' \in {<<Unmark, Sync>>, <<Unmark, Sync, Unnote, Sync>>}
  <2>1. todo' = Tail(todo)
    BY OperatorFrame
  <2>2. CASE todo = <<Unstage, Unmark, Sync>>
    BY <2>1, <2>2, Parted
  <2>3. CASE todo = <<Unstage, Unmark, Sync, Unnote, Sync>>
    BY <2>1, <2>3, Parted
  <2> QED
    BY <2>2, <2>3 DEF Unstages
<1>3. /\ UNCHANGED <<synced, fw, ended, handed, tries, exposed, served, stale>>
      /\ store'.staged = None
      /\ store'.proven = store.proven /\ store'.attempted = store.attempted /\ trials' = 0
  BY <1>2, OperatorFrame, StagedWrites DEF Unstage
<1>4. PowerInv' /\ TrialInv' /\ DocInv' /\ FirstInv' /\ HandInv' /\ LandInv'
  BY <1>1, <1>3 DEF PowerInv, TrialInv, DocInv, FirstInv, HandInv, LandInv, RebootsLandOnProven, UpdaterComesBack, Away
<1>5. \A r : todo # <<<<"proven", r>>, Sync>>
  BY DEF Sync, Unstage, Unstages
<1>6. TodoInv' /\ Unmarks'
  BY <1>1, <1>2, <1>3, <1>5 DEF TodoInv, ProvesFirst, Unmarks
<1>7. PlanInv'
  BY <1>1, <1>3 DEF PlanInv, UpPlan, Heals, Lead, Aim
<1>8. OrderInv'
  BY <1>1, <1>3 DEF OrderInv, Strays, IsTorn
<1>9. MarkInv'
  BY <1>1, <1>3, <1>6 DEF MarkInv, Marked
<1>10. OnceInv'
  BY <1>1, <1>3 DEF OnceInv, Unproven, IsTorn, Away
<1> QED
  BY <1>4, <1>6, <1>7, <1>8, <1>9, <1>10

\* The operator promotes the record that this boot proved.
LEMMA OperatorPromotes ==
    ASSUME TypeOK, IInv, OperatorWrites, Promotes, ~IsTorn(running)
    PROVE  IInv'
<1> USE DEF IInv, documents, history
<1>1. /\ power = "up" /\ power' = "up"
      /\ UNCHANGED <<disk, dirty, running, kept, trial, sees, keep, plan, pass, fetch, forgets>>
  BY OperatorFrame
<1>2. /\ Head(todo) = <<"promote", store.staged>> /\ todo' = <<Unnote, Unmark, Sync>>
      /\ store.staged # None /\ store.staged.slot = running
  BY OperatorFrame DEF Promotes
<1>3. /\ UNCHANGED <<synced, fw, ended, handed, tries, exposed, stale>>
      /\ store'.staged = None /\ store'.proven = store.staged
      /\ store'.attempted = store.attempted /\ trials' = 0
      /\ served' = IF store.staged = store.proven THEN served ELSE store.staged
  BY <1>2, OperatorFrame, PromoteWrites
<1>4. /\ tries /\ trial = store.staged /\ synced.staged = store.staged /\ ~sees
      /\ store.proven # None /\ synced.proven # None
  BY <1>1, <1>2 DEF TrialInv, DocInv, Away
<1>5. plan = <<>>
  BY <1>1, <1>2, <1>4 DEF PlanInv, UpPlan
<1>6. PowerInv' /\ TrialInv' /\ DocInv' /\ FirstInv' /\ HandInv' /\ LandInv'
  BY <1>1, <1>2, <1>3, <1>4
     DEF PowerInv, TrialInv, DocInv, FirstInv, HandInv, LandInv, RebootsLandOnProven, UpdaterComesBack, Away
<1>7. TodoInv' /\ Unmarks'
  BY <1>1, <1>2, <1>3 DEF TodoInv, Unmarks
<1>8. PlanInv'
  BY <1>1, <1>5 DEF PlanInv, UpPlan
<1>9. OrderInv'
  BY <1>1, <1>3, <1>4 DEF OrderInv, Strays, IsTorn
<1>10. MarkInv'
  BY <1>1, <1>3, <1>7 DEF MarkInv, Marked
<1>11. OnceInv'
  <2> SUFFICES ASSUME ~exposed, forgets = None PROVE OnceInv'
    BY <1>1, <1>3 DEF OnceInv
  <2>1. served' = store.staged
    BY <1>2, <1>3 DEF OnceInv
  <2> QED
    BY <1>1, <1>2, <1>3, <1>4, <2>1 DEF OnceInv, Unproven, IsTorn, Away
<1> QED
  BY <1>6, <1>7, <1>8, <1>9, <1>10, <1>11

\* The operator records the first release that serves.
LEMMA OperatorProves ==
    ASSUME TypeOK, IInv, OperatorWrites, NEW r \in Record, ProvesFirst(r), ~IsTorn(running)
    PROVE  IInv'
<1> USE DEF IInv, documents, history
<1>1. /\ power = "up" /\ power' = "up"
      /\ UNCHANGED <<disk, dirty, running, kept, trial, sees, keep, plan, pass, fetch, forgets>>
  BY OperatorFrame
<1>2. /\ Head(todo) = <<"proven", r>> /\ todo' = <<Sync>>
      /\ r.slot = running /\ store.proven = None /\ r # None
  BY OperatorFrame, Kinds DEF ProvesFirst
<1>3. /\ UNCHANGED <<synced, fw, ended, handed, tries, exposed, trials, stale>>
      /\ store'.staged = store.staged /\ store'.proven = r
      /\ store'.attempted = store.attempted /\ served' = r
  BY <1>2, OperatorFrame, ProvenWrites
<1>4. store.staged = None /\ synced.staged = None /\ synced.proven = None /\ ~sees
  BY <1>1, <1>2 DEF DocInv, TrialInv, Away
<1>5. plan = <<>>
  BY <1>1, <1>2 DEF PlanInv, UpPlan
<1>6. PowerInv' /\ TrialInv' /\ DocInv' /\ FirstInv' /\ HandInv' /\ LandInv'
  BY <1>1, <1>2, <1>3, <1>4
     DEF PowerInv, TrialInv, DocInv, FirstInv, HandInv, LandInv, RebootsLandOnProven, UpdaterComesBack, Away
<1>7. TodoInv'
  BY <1>1, <1>2, <1>3 DEF TodoInv
<1>8. PlanInv'
  BY <1>1, <1>5 DEF PlanInv, UpPlan
<1>9. OrderInv'
  BY <1>1, <1>2, <1>3, <1>4, OtherFacts DEF OrderInv, Strays, IsTorn, FirstInv
<1>10. MarkInv'
  <2>1. ~Unmarks
    BY DEF Unmarks, Unnote, Unmark, Sync, ProvesFirst
  <2> QED
    BY <1>1, <1>3, <1>4, <2>1 DEF MarkInv, Marked
<1>11. OnceInv'
  BY <1>1, <1>2, <1>3, <1>4 DEF OnceInv, Unproven, IsTorn, Away
<1> QED
  BY <1>6, <1>7, <1>8, <1>9, <1>10, <1>11

\* The operator stages a verified release.
LEMMA OperatorStages ==
    ASSUME TypeOK, IInv, OperatorWrites, NEW r \in Record, Stages(r), ~IsTorn(running)
    PROVE  IInv'
<1> USE DEF IInv, documents, history
<1>1. /\ power = "up" /\ power' = "up"
      /\ UNCHANGED <<disk, dirty, running, kept, trial, sees, keep, plan, pass, fetch, forgets>>
  BY OperatorFrame
<1>2. /\ Head(todo) = <<"staged", r>> /\ todo' = <<Sync>>
      /\ r.slot = Other(running) /\ store.staged = None /\ store.proven # None /\ fetch.ask # None /\ r # None
  BY OperatorFrame, Kinds DEF Stages
<1>3. /\ UNCHANGED <<synced, fw, ended, handed, tries, exposed, served, stale>>
      /\ store'.staged = r /\ store'.proven = store.proven
      /\ store'.attempted = store.attempted /\ trials' = 0
  BY <1>2, OperatorFrame, StagedWrites
<1>4. r.slot # running /\ \A s \in Slots : s = running \/ s = r.slot
  BY <1>2, Kinds, OtherFacts
<1>5. PowerInv' /\ TrialInv' /\ DocInv' /\ FirstInv' /\ HandInv' /\ LandInv'
  BY <1>1, <1>2, <1>3, <1>4
     DEF PowerInv, TrialInv, DocInv, FirstInv, HandInv, LandInv, RebootsLandOnProven, UpdaterComesBack, Away
<1>6. TodoInv'
  BY <1>1, <1>2, <1>3 DEF TodoInv
<1>7. PlanInv'
  BY <1>1, <1>3 DEF PlanInv, UpPlan, Heals, Lead, Aim
<1>8. forgets = None /\ (tries \/ store.proven.slot = running) => fw.next # r.slot
  BY <1>1, <1>2 DEF OrderInv
<1>9. forgets = None /\ ~tries => fw.order = store.proven.slot
  BY <1>1, <1>2 DEF OrderInv
<1>10. OrderInv'
  <2> SUFFICES ASSUME forgets = None PROVE OrderInv'
    BY <1>1 DEF OrderInv
  <2>1. ASSUME NEW d \in {store', synced'}, Strays(d)'
        PROVE  fw.next # d.staged.slot /\ ~IsTorn(fw.order) /\ running = fw.order
    <3>1. CASE d = synced
      BY <1>1, <1>3, <2>1, <3>1 DEF OrderInv, Strays
    <3>2. CASE d = store'
      <4>1. store.proven.slot = r.slot /\ fw.order # r.slot
        BY <1>2, <1>3, <2>1, <3>2 DEF Strays
      <4>2. tries /\ fw.order = running
        BY <1>4, <1>9, <4>1, Kinds
      <4> QED
        BY <1>3, <1>8, <3>2, <4>2
    <3> QED
      BY <1>3, <2>1, <3>1, <3>2
  <2> QED
    BY <1>1, <1>3, <2>1 DEF OrderInv, IsTorn
<1>11. MarkInv'
  <2>1. ~Unmarks
    BY DEF Unmarks, Unnote, Unmark, Sync, Stages
  <2>2. store.attempted # None => stale
    BY <1>1, <1>2, <2>1 DEF MarkInv
  <2> QED
    BY <1>2, <1>3, <2>2 DEF MarkInv, Marked
<1>12. OnceInv'
  <2> SUFFICES ASSUME ~exposed, forgets = None PROVE OnceInv'
    BY <1>1, <1>3 DEF OnceInv
  <2>1. /\ fw.order = running /\ store.proven.slot = running /\ fw.next # r.slot
    BY <1>2, <1>8 DEF OnceInv
  <2> QED
    BY <1>1, <1>2, <1>3, <1>4, <2>1 DEF OnceInv, Unproven, IsTorn, Away
<1> QED
  BY <1>5, <1>6, <1>7, <1>10, <1>11, <1>12

\* Every write of the operator.
LEMMA TodoStep ==
    ASSUME TypeOK, IInv, OperatorWrites
    PROVE  IInv'
<1>1. todo # <<>> /\ TodoInv
  BY DEF OperatorWrites, IInv
<1>2. CASE todo \in {<<Sync>>, <<Sync, Unnote, Sync>>}
  BY <1>2, OperatorSyncs
<1>3. CASE todo = <<Unnote, Sync>>
  BY <1>3, OperatorUnnotes
<1>4. CASE Unmarks /\ store.staged = None
  BY <1>4, OperatorUnnotes, OperatorUnmarks DEF Unmarks
<1>5. CASE Unstages /\ store.staged # None
  BY <1>5, OperatorUnstages
<1>6. CASE Promotes /\ ~IsTorn(running)
  BY <1>6, OperatorPromotes
<1>7. CASE \E r \in Record : (ProvesFirst(r) \/ Stages(r)) /\ ~IsTorn(running)
  BY <1>7, OperatorProves, OperatorStages
<1> QED
  BY <1>1, <1>2, <1>3, <1>4, <1>5, <1>6, <1>7 DEF TodoInv

-----------------------------------------------------------------------------
\* What init writes.

\* While init has something to write, the machine runs; a write takes the head of the
\* sequence and leaves everything outside the documents and the firmware alone.
LEMMA InitFrame ==
    ASSUME TypeOK, IInv, InitWrites
    PROVE  /\ ~Away /\ ~Away' /\ Write(Head(plan)) /\ plan' = Tail(plan) /\ plan # <<>>
           /\ UNCHANGED <<power, disk, dirty, running, kept, trial, sees, keep, todo, pass, fetch, forgets,
                          ended, handed, tries, exposed>>
           /\ power \in {"settling", "up", "stopping", "turned"}
  BY DEF InitWrites, operator, world, IInv, PowerInv, Away, Write, TypeOK

\* When init has something to write, where the machine is and what it is.
LEMMA PlanPhases ==
    ASSUME TypeOK, IInv, ~Away, plan # <<>>
    PROVE  \/ /\ power = "settling" /\ ~tries /\ trial = None /\ store.proven # None
              /\ \/ Rejects /\ store.staged # None
                 \/ plan \in {<<Unmark, Sync, Lead, Aim>>, <<Sync, Lead, Aim>>} /\ store.staged = None
                 \/ Heals
           \/ /\ power \in {"up", "stopping"} /\ tries /\ trial = None /\ store.proven # None
              /\ store.proven.slot = running /\ Heals
           \/ power = "turned" /\ handed # "no" /\ store.proven # None /\ plan = <<Lead>>
           \/ power = "turned" /\ handed = "no" /\ store.proven = None /\ plan = <<<<"next", None>>>>
           \/ power = "turned" /\ handed = "no" /\ store.proven # None /\ (Heals \/ (Arms /\ Armable))
<1>1. power = "settling" => SettlingPlan
  BY DEF IInv, PlanInv
<1>2. power \in {"up", "stopping"} => UpPlan
  BY DEF IInv, PlanInv
<1>3. power = "turned" => TurnedPlan /\ (handed # "no" => store.proven # None)
  BY DEF IInv, PlanInv, HandInv
<1>4. ~tries => trial = None
  BY DEF IInv, TrialInv
<1>5. power \in {"settling", "up", "stopping", "turned"}
  BY DEF Away, TypeOK
<1> QED
  BY <1>1, <1>2, <1>3, <1>4, <1>5 DEF SettlingPlan, UpPlan, TurnedPlan

\* The records whose slot the proven slot is not: those that the standing order and the
\* one-shot may not name.
LEMMA OtherSlots ==
    ASSUME TypeOK, IInv, ~Away, store.proven # None
    PROVE  /\ \A d \in {store, synced} : ~exposed /\ forgets = None /\ Unproven(d) => d.staged.slot # store.proven.slot
           /\ \A d \in {store, synced} :
                d.staged # None /\ d.proven # None /\ d.staged.slot = d.proven.slot => store.proven.slot = d.staged.slot
<1> USE DEF IInv
<1>1. store.proven # synced.proven =>
        /\ served = store.proven
        /\ synced.proven # None => synced.staged = store.proven
  BY DEF DocInv
<1>2. \A d \in {store, synced} : d.staged # None => d.proven # None
  BY DEF DocInv
<1>3. ASSUME NEW d \in {store, synced}, ~exposed, forgets = None, Unproven(d)
      PROVE  d.staged.slot # store.proven.slot
  <2>1. d.staged # None /\ d.proven # None /\ d.staged.slot # d.proven.slot /\ served # d.staged
    BY <1>2, <1>3 DEF OnceInv, Unproven
  <2>2. CASE d.proven = store.proven
    BY <2>1, <2>2
  <2>3. CASE d.proven # store.proven
    <3>1. d = synced /\ store.proven # synced.proven
      BY <2>3
    <3> QED
      BY <1>1, <2>1, <3>1
  <2> QED
    BY <2>2, <2>3
<1>4. ASSUME NEW d \in {store, synced}, d.staged # None, d.proven # None, d.staged.slot = d.proven.slot
      PROVE  store.proven.slot = d.staged.slot
  <2>1. CASE d.proven = store.proven
    BY <1>4, <2>1
  <2>2. CASE d.proven # store.proven
    <3>1. d = synced /\ store.proven # synced.proven
      BY <2>2
    <3> QED
      BY <1>1, <1>4, <3>1
  <2> QED
    BY <2>1, <2>2
<1> QED
  BY <1>3, <1>4

\* Init puts the proven slot at the head of BootOrder.
LEMMA InitLeads ==
    ASSUME TypeOK, IInv, InitWrites, store.proven # None,
           plan \in {<<Lead>>, <<Lead, Aim>>, <<Lead, Aim, Mark, Sync, Arm>>}
    PROVE  IInv'
<1> USE DEF IInv, documents, history
<1>1. /\ ~Away /\ ~Away'
      /\ UNCHANGED <<power, disk, dirty, running, kept, trial, sees, keep, todo, pass, fetch, forgets,
                     ended, handed, tries, exposed>>
  BY InitFrame
<1>2. Head(plan) = Lead /\ Write(Lead)
  BY InitFrame, Parted
<1>3. UNCHANGED <<documents, history>> /\ fw'.order = store.proven.slot /\ fw'.next = fw.next
  BY <1>2, FirmwareWrites DEF Lead
<1>4. /\ plan = <<Lead>> => plan' = <<>>
      /\ plan = <<Lead, Aim>> => plan' = <<Aim>>
      /\ plan = <<Lead, Aim, Mark, Sync, Arm>> => plan' = <<Aim, Mark, Sync, Arm>>
  <2>1. plan' = Tail(plan)
    BY InitFrame
  <2>2. plan = <<Lead>> => plan' = <<>>
    BY <2>1, Parted
  <2>3. plan = <<Lead, Aim>> => plan' = <<Aim>>
    BY <2>1, Parted
  <2>4. plan = <<Lead, Aim, Mark, Sync, Arm>> => plan' = <<Aim, Mark, Sync, Arm>>
    BY <2>1, Parted
  <2> QED
    BY <2>2, <2>3, <2>4
<1>5. /\ ~Rejects /\ Head(<<Unmark, Sync, Lead, Aim>>) # Lead /\ plan # <<>>
      /\ plan # <<Unmark, Sync, Lead, Aim>> /\ plan # <<Sync, Lead, Aim>>
      /\ plan # <<Sync, Arm>> /\ plan # <<Arm>> /\ plan # <<Aim>>
  BY DEF Rejects, Lead, Aim, Unmark, Unstage, Sync, Arm, Mark
<1>6. \/ power = "settling" /\ ~tries /\ trial = None /\ plan = <<Lead, Aim>>
      \/ power \in {"up", "stopping"} /\ tries /\ trial = None /\ store.proven.slot = running /\ plan = <<Lead, Aim>>
      \/ power = "turned" /\ handed # "no" /\ plan = <<Lead>>
      \/ power = "turned" /\ handed = "no" /\ plan = <<Lead, Aim>>
      \/ power = "turned" /\ handed = "no" /\ Armable /\ plan = <<Lead, Aim, Mark, Sync, Arm>>
  <2>1. Arms => plan = <<Lead, Aim, Mark, Sync, Arm>>
    BY DEF Arms, Lead, Aim, Mark, Sync, Arm
  <2> QED
    BY <1>1, <1>5, <2>1, PlanPhases DEF Heals
<1>7. PowerInv' /\ TrialInv' /\ TodoInv' /\ DocInv' /\ FirstInv' /\ LandInv'
  BY <1>1, <1>3, <1>6 DEF PowerInv, TrialInv, TodoInv, Unmarks, Unstages, Promotes, ProvesFirst, Stages, IsTorn, Away,
     DocInv, FirstInv, LandInv, RebootsLandOnProven, UpdaterComesBack
<1>8. HandInv'
  BY <1>1, <1>3 DEF HandInv
<1>9. PlanInv'
  BY <1>1, <1>3, <1>4, <1>6
     DEF PlanInv, SettlingPlan, UpPlan, TurnedPlan, Heals, Arms, Armable, Lead, Aim, Mark, Arm, IsTorn
<1>10. OrderInv'
  BY <1>1, <1>3, <1>6, OtherSlots DEF OrderInv, Strays, IsTorn, Away
<1>11. MarkInv'
  BY <1>1, <1>3, <1>5 DEF MarkInv, Marked, Away, IsTorn, Unmarks
<1>12. OnceInv'
  BY <1>1, <1>3, <1>5, OtherSlots DEF OnceInv, Unproven, IsTorn, Away
<1> QED
  BY <1>7, <1>8, <1>9, <1>10, <1>11, <1>12

\* Init aims BootNext at the proven slot.
LEMMA InitAims ==
    ASSUME TypeOK, IInv, InitWrites, store.proven # None, fw.order = store.proven.slot,
           plan \in {<<Aim>>, <<Aim, Mark, Sync, Arm>>}
    PROVE  IInv'
<1> USE DEF IInv, documents, history
<1>1. /\ ~Away /\ ~Away'
      /\ UNCHANGED <<power, disk, dirty, running, kept, trial, sees, keep, todo, pass, fetch, forgets,
                     ended, handed, tries, exposed>>
  BY InitFrame
<1>2. Head(plan) = Aim /\ Write(Aim)
  BY InitFrame, Parted
<1>3. UNCHANGED <<documents, history>> /\ fw'.next = store.proven.slot /\ fw'.order = fw.order
  BY <1>2, FirmwareWrites DEF Aim
<1>4. /\ plan = <<Aim>> => plan' = <<>>
      /\ plan = <<Aim, Mark, Sync, Arm>> => plan' = <<Mark, Sync, Arm>>
  <2>1. plan' = Tail(plan)
    BY InitFrame
  <2>2. plan = <<Aim>> => plan' = <<>>
    BY <2>1, Parted
  <2>3. plan = <<Aim, Mark, Sync, Arm>> => plan' = <<Mark, Sync, Arm>>
    BY <2>1, Parted
  <2> QED
    BY <2>2, <2>3
<1>5. /\ ~Rejects /\ plan # <<>>
      /\ plan # <<Unmark, Sync, Lead, Aim>> /\ plan # <<Sync, Lead, Aim>>
      /\ plan # <<Sync, Arm>> /\ plan # <<Lead>> /\ plan # <<Lead, Aim>>
      /\ plan = <<Arm>> => ~Armable
  <2>1. Aim # <<"note", store.staged>> /\ Aim # Sync /\ Aim # Unstage /\ Aim # Unmark /\ Aim # Lead
    BY DEF Lead, Aim, Unmark, Unstage, Sync
  <2>2. plan[1] = Aim
    OBVIOUS
  <2>3. ~Rejects
    BY <2>1, <2>2 DEF Rejects
  <2>4. /\ plan # <<Unmark, Sync, Lead, Aim>> /\ plan # <<Sync, Lead, Aim>> /\ plan # <<Sync, Arm>>
        /\ plan # <<Lead>> /\ plan # <<Lead, Aim>>
    BY <2>1, <2>2
  <2>5. plan = <<Arm>> => ~Armable
    BY <2>2 DEF Armable, Aim, Arm
  <2>6. plan # <<>>
    BY <2>2
  <2> QED
    BY <2>3, <2>4, <2>5, <2>6
<1>6. \/ power = "settling" /\ ~tries /\ trial = None /\ plan = <<Aim>>
      \/ power \in {"up", "stopping"} /\ tries /\ trial = None /\ store.proven.slot = running /\ plan = <<Aim>>
      \/ power = "turned" /\ handed = "no" /\ plan = <<Aim>>
      \/ power = "turned" /\ handed = "no" /\ Armable /\ plan = <<Aim, Mark, Sync, Arm>>
  BY <1>1, <1>5, PlanPhases DEF Heals
<1>7. PowerInv' /\ TrialInv' /\ TodoInv' /\ DocInv' /\ LandInv'
  BY <1>1, <1>3 DEF PowerInv, TrialInv, TodoInv, Unmarks, Unstages, Promotes, ProvesFirst, Stages, IsTorn, Away,
     DocInv, LandInv, RebootsLandOnProven, UpdaterComesBack
<1>8. FirstInv' /\ HandInv'
  BY <1>1, <1>3, <1>6 DEF FirstInv, HandInv
<1>9. PlanInv'
  <2>1. fw' = [next |-> store.proven.slot, order |-> store.proven.slot]
    BY <1>3, TypeStep DEF TypeOK, Next
  <2> QED
    BY <1>1, <1>3, <1>4, <1>6, <2>1
       DEF PlanInv, SettlingPlan, UpPlan, TurnedPlan, Aimed, Heals, Arms, Armable, Lead, Aim, Mark, Arm, IsTorn
<1>10. OrderInv'
  BY <1>1, <1>3, <1>6, OtherSlots, Kinds, OtherFacts DEF OrderInv, Strays, IsTorn, Away
<1>11. MarkInv'
  BY <1>1, <1>3, <1>5, <1>6 DEF MarkInv, Marked, Away, IsTorn, Unmarks
<1>12. OnceInv'
  BY <1>1, <1>3, <1>5, OtherSlots DEF OnceInv, Unproven, IsTorn, Away
<1> QED
  BY <1>7, <1>8, <1>9, <1>10, <1>11, <1>12

\* Init drops the one-shot of a machine that has no proven slot.
LEMMA InitDrops ==
    ASSUME TypeOK, IInv, InitWrites, power = "turned", handed = "no", store.proven = None, plan = <<<<"next", None>>>>
    PROVE  IInv'
<1> USE DEF IInv, documents, history
<1>1. /\ ~Away /\ ~Away'
      /\ UNCHANGED <<power, disk, dirty, running, kept, trial, sees, keep, todo, pass, fetch, forgets,
                     ended, handed, tries, exposed>>
  BY InitFrame
<1>2. Head(plan) = <<"next", None>> /\ plan' = <<>> /\ Write(<<"next", None>>)
  BY InitFrame, Parted
<1>3. UNCHANGED <<documents, history>> /\ fw'.next = None /\ fw'.order = fw.order
  BY <1>2, FirmwareWrites
<1>4. store.staged = None /\ synced.staged = None
  BY DEF DocInv
<1>5. PowerInv' /\ TrialInv' /\ TodoInv' /\ DocInv' /\ LandInv'
  BY <1>1, <1>3 DEF PowerInv, TrialInv, TodoInv, Unmarks, Unstages, Promotes, ProvesFirst, Stages, IsTorn, Away,
     DocInv, LandInv, RebootsLandOnProven, UpdaterComesBack
<1>6. None # "B"
  BY Kinds DEF Slots
<1>7. FirstInv' /\ HandInv' /\ PlanInv'
  BY <1>1, <1>2, <1>3, <1>6 DEF FirstInv, HandInv, PlanInv, TurnedPlan
<1>8. OrderInv' /\ MarkInv' /\ OnceInv'
  BY <1>1, <1>3, <1>4 DEF OrderInv, Strays, MarkInv, Marked, OnceInv, Unproven, IsTorn, Away
<1> QED
  BY <1>5, <1>7, <1>8

\* Init writes the attempt marker of the trial that it arms.
LEMMA InitMarks ==
    ASSUME TypeOK, IInv, InitWrites, power = "turned", handed = "no", store.proven # None, Armable,
           plan = <<Mark, Sync, Arm>>
    PROVE  IInv'
<1> USE DEF IInv, documents, history
<1>1. /\ ~Away /\ ~Away'
      /\ UNCHANGED <<power, disk, dirty, running, kept, trial, sees, keep, todo, pass, fetch, forgets,
                     ended, handed, tries, exposed>>
  BY InitFrame
<1>2. Head(plan) = Mark /\ plan' = <<Sync, Arm>> /\ Write(Mark)
  BY InitFrame, Parted
<1>3. /\ UNCHANGED <<synced, fw, trials, served>>
      /\ store'.staged = store.staged /\ store'.proven = store.proven /\ store'.attempted = store.staged
  BY <1>2, AttemptedWrites DEF Mark
<1>4. PowerInv' /\ TrialInv' /\ DocInv' /\ LandInv' /\ FirstInv'
  BY <1>1, <1>3 DEF PowerInv, TrialInv, Away, DocInv, FirstInv, LandInv, RebootsLandOnProven, UpdaterComesBack
<1>5. TodoInv'
  BY <1>1, <1>3 DEF TodoInv, PowerInv, Away, Unmarks, Unstages, Promotes, ProvesFirst, Stages, IsTorn
<1>6. HandInv'
  BY <1>1, <1>3 DEF HandInv
<1>7. Armable' /\ Marked'
  BY <1>1, <1>3 DEF Armable, Marked, IsTorn
<1>8. PlanInv' /\ MarkInv'
  BY <1>1, <1>2, <1>3, <1>7 DEF PlanInv, TurnedPlan, Arms, Arm, MarkInv, Armable
<1>9. OrderInv' /\ OnceInv'
  BY <1>1, <1>3 DEF OrderInv, Strays, OnceInv, Unproven, IsTorn, Away
<1> QED
  BY <1>4, <1>5, <1>6, <1>8, <1>9

\* Init syncs the attempt marker, and then only arms the one-shot.
LEMMA InitSyncsTheMark ==
    ASSUME TypeOK, IInv, InitWrites, power = "turned", handed = "no", store.proven # None, Armable, Marked,
           plan = <<Sync, Arm>>
    PROVE  IInv'
<1> USE DEF IInv, documents, history
<1>1. /\ ~Away /\ ~Away'
      /\ UNCHANGED <<power, disk, dirty, running, kept, trial, sees, keep, todo, pass, fetch, forgets,
                     ended, handed, tries, exposed>>
  BY InitFrame
<1>2. Head(plan) = Sync /\ plan' = <<Arm>> /\ Write(Sync)
  BY InitFrame, Parted
<1>3. UNCHANGED <<store, fw, history>> /\ synced' = store
  BY <1>2, SyncWrites
<1>4. PowerInv' /\ TrialInv' /\ DocInv' /\ LandInv' /\ FirstInv'
  BY <1>1, <1>3 DEF PowerInv, TrialInv, Away, DocInv, FirstInv, LandInv, RebootsLandOnProven, UpdaterComesBack
<1>5. TodoInv' /\ HandInv'
  BY <1>1, <1>3 DEF TodoInv, PowerInv, Away, Unmarks, Unstages, Promotes, ProvesFirst, Stages, IsTorn, HandInv
<1>6. Armable' /\ Marked'
  BY <1>1, <1>3 DEF Armable, Marked, IsTorn
<1>7. PlanInv' /\ MarkInv'
  BY <1>1, <1>2, <1>3, <1>6 DEF PlanInv, TurnedPlan, Arms, Arm, MarkInv, Armable
<1>8. OrderInv' /\ OnceInv'
  BY <1>1, <1>3 DEF OrderInv, Strays, OnceInv, Unproven, IsTorn, Away
<1> QED
  BY <1>4, <1>5, <1>7, <1>8

\* Init arms the one-shot, last.
LEMMA InitArms ==
    ASSUME TypeOK, IInv, InitWrites, power = "turned", handed = "no", store.proven # None, Armable, Marked,
           synced = store, plan = <<Arm>>
    PROVE  IInv'
<1> USE DEF IInv, documents, history
<1>1. /\ ~Away /\ ~Away'
      /\ UNCHANGED <<power, disk, dirty, running, kept, trial, sees, keep, todo, pass, fetch, forgets,
                     ended, handed, tries, exposed>>
  BY InitFrame
<1>2. Head(plan) = Arm /\ plan' = <<>> /\ Write(Arm)
  BY InitFrame, Parted
<1>3. UNCHANGED <<documents, history>> /\ fw'.next = store.staged.slot /\ fw'.order = fw.order
  BY <1>2, FirmwareWrites DEF Arm
<1>4. PowerInv' /\ TrialInv' /\ DocInv' /\ LandInv' /\ FirstInv'
  BY <1>1, <1>3 DEF PowerInv, TrialInv, Away, DocInv, FirstInv, LandInv, RebootsLandOnProven, UpdaterComesBack
<1>5. TodoInv' /\ HandInv'
  BY <1>1, <1>3 DEF TodoInv, PowerInv, Away, Unmarks, Unstages, Promotes, ProvesFirst, Stages, IsTorn, HandInv
<1>6. Armable' /\ Marked' /\ Aimed'
  BY <1>1, <1>3 DEF Armable, Marked, IsTorn, Aimed
<1>7. PlanInv' /\ MarkInv'
  BY <1>1, <1>2, <1>3, <1>6 DEF PlanInv, TurnedPlan, MarkInv, Armable, IsTorn
<1>8. OrderInv'
  BY <1>1, <1>3 DEF OrderInv, Strays, IsTorn, Armable
<1>9. OnceInv'
  <2> SUFFICES ASSUME ~exposed, forgets = None PROVE OnceInv'
    BY <1>1 DEF OnceInv
  <2>1. served # store.staged => trials = 0
    BY <1>1 DEF OnceInv, Armable, TypeOK
  <2> QED
    BY <1>1, <1>3, <2>1 DEF OnceInv, Unproven, IsTorn, Away, Armable, Marked
<1> QED
  BY <1>4, <1>5, <1>7, <1>8, <1>9

\* While the machine settles, init records the rejection of the trial that fell back.
LEMMA InitNotes ==
    ASSUME TypeOK, IInv, InitWrites, power = "settling", ~tries, store.proven # None, store.staged # None,
           plan = <<<<"note", store.staged>>, Sync, Unstage, Unmark, Sync, Lead, Aim>>
    PROVE  IInv'
<1> USE DEF IInv, documents, history
<1>1. /\ ~Away /\ ~Away'
      /\ UNCHANGED <<power, disk, dirty, running, kept, trial, sees, keep, todo, pass, fetch, forgets,
                     ended, handed, tries, exposed>>
  BY InitFrame
<1>2. /\ Head(plan) = <<"note", store.staged>> /\ Write(<<"note", store.staged>>)
      /\ plan' = <<Sync, Unstage, Unmark, Sync, Lead, Aim>>
  BY InitFrame, Parted
<1>3. /\ UNCHANGED <<synced, fw, history>>
      /\ store'.staged = store.staged /\ store'.proven = store.proven /\ store'.attempted = store.attempted
  BY <1>2, NoteWrites
<1>4. PowerInv' /\ TrialInv' /\ DocInv' /\ LandInv' /\ FirstInv'
  BY <1>1, <1>3 DEF PowerInv, TrialInv, Away, DocInv, FirstInv, LandInv, RebootsLandOnProven, UpdaterComesBack
<1>5. TodoInv' /\ HandInv'
  BY <1>1, <1>3 DEF TodoInv, PowerInv, Away, Unmarks, Unstages, Promotes, ProvesFirst, Stages, IsTorn, HandInv
<1>6. Rejects'
  BY <1>2, <1>3 DEF Rejects, Lead, Aim
<1>7. PlanInv' /\ MarkInv'
  BY <1>1, <1>3, <1>6 DEF PlanInv, SettlingPlan, MarkInv, Marked
<1>8. OrderInv'
  BY <1>1, <1>3 DEF OrderInv, Strays, IsTorn
<1>9. OnceInv'
  BY <1>1, <1>3, <1>6 DEF OnceInv, Unproven, IsTorn, Away
<1> QED
  BY <1>4, <1>5, <1>7, <1>8, <1>9

\* While the machine settles, init syncs what it wrote of a rejection.
LEMMA InitSyncs ==
    ASSUME TypeOK, IInv, InitWrites, power = "settling", ~tries, store.proven # None,
           \/ store.staged # None /\ plan = <<Sync, Unstage, Unmark, Sync, Lead, Aim>>
           \/ store.staged = None /\ plan = <<Sync, Lead, Aim>>
    PROVE  IInv'
<1> USE DEF IInv, documents, history
<1>1. /\ ~Away /\ ~Away'
      /\ UNCHANGED <<power, disk, dirty, running, kept, trial, sees, keep, todo, pass, fetch, forgets,
                     ended, handed, tries, exposed>>
  BY InitFrame
<1>2. /\ Head(plan) = Sync /\ Write(Sync)
      /\ \/ store.staged # None /\ plan' = <<Unstage, Unmark, Sync, Lead, Aim>>
         \/ store.staged = None /\ plan' = <<Lead, Aim>>
  <2>1. plan' = Tail(plan) /\ Write(Head(plan))
    BY InitFrame
  <2>2. CASE store.staged # None /\ plan = <<Sync, Unstage, Unmark, Sync, Lead, Aim>>
    BY <2>1, <2>2, Parted
  <2>3. CASE store.staged = None /\ plan = <<Sync, Lead, Aim>>
    BY <2>1, <2>3, Parted
  <2> QED
    BY <2>2, <2>3
<1>3. UNCHANGED <<store, fw, history>> /\ synced' = store
  BY <1>2, SyncWrites
<1>4. PowerInv' /\ TrialInv' /\ DocInv' /\ LandInv' /\ FirstInv'
  BY <1>1, <1>3 DEF PowerInv, TrialInv, Away, DocInv, FirstInv, LandInv, RebootsLandOnProven, UpdaterComesBack
<1>5. TodoInv' /\ HandInv'
  BY <1>1, <1>3 DEF TodoInv, PowerInv, Away, Unmarks, Unstages, Promotes, ProvesFirst, Stages, IsTorn, HandInv
<1>6. store.staged # None => Rejects'
  BY <1>2, <1>3 DEF Rejects, Lead, Aim
<1>7. PlanInv'
  BY <1>1, <1>2, <1>3, <1>6 DEF PlanInv, SettlingPlan, Heals, Lead, Aim
<1>8. MarkInv'
  <2>1. store.staged = None => plan # <<Unmark, Sync, Lead, Aim>>
    BY DEF Unmark, Sync, Lead, Aim
  <2> QED
    BY <1>1, <1>3, <1>6, <2>1 DEF MarkInv, Marked
<1>9. OrderInv'
  BY <1>1, <1>3 DEF OrderInv, Strays, IsTorn
<1>10. OnceInv'
  BY <1>1, <1>3, <1>6 DEF OnceInv, Unproven, IsTorn, Away
<1> QED
  BY <1>4, <1>5, <1>7, <1>8, <1>9, <1>10

\* While the machine settles, init withdraws the rejected record.
LEMMA InitUnstages ==
    ASSUME TypeOK, IInv, InitWrites, power = "settling", ~tries, store.proven # None, store.staged # None,
           plan = <<Unstage, Unmark, Sync, Lead, Aim>>
    PROVE  IInv'
<1> USE DEF IInv, documents, history
<1>1. /\ ~Away /\ ~Away'
      /\ UNCHANGED <<power, disk, dirty, running, kept, trial, sees, keep, todo, pass, fetch, forgets,
                     ended, handed, tries, exposed>>
  BY InitFrame
<1>2. Head(plan) = Unstage /\ Write(Unstage) /\ plan' = <<Unmark, Sync, Lead, Aim>>
  BY InitFrame, Parted
<1>3. /\ UNCHANGED <<synced, fw, served, stale>> /\ trials' = 0
      /\ store'.staged = None /\ store'.proven = store.proven /\ store'.attempted = store.attempted
  BY <1>2, StagedWrites DEF Unstage
<1>4. PowerInv' /\ TrialInv' /\ DocInv' /\ LandInv' /\ FirstInv'
  BY <1>1, <1>3 DEF PowerInv, TrialInv, Away, DocInv, FirstInv, LandInv, RebootsLandOnProven, UpdaterComesBack
<1>5. TodoInv' /\ HandInv'
  BY <1>1, <1>3 DEF TodoInv, PowerInv, Away, Unmarks, Unstages, Promotes, ProvesFirst, Stages, IsTorn, HandInv
<1>6. plan' \in {<<Unmark, Sync, Lead', Aim'>>, <<Sync, Lead', Aim'>>} /\ plan' = <<Unmark, Sync, Lead', Aim'>>
  BY <1>2, <1>3 DEF Lead, Aim
<1>7. PlanInv' /\ MarkInv'
  BY <1>1, <1>3, <1>6 DEF PlanInv, SettlingPlan, MarkInv, Marked, Unmark
<1>8. OrderInv'
  BY <1>1, <1>3 DEF OrderInv, Strays, IsTorn
<1>9. OnceInv'
  BY <1>1, <1>3 DEF OnceInv, Unproven, IsTorn, Away
<1> QED
  BY <1>4, <1>5, <1>7, <1>8, <1>9

\* While the machine settles, init removes the attempt marker of the rejected record.
LEMMA InitUnmarks ==
    ASSUME TypeOK, IInv, InitWrites, power = "settling", ~tries, store.proven # None, store.staged = None,
           plan = <<Unmark, Sync, Lead, Aim>>
    PROVE  IInv'
<1> USE DEF IInv, documents, history
<1>1. /\ ~Away /\ ~Away'
      /\ UNCHANGED <<power, disk, dirty, running, kept, trial, sees, keep, todo, pass, fetch, forgets,
                     ended, handed, tries, exposed>>
  BY InitFrame
<1>2. Head(plan) = Unmark /\ Write(Unmark) /\ plan' = <<Sync, Lead, Aim>>
  BY InitFrame, Parted
<1>3. /\ UNCHANGED <<synced, fw, served, trials>>
      /\ store'.staged = None /\ store'.proven = store.proven /\ store'.attempted = None
  BY <1>2, AttemptedWrites DEF Unmark
<1>4. PowerInv' /\ TrialInv' /\ DocInv' /\ LandInv' /\ FirstInv'
  BY <1>1, <1>3 DEF PowerInv, TrialInv, Away, DocInv, FirstInv, LandInv, RebootsLandOnProven, UpdaterComesBack
<1>5. TodoInv' /\ HandInv'
  BY <1>1, <1>3 DEF TodoInv, PowerInv, Away, Unmarks, Unstages, Promotes, ProvesFirst, Stages, IsTorn, HandInv
<1>6. plan' = <<Sync, Lead', Aim'>>
  BY <1>2, <1>3 DEF Lead, Aim
<1>7. PlanInv' /\ MarkInv'
  BY <1>1, <1>3, <1>6 DEF PlanInv, SettlingPlan, MarkInv, Marked
<1>8. OrderInv'
  BY <1>1, <1>3 DEF OrderInv, Strays, IsTorn
<1>9. OnceInv'
  BY <1>1, <1>3 DEF OnceInv, Unproven, IsTorn, Away
<1> QED
  BY <1>4, <1>5, <1>7, <1>8, <1>9

\* Every write of init.
LEMMA PlanStep ==
    ASSUME TypeOK, IInv, InitWrites
    PROVE  IInv'
<1>1. ~Away /\ plan # <<>>
  BY InitFrame
<1>2. ASSUME Heals, store.proven # None PROVE IInv'
  BY <1>2, InitLeads, InitAims DEF Heals
<1>3. ASSUME Rejects, store.staged # None, power = "settling", ~tries, store.proven # None PROVE IInv'
  BY <1>3, InitNotes, InitSyncs, InitUnstages DEF Rejects
<1>4. ASSUME Arms, Armable, power = "turned", handed = "no", store.proven # None PROVE IInv'
  BY <1>4, InitLeads, InitAims, InitMarks, InitSyncsTheMark, InitArms DEF Arms
<1>5. ASSUME plan \in {<<Unmark, Sync, Lead, Aim>>, <<Sync, Lead, Aim>>}, store.staged = None, power = "settling",
             ~tries, store.proven # None
      PROVE  IInv'
  BY <1>5, InitUnmarks, InitSyncs
<1>6. ASSUME plan = <<Lead>>, store.proven # None PROVE IInv'
  BY <1>6, InitLeads
<1>7. ASSUME power = "turned", handed = "no", store.proven = None, plan = <<<<"next", None>>>> PROVE IInv'
  BY <1>7, InitDrops
<1> QED
  BY <1>1, <1>2, <1>3, <1>4, <1>5, <1>6, <1>7, PlanPhases

-----------------------------------------------------------------------------
\* The invariant.

\* The installer's machine is of the right types.
LEMMA InitTypes == Init => TypeOK
<1> SUFFICES ASSUME Init PROVE TypeOK
  OBVIOUS
<1>1. store \in Documents /\ synced \in Documents
  BY DEF Init, Documents, MaybeRecord
<1>2. disk \in [Slots -> [files : Releases \cup {Torn}, doc : Releases \cup {None}]]
  BY ReleasesAssumption DEF Init
<1>3. fetch \in [ask : MaybeRecord, verified : BOOLEAN, busy : MaybeRecord, live : BOOLEAN,
                 step : {"doc", "files", "fill", "done"}]
  BY DEF Init, NoFetch, MaybeRecord
<1>4. catalog \subseteq Releases /\ forgets \in Slots \cup {None} /\ target \in Releases
  BY ReleasesAssumption DEF Init
<1>5. fw \in [next : Entries, order : Slots] /\ running \in Slots
  BY DEF Init, Entries, Slots
<1>6. plan \in Seq(Writes) /\ todo \in Seq(Writes)
  BY EmptySeq DEF Init
<1>7. trial \in MaybeRecord /\ served \in MaybeRecord /\ {sees, keep, tries, exposed, stale} \subseteq BOOLEAN
  BY DEF Init, MaybeRecord
<1> QED
  BY <1>1, <1>2, <1>3, <1>4, <1>5, <1>6, <1>7 DEF Init, TypeOK

\* The machine as the installer leaves it.
LEMMA InitInv == Init => IInv
<1> SUFFICES ASSUME Init PROVE IInv
  OBVIOUS
<1>1. /\ store.staged = None /\ store.proven = None /\ store.attempted = None /\ synced = store
      /\ fw.next = "A" /\ fw.order = "A" /\ disk["A"].files = Installed /\ running = "A"
      /\ power = "off" /\ plan = <<>> /\ todo = <<>> /\ pass = "settle" /\ fetch = NoFetch
      /\ trial = None /\ ~sees /\ dirty = "clean" /\ handed = "no" /\ trials = 0
  BY DEF Init, Slots
<1>2. PowerInv /\ TrialInv /\ DocInv /\ PlanInv /\ FirstInv /\ HandInv /\ LandInv
  BY <1>1 DEF PowerInv, TrialInv, DocInv, PlanInv, FirstInv, HandInv, LandInv, Away,
     RebootsLandOnProven, UpdaterComesBack
<1>3. TodoInv /\ MarkInv
  BY <1>1 DEF TodoInv, NoFetch, MarkInv, Marked
<1>4. OrderInv /\ OnceInv
  BY <1>1 DEF OrderInv, OnceInv, Strays, Unproven, NoFetch, Away, Proves
<1> QED
  BY <1>2, <1>3, <1>4 DEF IInv

\* Every step keeps it.
LEMMA InvStep == TypeOK /\ IInv /\ [Next]_vars => IInv'
<1> SUFFICES ASSUME TypeOK, IInv, [Next]_vars PROVE IInv'
  OBVIOUS
<1>1. CASE InitWrites \/ OperatorWrites
  BY <1>1, PlanStep, TodoStep
<1>2. CASE Boot
  BY <1>2, PowerOnStep, UpdaterStep, BootStep, StartStep DEF Boot
<1>3. CASE Pass
  BY <1>3, PassStep, ConvergeStep DEF Pass
<1>4. CASE Download \/ FetchStops
  BY <1>4, DownloadStep
<1>5. CASE RestartOperator \/ WatchReboots \/ RebootForRelease \/ RebootForOther \/ RebootForUpdate
  <2>1. RestartOperator \/ \E handover \in BOOLEAN : KillEverything(handover)
    BY <1>5 DEF WatchReboots, RebootForRelease, RebootForOther, RebootForUpdate
  <2> QED
    BY <2>1, EndStep
<1>6. CASE Watch \/ StageUpdate
  BY <1>6, WatchStep, LockStep, UpdateStep DEF Watch
<1>7. CASE Reboot
  BY <1>7, ArmStep, ResetStep DEF Reboot
<1>8. CASE PowerCut
  BY <1>8, CutStep
<1>9. CASE EditTarget \/ UNCHANGED vars
  <2>1. UNCHANGED <<store, synced, documents, fw, disk, dirty, power, running, kept, trial, sees, keep, plan, todo, pass,
                    fetch, forgets, trials, served, ended, handed, tries, exposed, stale>>
    BY <1>9 DEF EditTarget, vars, world, documents, init, operator, history
  <2>2. PowerInv' /\ TrialInv' /\ TodoInv' /\ DocInv' /\ PlanInv' /\ FirstInv'
    BY <2>1, Frames DEF IInv
  <2>3. HandInv' /\ LandInv' /\ OrderInv' /\ MarkInv' /\ OnceInv'
    BY <2>1, Frames DEF IInv
  <2> QED
    BY <2>2, <2>3 DEF IInv
<1> QED
  BY <1>1, <1>2, <1>3, <1>4, <1>5, <1>6, <1>7, <1>8, <1>9 DEF Next

-----------------------------------------------------------------------------
\* Every variable keeps its type: a document names a record or nothing, and what init and
\* the operator have still to write is a sequence of writes.
THEOREM TypeCorrect == Spec => []TypeOK
<1>1. Init => TypeOK
  BY InitTypes
<1> QED
  BY <1>1, TypeStep, PTL DEF Spec

\* In every reachable state the machine's documents, its firmware's variables and what is
\* still to be written fit together.
THEOREM InvariantHolds == Spec => [](TypeOK /\ IInv)
<1>1. Init => TypeOK /\ IInv
  BY InitTypes, InitInv
<1>2. TypeOK /\ IInv /\ [Next]_vars => (TypeOK /\ IInv)'
  BY TypeStep, InvStep
<1> QED
  BY <1>1, <1>2, PTL DEF Spec

\* Whatever machine, target and faults: a machine that serves from its proven slot, with no
\* trial to watch, comes back on this slot after a reset or a power cut at any step (the
\* assertions of proving.go).
THEOREM SettledMachinesBoot == Spec => []SettledBoots
<1>1. TypeOK /\ IInv => SettledBoots
  <2> SUFFICES ASSUME TypeOK, IInv, Serving, trial = None, plan = <<>>, fw.next # "updater", forgets = None,
                      store.proven # None, store.proven.slot = running
               PROVE  LandsOn = {running}
    BY DEF SettledBoots
  <2>1. power = "up" /\ fw.order = running /\ fw.next # Other(running)
    BY DEF Serving, IInv, OrderInv
  <2>2. fw.next = running \/ fw.next = None
    BY <2>1, Kinds, OtherFacts DEF Entries
  <2>3. Heads = {running}
    BY <2>1 DEF Heads
  <2> QED
    BY <2>2, <2>3, Kinds DEF LandsOn
<1> QED
  BY <1>1, InvariantHolds, PTL

\* As long as no download takes a slot that a power cut may boot, no sequence of power cuts,
\* panics and reboots gives an unproven release a second trial (armProvingBoot).
THEOREM OneTrialForEach == Spec => []OneTrialEach
<1>1. TypeOK /\ IInv => OneTrialEach
  BY DEF TypeOK, IInv, OnceInv, OneTrialEach
<1> QED
  BY <1>1, InvariantHolds, PTL

\* Each reboot of init lands on the proven slot, or on the trial that it recorded as
\* attempted, under a firmware that forgets BootOrder too (assertAndArmForReboot).
THEOREM RebootsLand == Spec => []RebootsLandOnProven
<1>1. IInv => RebootsLandOnProven
  BY DEF IInv, LandInv
<1> QED
  BY <1>1, InvariantHolds, PTL

\* After a requester's updater ran, the machine is back on its proven slot (handover.go).
THEOREM UpdatersComeBack == Spec => []UpdaterComesBack
<1>1. IInv => UpdaterComesBack
  BY DEF IInv, LandInv
<1> QED
  BY <1>1, InvariantHolds, PTL

\* A boot rejects a record only after the record booted, after a power cut, or with an attempt
\* marker that outlived its record (settleSystemRelease).
THEOREM OnlyTheTriedAreRejected == Spec => RejectsOnlyTried
<1>1. TypeOK /\ IInv /\ [Next]_vars
        => [settleSystemRelease /\ FellBack => trials > 0 \/ ended = "cut" \/ stale]_vars
  <2> SUFFICES ASSUME TypeOK, IInv, settleSystemRelease, FellBack
               PROVE  trials > 0 \/ ended = "cut" \/ stale
    OBVIOUS
  <2>1. power = "on" /\ Marked /\ store.staged.slot # running
    BY DEF settleSystemRelease, FellBack, Proves, Marked
  <2> QED
    BY <2>1 DEF IInv, MarkInv
<1> QED
  BY <1>1, InvariantHolds, PTL DEF Spec, RejectsOnlyTried
=============================================================================
