----------------------------- MODULE MemoProofs -----------------------------
(***************************************************************************)
(* What a pass reads holds the writes of its own program: for every set of *)
(* objects, and for any number of writes, lost answers and refused watches.*)
(***************************************************************************)
EXTENDS Memo, FiniteSetTheorems, SequenceTheorems, TLAPS

Writes == [key : Keys, live : BOOLEAN]

\* What a place of the log does to an object.
WritesAt(k, i) == log[i].key = k
StandsAt(k, i) == log[i] = Write(k, TRUE)
DeletesAt(k, i) == log[i] = Write(k, FALSE)

\* Somebody deletes the object at version n or later.
Removed(k, n) == \E i \in n .. Len(log) : DeletesAt(k, i)

\* The requests that may still write.
Writing == {a \in Actors : req[a].step = "sent" /\ req[a].op # "read"}

\* The log has room for what is on its way.
RoomInv ==
    /\ IsFiniteSet(late)
    /\ Len(log) + Cardinality(late) + Cardinality(Writing) <= MaxWrites

\* The program's last write of an object is in the log.
LogInv == \A k \in Keys : owned[k] # 0 => owned[k] <= Len(log) /\ WritesAt(k, owned[k])

\* The lock of an object that was not dropped is held while a request about it runs.
LockInv ==
    /\ \A k \in Keys, a \in Actors : holder[k] = a => req[a] # Idle /\ req[a].key = k
    /\ \A a \in Actors : req[a] # Idle => req[a].key \in dropped \/ holder[req[a].key] = a
    /\ list.step \notin {"idle", "each"} => req[Pass] = Idle

\* An answer is no older than the program's writes: the one before, and its own.
AnswerInv == \A a \in Actors : req[a].step = "answered" =>
    /\ req[a].answer # NoRecord
    /\ req[a].wrote # 0 => req[a].wrote <= Len(log) /\ WritesAt(req[a].key, req[a].wrote)
    /\ req[a].key \notin dropped => \A n \in {owned[req[a].key], req[a].wrote} : n # 0 =>
        /\ req[a].answer.kind = "copy" => n <= req[a].answer.v
        /\ req[a].answer = Gone => Removed(req[a].key, n)

\* A record is no older than the program's writes, and an object without one has its
\* writes in the store.
NoteInv == \A k \in Keys \ dropped :
    /\ seen[k] = NoRecord => owned[k] <= at
    /\ seen[k].kind = "copy" => owned[k] <= seen[k].v
    /\ seen[k] = Gone /\ owned[k] # 0 => Removed(k, owned[k])

\* A list that was answered is no older than the writes noted before it was sent.
FlightInv == list.step = "answered" =>
    \A k \in Keys \ since : list.copies[k] # 0 => owned[k] <= list.copies[k]

\* What a list must answer is a write of the program.
DueInv == \A k \in Keys : list.due[k] # 0 =>
    list.due[k] <= owned[k] /\ StandsAt(k, list.due[k])

\* A list has what it must answer, or will still come to it.
CopyInv == \A k \in Keys \ dropped :
    \/ list.due[k] = 0 \/ Removed(k, list.due[k] + 1)
    \/ list.step = "sent"
    \/ list.step = "keys" /\ k \in list.keys
    \/ list.step = "keys" /\ Held(k) # 0 /\ \A i \in at + 1 .. list.due[k] : ~DeletesAt(k, i)
    \/ list.step = "each" /\ k \in list.keys
    \/ list.step \in {"each", "answered", "settle"} /\ list.due[k] <= list.copies[k]

IInv == RoomInv /\ LogInv /\ LockInv /\ AnswerInv /\ NoteInv /\ FlightInv /\ DueInv /\ CopyInv

-----------------------------------------------------------------------------
(* Versions. *)

\* A set of versions has a last one.
LEMMA LastVersion ==
    ASSUME NEW n \in Nat, NEW S \in SUBSET (1 .. n), S # {}
    PROVE  \E i \in S : \A j \in S : j <= i
<1> DEFINE R == OpToRel(<, Nat)
           T == {n - i : i \in S}
<1>1. IsWellFoundedOn(R, Nat)
  BY NatLessThanWellFounded, Zenon
<1>2. \A x, y \in Nat : <<x, y>> \in R <=> x < y
  BY DEF OpToRel
<1>3. T \subseteq Nat /\ T # {}
  <2>1. \A i \in S : n - i \in Nat
    OBVIOUS
  <2> QED
    BY <2>1
<1> HIDE DEF R
<1>4. PICK x \in T : \A y \in T : ~ (<<y, x>> \in R)
  BY <1>1, <1>3, WFMin, Zenon
<1>5. PICK i \in S : x = n - i
  BY <1>4
<1>6. ASSUME NEW j \in S PROVE j <= i
  <2>1. ~ (n - j < n - i)
    BY <1>2, <1>3, <1>4, <1>5
  <2> QED
    BY <2>1
<1> QED
  BY <1>6

\* A write of an object leaves it, or deletes it.
PlaceInv == \A k \in Keys, i \in 1 .. Len(log) :
    /\ WritesAt(k, i) => IF log[i].live THEN StandsAt(k, i) ELSE DeletesAt(k, i)
    /\ StandsAt(k, i) => WritesAt(k, i) /\ ~DeletesAt(k, i)
    /\ DeletesAt(k, i) => WritesAt(k, i)

\* Each place of the log is a write of one object.
LEMMA AWrite == TypeOK => PlaceInv
<1> SUFFICES ASSUME TypeOK, NEW k \in Keys, NEW i \in 1 .. Len(log)
             PROVE  /\ WritesAt(k, i) => IF log[i].live THEN StandsAt(k, i) ELSE DeletesAt(k, i)
                    /\ StandsAt(k, i) => WritesAt(k, i) /\ ~DeletesAt(k, i)
                    /\ DeletesAt(k, i) => WritesAt(k, i)
  BY DEF PlaceInv
<1>a. log[i] \in Writes
  <2>1. log \in Seq(Writes)
    BY DEF TypeOK, Writes
  <2> QED
    BY <2>1
<1>1. log[i].live \in BOOLEAN /\ log[i] = [key |-> log[i].key, live |-> log[i].live]
  BY <1>a DEF Writes
<1>2. CASE log[i].live
  <2>1. log[i] = [key |-> log[i].key, live |-> TRUE]
    BY <1>1, <1>2
  <2>2. log[i] # Write(k, FALSE)
    <3>1. Write(k, FALSE).live = FALSE
      BY Zenon DEF Write
    <3> QED
      BY <1>2, <3>1
  <2>3. WritesAt(k, i) => StandsAt(k, i)
    BY <2>1, Zenon DEF WritesAt, StandsAt, Write
  <2>4. StandsAt(k, i) => WritesAt(k, i)
    <3>1. Write(k, TRUE).key = k
      BY Zenon DEF Write
    <3> QED
      BY <3>1, Zenon DEF WritesAt, StandsAt
  <2>5. ~DeletesAt(k, i)
    BY <2>2, Zenon DEF DeletesAt
  <2> QED
    BY <1>2, <2>3, <2>4, <2>5
<1>3. CASE ~log[i].live
  <2>1. log[i] = [key |-> log[i].key, live |-> FALSE]
    BY <1>1, <1>3
  <2>2. log[i] # Write(k, TRUE)
    <3>1. Write(k, TRUE).live = TRUE
      BY Zenon DEF Write
    <3> QED
      BY <1>3, <3>1
  <2>3. WritesAt(k, i) => DeletesAt(k, i)
    BY <2>1, Zenon DEF WritesAt, DeletesAt, Write
  <2>4. DeletesAt(k, i) => WritesAt(k, i)
    <3>1. Write(k, FALSE).key = k
      BY Zenon DEF Write
    <3> QED
      BY <3>1, Zenon DEF WritesAt, DeletesAt
  <2>5. ~StandsAt(k, i)
    BY <2>2, Zenon DEF StandsAt
  <2> QED
    BY <1>3, <2>3, <2>4, <2>5
<1> QED
  BY <1>2, <1>3

\* An object's version in a prefix of the log is its last write, when that one is live.
VersionInv == \A k \in Keys, n \in 0 .. Len(log) :
    /\ VersionIn(k, n) \in 0 .. n
    /\ VersionIn(k, n) # 0 =>
         StandsAt(k, VersionIn(k, n)) /\ \A i \in 1 .. n : WritesAt(k, i) => i <= VersionIn(k, n)
    /\ VersionIn(k, n) = 0 => \A i \in 1 .. n : WritesAt(k, i) => \E j \in i .. n : DeletesAt(k, j)

LEMMA VersionFacts == TypeOK => VersionInv
<1> SUFFICES ASSUME TypeOK, NEW k \in Keys, NEW n \in 0 .. Len(log)
             PROVE  /\ VersionIn(k, n) \in 0 .. n
                    /\ VersionIn(k, n) # 0 =>
                         StandsAt(k, VersionIn(k, n)) /\ \A i \in 1 .. n : WritesAt(k, i) => i <= VersionIn(k, n)
                    /\ VersionIn(k, n) = 0 => \A i \in 1 .. n : WritesAt(k, i) => \E j \in i .. n : DeletesAt(k, j)
  BY DEF VersionInv
<1> DEFINE writes == {i \in 1 .. n : log[i].key = k}
           last == CHOOSE i \in writes : \A j \in writes : j <= i
<1>1. n \in Nat
  BY DEF TypeOK
<1>2. \A i \in 1 .. n : log[i] \in Writes
  <2>1. log \in Seq(Writes) /\ Len(log) \in Nat
    BY DEF TypeOK, Writes
  <2> QED
    BY <2>1
<1>c. \A i \in 1 .. n : i \in 1 .. Len(log)
  <2>1. Len(log) \in Nat
    BY DEF TypeOK
  <2> QED
    BY <2>1
<1>3. VersionIn(k, n) = IF writes # {} /\ log[last].live THEN last ELSE 0
  BY DEF VersionIn
<1>4. CASE writes = {}
  <2>1. VersionIn(k, n) = 0 /\ \A i \in 1 .. n : ~WritesAt(k, i)
    BY <1>3, <1>4 DEF WritesAt
  <2> QED
    BY <1>1, <2>1
<1>5. CASE writes # {}
  <2>1. last \in writes /\ \A j \in writes : j <= last
    <3>1. \E i \in writes : \A j \in writes : j <= i
      BY <1>1, <1>5, LastVersion
    <3> QED
      BY <3>1
  <2>2. IF log[last].live THEN StandsAt(k, last) ELSE DeletesAt(k, last)
    BY <1>2, <2>1, <1>c, AWrite DEF WritesAt, PlaceInv
  <2> HIDE DEF last
  <2>3. last \in 1 .. n /\ \A i \in 1 .. n : WritesAt(k, i) => i <= last
    BY <2>1 DEF WritesAt
  <2> HIDE DEF writes
  <2>4. CASE log[last].live
    BY <1>1, <1>3, <1>5, <2>2, <2>3, <2>4
  <2>5. CASE ~log[last].live
    <3>1. VersionIn(k, n) = 0 /\ DeletesAt(k, last)
      BY <1>3, <2>2, <2>5
    <3>2. ASSUME NEW i \in 1 .. n, WritesAt(k, i) PROVE \E j \in i .. n : DeletesAt(k, j)
      BY <1>1, <2>3, <3>1, <3>2
    <3> QED
      BY <1>1, <3>1, <3>2
  <2> QED
    BY <2>4, <2>5
<1> QED
  BY <1>4, <1>5

-----------------------------------------------------------------------------
(* The log. *)

\* A request that is under way is about an object.
LEMMA Asked ==
    ASSUME TypeOK, NEW a \in Actors, req[a] # Idle
    PROVE  /\ req[a] \in Requests /\ req[a].step \in {"sent", "answered"}
           /\ req[a].key \in Keys /\ req[a].op \in Ops
           /\ req[a].answer \in Records /\ req[a].wrote \in Versions
  BY DEF TypeOK, Requests

\* A goroutine that waits for nothing has no request.
LEMMA IdleFields == Idle.step = "idle" /\ NoList.step = "idle" /\ \A k \in Keys : NoList.copies[k] = 0 /\ NoList.due[k] = 0
  BY DEF Idle, NoList

\* What the API server makes of one write.
LEMMA LandFields ==
    ASSUME TypeOK, NEW op \in Ops, NEW k \in Keys, Land(op, k)
    PROVE  /\ log' \in Seq(Writes) /\ Len(log) \in Nat
           /\ \A i \in 1 .. Len(log) : log'[i] = log[i]
           /\ op = "read" => Landing(op, k) = 0
           /\ \/ Landing(op, k) = 0 /\ log' = log
              \/ /\ Takes(op, k)
                 /\ Landing(op, k) = Len(log) + 1 /\ Len(log') = Len(log) + 1
                 /\ IF op = "delete" THEN DeletesAt(k, Len(log))' ELSE StandsAt(k, Len(log))'
<1>1. log \in Seq(Writes) /\ Len(log) \in Nat
  BY DEF TypeOK, Writes
<1>2. CASE Takes(op, k)
  <2> DEFINE e == Write(k, op # "delete")
  <2>1. e \in Writes /\ e = IF op = "delete" THEN Write(k, FALSE) ELSE Write(k, TRUE)
    BY DEF Write, Writes
  <2>2. log' = Append(log, e) /\ Landing(op, k) = Len(log) + 1 /\ op # "read"
    BY <1>2 DEF Land, Landing, Takes
  <2> HIDE DEF e
  <2>3. /\ Append(log, e) \in Seq(Writes) /\ Len(Append(log, e)) = Len(log) + 1
        /\ \A i \in 1 .. Len(log) : Append(log, e)[i] = log[i]
        /\ Append(log, e)[Len(log) + 1] = e
    <3>1. log \in Seq(Writes) /\ e \in Writes
      BY <1>1, <2>1
    <3> QED
      BY <3>1, AppendProperties
  <2>4. log'[Len(log')] = e
    BY <1>1, <2>2, <2>3
  <2>5. IF op = "delete" THEN DeletesAt(k, Len(log))' ELSE StandsAt(k, Len(log))'
    BY <2>1, <2>4, Zenon DEF DeletesAt, StandsAt
  <2> QED
    BY <1>1, <1>2, <2>2, <2>3, <2>5
<1>3. CASE ~Takes(op, k)
  <2>1. log' = log /\ Landing(op, k) = 0
    BY <1>3 DEF Land, Landing
  <2> QED
    BY <1>1, <2>1
<1> QED
  BY <1>2, <1>3

\* A step that changes neither what the program noted nor the requests.
Quiet ==
    /\ UNCHANGED <<log, late, seen, holder, req, owned, dropped>>
    /\ since' = since \/ SendList

\* The steps, by what they change.
LEMMA Steps ==
    ASSUME TypeOK, [Next]_vars
    PROVE  \/ Quiet
           \/ OtherWrites \/ LandsLate
           \/ \E a \in Actors : Handled(a) \/ AnswerLost(a)
           \/ \E a \in Actors, op \in Ops, k \in Keys :
                /\ Sends(a, op, k) /\ (op # "read" => Room) /\ (list' = list) /\ (since' = since)
                /\ a = Pass => list.step \in {"idle", "each"}
           \/ \E a \in Actors : Noted(a) /\ (a = Worker => list' = list) /\ (a = Pass => PassNotes)
           \/ ListNoted \/ settleMemo
<1> USE DEF server, store, memo
<1>1. Pass \in Actors /\ Worker \in Actors /\ Pass # Worker /\ "read" \in Ops
  BY NamesAssumption DEF Actors, Ops
<1>2. WatchDelivers \/ Synced \/ WatchRefused => Quiet
  BY DEF WatchDelivers, Synced, WatchRefused, Quiet
<1>3. CurrentList \/ ListKeys \/ TakesCopy \/ AllListed \/ SendList \/ ListHandled \/ ListFails => Quiet
  BY DEF CurrentList, ListKeys, TakesCopy, AllListed, SendList, ListHandled, ListFails, StartList, Quiet
<1>4. UNCHANGED vars => Quiet
  BY DEF vars, Quiet
<1>5. PassSends => \E op \in Ops, k \in Keys : Sends(Pass, op, k) /\ (op # "read" => Room) /\ list' = list /\ since' = since /\ list.step = "idle"
  BY DEF PassSends, Sends
<1>6. WorkerSends => \E op \in Ops, k \in Keys : Sends(Worker, op, k) /\ (op # "read" => Room) /\ list' = list /\ since' = since
  BY DEF WorkerSends, Sends
<1>7. ReadFresh => \E k \in Keys : Sends(Pass, "read", k) /\ list' = list /\ since' = since /\ list.step = "each"
  BY DEF ReadFresh, Sends, TypeOK, ListStates
<1>8. (PassNotes => Noted(Pass)) /\ (WorkerNotes => Noted(Worker) /\ list' = list)
  BY DEF PassNotes, WorkerNotes
<1> QED
  BY <1>1, <1>2, <1>3, <1>4, <1>5, <1>6, <1>7, <1>8 DEF Next, List

\* The log only grows: a write and a delete keep their places.
LEMMA LogGrows ==
    ASSUME TypeOK, [Next]_vars
    PROVE  /\ log' \in Seq(Writes) /\ Len(log) \in Nat /\ Len(log') \in Nat /\ Len(log) <= Len(log')
           /\ \A i \in 1 .. Len(log) : log'[i] = log[i]
<1>1. log \in Seq(Writes) /\ Len(log) \in Nat
  BY DEF TypeOK, Writes
<1>2. ASSUME NEW op \in Ops, NEW k \in Keys, Land(op, k)
      PROVE  /\ log' \in Seq(Writes) /\ Len(log') \in Nat /\ Len(log) <= Len(log')
             /\ \A i \in 1 .. Len(log) : log'[i] = log[i]
  <2>1. Len(log') = Len(log) \/ Len(log') = Len(log) + 1
    BY <1>2, LandFields
  <2> QED
    BY <1>1, <1>2, <2>1, LandFields
<1>3. log' = log \/ \E op \in Ops, k \in Keys : Land(op, k)
  <2>1. ASSUME NEW a \in Actors, Handled(a) \/ AnswerLost(a)
        PROVE  log' = log \/ \E op \in Ops, k \in Keys : Land(op, k)
    <3>1. req[a] # Idle
      BY <2>1, IdleFields DEF Handled, AnswerLost
    <3> QED
      BY <2>1, <3>1, Asked DEF Handled, AnswerLost
  <2>2. OtherWrites => \E op \in Ops, k \in Keys : Land(op, k)
    BY DEF OtherWrites
  <2>3. LandsLate => \E op \in Ops, k \in Keys : Land(op, k)
    <3> SUFFICES ASSUME LandsLate PROVE \E op \in Ops, k \in Keys : Land(op, k)
      OBVIOUS
    <3>1. PICK w \in late : Land(w[1], w[2])
      BY DEF LandsLate
    <3>2. w[1] \in Ops /\ w[2] \in Keys
      BY DEF TypeOK, Ops
    <3> QED
      BY <3>1, <3>2
  <2>4. \A a \in Actors, op \in Ops, k \in Keys : Sends(a, op, k) => log' = log
    BY DEF Sends, server
  <2>5. \A a \in Actors : Noted(a) => log' = log
    BY DEF Noted, server
  <2>6. ListNoted \/ settleMemo => log' = log
    BY DEF ListNoted, settleMemo, server
  <2> QED
    BY <2>1, <2>2, <2>3, <2>4, <2>5, <2>6, Steps DEF Quiet
<1>4. CASE log' = log
  BY <1>1, <1>4
<1> QED
  BY <1>1, <1>2, <1>3, <1>4

\* What a place of the log did to an object stays so, and so does a delete.
LEMMA PlacesStay ==
    ASSUME TypeOK, [Next]_vars, NEW k \in Keys
    PROVE  /\ \A i \in 1 .. Len(log) : /\ WritesAt(k, i)' <=> WritesAt(k, i)
                                       /\ StandsAt(k, i)' <=> StandsAt(k, i)
                                       /\ DeletesAt(k, i)' <=> DeletesAt(k, i)
           /\ \A n \in Nat : n # 0 /\ Removed(k, n) => \E i \in n .. Len(log') : DeletesAt(k, i)'
<1>1. ASSUME NEW i \in 1 .. Len(log)
      PROVE  /\ WritesAt(k, i)' <=> WritesAt(k, i)
             /\ StandsAt(k, i)' <=> StandsAt(k, i)
             /\ DeletesAt(k, i)' <=> DeletesAt(k, i)
  <2>1. log'[i] = log[i]
    BY LogGrows
  <2> QED
    BY <2>1, Zenon DEF WritesAt, StandsAt, DeletesAt
<1>2. ASSUME NEW n \in Nat, n # 0, Removed(k, n) PROVE \E i \in n .. Len(log') : DeletesAt(k, i)'
  <2>1. PICK i \in n .. Len(log) : DeletesAt(k, i)
    BY <1>2 DEF Removed
  <2>2. i \in 1 .. Len(log) /\ i \in n .. Len(log')
    BY <1>2, LogGrows
  <2>3. DeletesAt(k, i)'
    BY <1>1, <2>1, <2>2
  <2> QED
    BY <2>2, <2>3
<1> QED
  BY <1>1, <1>2

-----------------------------------------------------------------------------
(* The types, and the room for what is on its way. *)

\* What a goroutine's request becomes.
LEMMA ReqFields ==
    ASSUME TypeOK, NEW a \in Actors, NEW r, req' = [req EXCEPT ![a] = r]
    PROVE  req'[a] = r /\ \A b \in Actors \ {a} : req'[b] = req[b]
  BY DEF TypeOK

\* The requests that may still write are finitely many, and each step changes one.
LEMMA WritingFields ==
    ASSUME TypeOK
    PROVE  /\ IsFiniteSet(Writing) /\ Cardinality(Writing) \in Nat
           /\ \A a : Cardinality(Writing \cup {a}) <= Cardinality(Writing) + 1
           /\ \A a \in Writing : Cardinality(Writing \ {a}) = Cardinality(Writing) - 1
<1>1. IsFiniteSet(Actors)
  <2>1. Actors = {} \cup {Pass} \cup {Worker}
    BY DEF Actors
  <2>2. IsFiniteSet({} \cup {Pass})
    BY FS_EmptySet, FS_AddElement, Zenon
  <2> QED
    BY <2>1, <2>2, FS_AddElement, Zenon
<1>2. IsFiniteSet(Writing)
  BY <1>1, FS_Subset, Zenon DEF Writing
<1>3. Cardinality(Writing) \in Nat
  BY <1>2, FS_CardinalityType, Zenon
<1>4. ASSUME NEW a PROVE Cardinality(Writing \cup {a}) <= Cardinality(Writing) + 1
  <2>1. Cardinality(Writing \cup {a}) = IF a \in Writing THEN Cardinality(Writing) ELSE Cardinality(Writing) + 1
    BY <1>2, FS_AddElement, Zenon
  <2> QED
    BY <1>3, <2>1
<1>5. ASSUME NEW a \in Writing PROVE Cardinality(Writing \ {a}) = Cardinality(Writing) - 1
  BY <1>2, <1>5, FS_RemoveElement, Zenon
<1> QED
  BY <1>2, <1>3, <1>4, <1>5

\* The writes whose answer was lost are finitely many, and each step changes one.
LEMMA LateFields ==
    ASSUME RoomInv
    PROVE  /\ Cardinality(late) \in Nat
           /\ \A w : IsFiniteSet(late \cup {w}) /\ Cardinality(late \cup {w}) <= Cardinality(late) + 1
           /\ \A w \in late : IsFiniteSet(late \ {w}) /\ Cardinality(late \ {w}) = Cardinality(late) - 1
<1>1. IsFiniteSet(late)
  BY DEF RoomInv
<1>2. Cardinality(late) \in Nat
  BY <1>1, FS_CardinalityType, Zenon
<1>3. ASSUME NEW w PROVE IsFiniteSet(late \cup {w}) /\ Cardinality(late \cup {w}) <= Cardinality(late) + 1
  <2>1. IsFiniteSet(late \cup {w}) /\ Cardinality(late \cup {w}) = IF w \in late THEN Cardinality(late) ELSE Cardinality(late) + 1
    BY <1>1, FS_AddElement, Zenon
  <2> QED
    BY <1>2, <2>1
<1>4. ASSUME NEW w \in late PROVE IsFiniteSet(late \ {w}) /\ Cardinality(late \ {w}) = Cardinality(late) - 1
  BY <1>1, <1>4, FS_RemoveElement, Zenon
<1> QED
  BY <1>2, <1>3, <1>4

\* The answer of a request replaces it, and it may write no more.
LEMMA AnsweredFields ==
    ASSUME TypeOK, NEW a \in Actors, req[a].step = "sent", NEW answer, NEW wrote, Answered(a, answer, wrote)
    PROVE  /\ req'[a].step = "answered" /\ req'[a].key = req[a].key /\ req'[a].op = req[a].op
           /\ req'[a].answer = answer /\ req'[a].wrote = wrote
           /\ \A b \in Actors \ {a} : req'[b] = req[b]
           /\ Writing' = Writing \ {a}
           /\ req[a].op # "read" => a \in Writing
           /\ req[a].op = "read" => Writing' = Writing
<1> DEFINE r == [step |-> "answered", key |-> req[a].key, op |-> req[a].op, answer |-> answer, wrote |-> wrote]
<1>1. /\ r.step = "answered" /\ r.key = req[a].key /\ r.op = req[a].op
      /\ r.answer = answer /\ r.wrote = wrote
  OBVIOUS
<1>2. req' = [req EXCEPT ![a] = r]
  BY DEF Answered
<1> HIDE DEF r
<1>3. req'[a] = r /\ \A b \in Actors \ {a} : req'[b] = req[b]
  BY <1>2, ReqFields
<1>4. Writing' = Writing \ {a} /\ (req[a].op # "read" => a \in Writing) /\ (req[a].op = "read" => a \notin Writing)
  BY <1>1, <1>3 DEF Writing
<1> QED
  BY <1>1, <1>3, <1>4

\* A request is sent by a goroutine that waits for nothing.
LEMMA SendsFields ==
    ASSUME TypeOK, NEW a \in Actors, NEW op \in Ops, NEW k \in Keys, Sends(a, op, k)
    PROVE  /\ req[a] = Idle /\ mayLock(k)
           /\ req'[a].step = "sent" /\ req'[a].key = k /\ req'[a].op = op /\ req'[a] # Idle
           /\ req'[a] \in Requests
           /\ \A b \in Actors \ {a} : req'[b] = req[b]
           /\ Writing' = IF op = "read" THEN Writing ELSE Writing \cup {a}
<1> DEFINE r == [step |-> "sent", key |-> k, op |-> op, answer |-> NoRecord, wrote |-> 0]
<1>1. r.step = "sent" /\ r.key = k /\ r.op = op
  OBVIOUS
<1>2. r \in Requests
  BY BoundsAssumption DEF Requests, Records, Versions
<1>3. req' = [req EXCEPT ![a] = r] /\ req[a] = Idle /\ mayLock(k)
  BY DEF Sends
<1> HIDE DEF r
<1>4. req'[a] = r /\ \A b \in Actors \ {a} : req'[b] = req[b]
  BY <1>3, ReqFields
<1>5. Writing' = IF op = "read" THEN Writing ELSE Writing \cup {a}
  BY <1>1, <1>3, <1>4, IdleFields DEF Writing
<1> QED
  BY <1>1, <1>2, <1>3, <1>4, <1>5, IdleFields

\* A step leaves room in the log.
LEMMA RoomStep == TypeOK /\ RoomInv /\ [Next]_vars => RoomInv'
<1> SUFFICES ASSUME TypeOK, RoomInv, [Next]_vars PROVE RoomInv'
  OBVIOUS
<1>a. /\ Len(log) \in Nat /\ Len(log') \in Nat /\ MaxWrites \in Nat
      /\ Cardinality(late) \in Nat /\ Cardinality(Writing) \in Nat /\ IsFiniteSet(late)
      /\ Len(log) + Cardinality(late) + Cardinality(Writing) <= MaxWrites
  BY LogGrows, LateFields, WritingFields, BoundsAssumption DEF RoomInv
<1>b. Room => Len(log) + Cardinality(late) + Cardinality(Writing) < MaxWrites
  BY DEF Room, Writing
<1>c. ASSUME NEW op \in Ops, NEW k \in Keys, Land(op, k)
      PROVE  Len(log') <= Len(log) + 1 /\ (op = "read" => log' = log)
  BY <1>a, <1>c, LandFields
<1>d. req' = req => Writing' = Writing
  BY DEF Writing
<1>1. CASE Quiet \/ ListNoted \/ settleMemo
  <2>1. UNCHANGED <<log, late, req>>
    BY <1>1 DEF Quiet, ListNoted, settleMemo, server
  <2> QED
    BY <1>a, <1>d, <2>1 DEF RoomInv
<1>2. CASE OtherWrites
  <2>1. UNCHANGED <<late, req>> /\ Room /\ Len(log') <= Len(log) + 1
    BY <1>2, <1>c DEF OtherWrites
  <2> QED
    BY <1>a, <1>b, <1>d, <2>1 DEF RoomInv
<1>3. CASE LandsLate
  <2>1. PICK w \in late : Land(w[1], w[2]) /\ late' = late \ {w} /\ req' = req
    BY <1>3 DEF LandsLate
  <2>2. w[1] \in Ops /\ w[2] \in Keys
    BY DEF TypeOK, Ops
  <2>3. Len(log') <= Len(log) + 1
    BY <1>c, <2>1, <2>2
  <2>4. IsFiniteSet(late') /\ Cardinality(late') = Cardinality(late) - 1
    BY <2>1, LateFields
  <2> QED
    BY <1>a, <1>d, <2>1, <2>3, <2>4 DEF RoomInv
<1>4. ASSUME NEW a \in Actors, Handled(a) \/ AnswerLost(a) PROVE RoomInv'
  <2>1. req[a].step = "sent" /\ req[a].key \in Keys /\ req[a].op \in Ops
    BY <1>4, Asked, IdleFields DEF Handled, AnswerLost
  <2>2. \E answer, wrote : Answered(a, answer, wrote)
    BY <1>4 DEF Handled, AnswerLost
  <2>3. /\ Writing' = Writing \ {a} /\ (req[a].op # "read" => a \in Writing)
        /\ (req[a].op = "read" => Writing' = Writing)
    BY <2>1, <2>2, AnsweredFields
  <2>4. \/ Land(req[a].op, req[a].key) /\ late' = late
        \/ req[a].op # "read" /\ log' = log /\ late' = late \cup {<<req[a].op, req[a].key>>}
    BY <1>4 DEF Handled, AnswerLost
  <2>5. CASE req[a].op = "read"
    BY <1>a, <1>c, <2>1, <2>3, <2>4, <2>5 DEF RoomInv
  <2>6. CASE req[a].op # "read"
    <3>1. Cardinality(Writing') = Cardinality(Writing) - 1
      BY <2>3, <2>6, WritingFields
    <3>2. CASE Land(req[a].op, req[a].key) /\ late' = late
      BY <1>a, <1>c, <2>1, <3>1, <3>2 DEF RoomInv
    <3>3. CASE log' = log /\ late' = late \cup {<<req[a].op, req[a].key>>}
      <4>1. IsFiniteSet(late') /\ Cardinality(late') <= Cardinality(late) + 1 /\ Cardinality(late') \in Nat
        BY <3>3, LateFields, FS_CardinalityType
      <4> QED
        BY <1>a, <3>1, <3>3, <4>1 DEF RoomInv
    <3> QED
      BY <2>4, <3>2, <3>3
  <2> QED
    BY <2>5, <2>6
<1>5. ASSUME NEW a \in Actors, NEW op \in Ops, NEW k \in Keys, Sends(a, op, k), op # "read" => Room
      PROVE  RoomInv'
  <2>1. UNCHANGED <<log, late>> /\ Writing' = IF op = "read" THEN Writing ELSE Writing \cup {a}
    BY <1>5, SendsFields DEF Sends, server
  <2>2. CASE op = "read"
    BY <1>a, <2>1, <2>2 DEF RoomInv
  <2>3. CASE op # "read"
    <3>1. Cardinality(Writing') <= Cardinality(Writing) + 1 /\ Cardinality(Writing') \in Nat
      BY <2>1, <2>3, WritingFields, FS_AddElement, FS_CardinalityType
    <3> QED
      BY <1>5, <1>a, <1>b, <2>1, <2>3, <3>1 DEF RoomInv
  <2> QED
    BY <2>2, <2>3
<1>6. ASSUME NEW a \in Actors, Noted(a) PROVE RoomInv'
  <2>1. UNCHANGED <<log, late>> /\ req' = [req EXCEPT ![a] = Idle] /\ req[a].step = "answered"
    BY <1>6 DEF Noted, server
  <2>2. Writing' = Writing
    BY <2>1, ReqFields, IdleFields DEF Writing
  <2> QED
    BY <1>a, <2>1, <2>2 DEF RoomInv
<1> QED
  BY <1>1, <1>2, <1>3, <1>4, <1>5, <1>6, Steps

\* The store goes on along the log, whether a kind is shared stays, and faults are counted.
LEMMA StoreFrame ==
    ASSUME TypeOK, [Next]_vars
    PROVE  at' \in at .. Len(log) /\ (ready' = ready \/ ready' = TRUE \/ ready' = FALSE)
           /\ shared' = shared /\ faults' \in 0 .. MaxFaults
<1>a. /\ at \in 0 .. Len(log) /\ Len(log) \in Nat /\ at \in at .. Len(log)
      /\ faults \in 0 .. MaxFaults /\ (faults < MaxFaults => faults + 1 \in 0 .. MaxFaults)
  BY LogGrows, BoundsAssumption DEF TypeOK
<1>1. WatchDelivers => at' \in at .. Len(log) /\ UNCHANGED <<ready, shared, faults>>
  BY <1>a DEF WatchDelivers
<1>b. Synced => at' \in at .. Len(log) /\ ready' = TRUE /\ UNCHANGED <<shared, faults>>
  BY DEF Synced
<1>2. WatchRefused => ready' = FALSE /\ UNCHANGED <<at, shared>> /\ faults' \in 0 .. MaxFaults
  BY <1>a DEF WatchRefused
<1>3. \A a \in Actors : Handled(a) => UNCHANGED <<at, ready, shared, faults>>
  BY DEF Handled, store
<1>4. \A a \in Actors : AnswerLost(a) => UNCHANGED <<at, ready, shared>> /\ faults' \in 0 .. MaxFaults
  BY <1>a DEF AnswerLost, store
<1>5. ListFails => UNCHANGED <<at, ready, shared>> /\ faults' \in 0 .. MaxFaults
  BY <1>a DEF ListFails, store
<1>6. OtherWrites \/ LandsLate \/ List \/ PassSends \/ WorkerSends \/ PassNotes \/ WorkerNotes \/ UNCHANGED vars =>
        UNCHANGED <<at, ready, shared, faults>>
  BY DEF OtherWrites, LandsLate, List, CurrentList, ListKeys, TakesCopy, ReadFresh, AllListed, SendList, ListHandled,
         ListNoted, settleMemo, StartList, PassSends, WorkerSends, Sends, PassNotes, WorkerNotes, Noted, vars, store
<1> QED
  BY <1>a, <1>1, <1>b, <1>2, <1>3, <1>4, <1>5, <1>6 DEF Next

\* Records have versions.
LEMMA RecordFields ==
    /\ \A r \in Records : r.v \in Versions
    /\ NoRecord \in Records /\ Gone \in Records /\ Unknown \in Records
    /\ NoRecord.v = 0 /\ Gone.v = 0
    /\ NoRecord.kind = "none" /\ Gone.kind = "gone" /\ Unknown.kind = "unknown"
    /\ \A v : Copy(v).kind = "copy" /\ Copy(v).v = v
    /\ \A v \in Versions : v # 0 => Copy(v) \in Records
<1>1. /\ NoRecord.v = 0 /\ Gone.v = 0 /\ Unknown.v = 0
      /\ NoRecord.kind = "none" /\ Gone.kind = "gone" /\ Unknown.kind = "unknown"
  BY DEF NoRecord, Gone, Unknown
<1>2. \A v : Copy(v).kind = "copy" /\ Copy(v).v = v
  BY DEF Copy
<1>3. NoRecord \in Records /\ Gone \in Records /\ Unknown \in Records
  BY DEF Records
<1>4. \A v \in Versions : v # 0 => Copy(v) \in Records
  BY BoundsAssumption DEF Records, Versions
<1>5. ASSUME NEW r \in Records PROVE r.v \in Versions
  <2>1. r \in {NoRecord, Gone, Unknown} \/ \E v \in 1 .. MaxWrites : r = Copy(v)
    BY DEF Records
  <2>2. 0 \in Versions /\ \A v \in 1 .. MaxWrites : v \in Versions
    BY BoundsAssumption DEF Versions
  <2> QED
    BY <1>1, <1>2, <2>1, <2>2
<1> QED
  BY <1>1, <1>2, <1>3, <1>4, <1>5

\* An answer is a record.
LEMMA AnswerType ==
    ASSUME TypeOK, RoomInv, NEW a \in Actors, req[a].step = "sent"
    PROVE  /\ AnswerOf(req[a].op, req[a].key) \in Records
           /\ Landing(req[a].op, req[a].key) \in Versions
<1>a. req[a].key \in Keys /\ req[a].op \in Ops
  BY Asked, IdleFields
<1>b. Len(log) \in Nat /\ Len(log) <= MaxWrites /\ MaxWrites \in Nat
  BY BoundsAssumption DEF TypeOK
<1>1. req[a].op # "read" => Len(log) + 1 \in 1 .. MaxWrites
  <2> SUFFICES ASSUME req[a].op # "read" PROVE Len(log) + 1 \in 1 .. MaxWrites
    OBVIOUS
  <2>1. a \in Writing
    BY DEF Writing
  <2>2. Cardinality(Writing \ {a}) = Cardinality(Writing) - 1 /\ Cardinality(Writing \ {a}) \in Nat
    BY <2>1, WritingFields, FS_RemoveElement, FS_CardinalityType
  <2> QED
    BY <1>b, <2>2, WritingFields, LateFields DEF RoomInv
<1>2. Stored(req[a].key) \in 0 .. MaxWrites
  <2>1. Stored(req[a].key) \in 0 .. Len(log)
    BY <1>a, <1>b, VersionFacts DEF VersionInv, Stored
  <2> QED
    BY <1>b, <2>1
<1>3. Landing(req[a].op, req[a].key) \in Versions
  BY <1>1, <1>b, <1>a DEF Landing, Takes, Versions
<1>4. AnswerOf(req[a].op, req[a].key) \in Records
  <2>1. Stored(req[a].key) # 0 => Copy(Stored(req[a].key)) \in Records
    BY <1>2, RecordFields DEF Versions
  <2>2. req[a].op # "read" => Copy(Len(log) + 1) \in Records
    BY <1>1, RecordFields, <1>b DEF Versions
  <2> QED
    BY <1>a, <2>1, <2>2, RecordFields DEF AnswerOf
<1> QED
  BY <1>3, <1>4

\* A version is a number that the log can reach.
LEMMA VersionType ==
    ASSUME TypeOK, NEW k \in Keys
    PROVE  Held(k) \in Versions /\ Stored(k) \in Versions /\ Held(k) \in 0 .. at /\ Stored(k) \in 0 .. Len(log)
<1>1. Len(log) \in Nat /\ at \in 0 .. Len(log) /\ Len(log) <= MaxWrites /\ MaxWrites \in Nat
  BY BoundsAssumption DEF TypeOK
<1>2. Held(k) \in 0 .. at /\ Stored(k) \in 0 .. Len(log)
  BY <1>1, VersionFacts DEF VersionInv, Held, Stored
<1> QED
  BY <1>1, <1>2 DEF Versions


\* A step keeps the types.
LEMMA TypeStep == TypeOK /\ RoomInv /\ [Next]_vars => TypeOK'
<1> SUFFICES ASSUME TypeOK, RoomInv, [Next]_vars PROVE TypeOK'
  OBVIOUS
<1>a. /\ seen \in [Keys -> Records] /\ holder \in [Keys -> Actors \cup {None}] /\ owned \in [Keys -> Versions]
      /\ since \subseteq Keys /\ dropped \subseteq Keys /\ list \in ListStates
      /\ req \in [Actors -> Requests \cup {Idle}] /\ late \subseteq {"create", "update", "delete"} \X Keys
      /\ 0 \in Versions /\ NoList \in ListStates
  BY BoundsAssumption DEF TypeOK, Versions, NoList, ListStates
<1>b. list.keys \subseteq Keys /\ list.copies \in [Keys -> Versions] /\ list.due \in [Keys -> Versions]
      /\ NoList.copies \in [Keys -> Versions]
  BY <1>a DEF ListStates
<1>1. /\ log' \in Seq([key : Keys, live : BOOLEAN]) /\ Len(log') <= MaxWrites
      /\ at' \in 0 .. Len(log') /\ faults' \in 0 .. MaxFaults
  <2>1. Len(log') \in Nat /\ Cardinality(late') \in Nat /\ Cardinality(Writing') \in Nat /\ MaxWrites \in Nat
    <3>1. IsFiniteSet(late') /\ IsFiniteSet(Writing')
      <4>1. IsFiniteSet(Actors)
        <5>1. Actors = {} \cup {Pass} \cup {Worker}
          BY DEF Actors
        <5>2. IsFiniteSet({} \cup {Pass})
          BY FS_EmptySet, FS_AddElement, Zenon
        <5> QED
          BY <5>1, <5>2, FS_AddElement, Zenon
      <4> QED
        BY <4>1, RoomStep, FS_Subset, Zenon DEF RoomInv, Writing
    <3> QED
      BY <3>1, FS_CardinalityType, LogGrows, BoundsAssumption
  <2>2. Len(log') + Cardinality(late') + Cardinality(Writing') <= MaxWrites
    BY RoomStep DEF RoomInv
  <2>3. at \in 0 .. Len(log) /\ at' \in at .. Len(log)
    BY StoreFrame DEF TypeOK
  <2>4. at' \in 0 .. Len(log')
    BY <2>1, <2>3, LogGrows
  <2>5. Len(log') <= MaxWrites
    BY <2>1, <2>2
  <2>6. log' \in Seq([key : Keys, live : BOOLEAN])
    BY LogGrows, Zenon DEF Writes
  <2> QED
    BY <2>4, <2>5, <2>6, StoreFrame
<1>2. (ready' = ready \/ ready' = TRUE \/ ready' = FALSE) /\ shared' = shared
  BY StoreFrame
<1>3. ready' \in BOOLEAN /\ shared' \in BOOLEAN
  BY <1>2, Zenon DEF TypeOK
<1>4. ASSUME NEW a \in Actors, Noted(a)
      PROVE  /\ seen' \in [Keys -> Records] /\ since' \subseteq Keys /\ holder' \in [Keys -> Actors \cup {None}]
             /\ owned' \in [Keys -> Versions] /\ req' \in [Actors -> Requests \cup {Idle}]
             /\ late' = late /\ dropped' = dropped
             /\ req[a].answer.v \in Versions /\ req[a].key \in Keys
  <2>1. /\ req[a] # Idle /\ req[a].key \in Keys /\ req[a].answer \in Records /\ req[a].wrote \in Versions
        /\ req[a].answer.v \in Versions
    BY <1>4, Asked, IdleFields, RecordFields DEF Noted
  <2> QED
    BY <1>4, <1>a, <2>1 DEF Noted, server
<1>5. ASSUME NEW a \in Actors, Handled(a) \/ AnswerLost(a)
      PROVE  /\ req' \in [Actors -> Requests \cup {Idle}] /\ late' \subseteq {"create", "update", "delete"} \X Keys
             /\ UNCHANGED <<seen, since, holder, owned, dropped, list>>
  <2>1. req[a].step = "sent" /\ req[a].key \in Keys /\ req[a].op \in Ops /\ req[a] # Idle
    BY <1>5, Asked, IdleFields DEF Handled, AnswerLost
  <2>2. PICK answer, wrote : Answered(a, answer, wrote) /\ answer \in Records /\ wrote \in Versions
    BY <1>5, <1>a, <2>1, AnswerType, RecordFields DEF Handled, AnswerLost
  <2>3. [step |-> "answered", key |-> req[a].key, op |-> req[a].op, answer |-> answer, wrote |-> wrote] \in Requests
    BY <2>1, <2>2 DEF Requests
  <2>4. req' \in [Actors -> Requests \cup {Idle}]
    BY <1>a, <2>2, <2>3 DEF Answered
  <2>5. late' \subseteq {"create", "update", "delete"} \X Keys
    <3>1. late' = late \/ (req[a].op # "read" /\ late' = late \cup {<<req[a].op, req[a].key>>})
      BY <1>5 DEF Handled, AnswerLost
    <3>2. req[a].op # "read" => <<req[a].op, req[a].key>> \in {"create", "update", "delete"} \X Keys
      BY <2>1 DEF Ops
    <3> QED
      BY <1>a, <3>1, <3>2
  <2> QED
    BY <1>5, <2>4, <2>5 DEF Handled, AnswerLost, memo
<1>6. ASSUME NEW a \in Actors, NEW op \in Ops, NEW k \in Keys, Sends(a, op, k), since' = since
      PROVE  /\ req' \in [Actors -> Requests \cup {Idle}] /\ holder' \in [Keys -> Actors \cup {None}]
             /\ UNCHANGED <<seen, since, late, owned, dropped>>
  <2>1. req' \in [Actors -> Requests \cup {Idle}]
    <3>1. req'[a] \in Requests
      BY <1>6, SendsFields
    <3> QED
      BY <1>6, <1>a, <3>1 DEF Sends
  <2> QED
    BY <1>6, <1>a, <2>1 DEF Sends, server
<1>7. ASSUME ListNoted
      PROVE  /\ seen' \in [Keys -> Records] /\ since' \subseteq Keys
             /\ UNCHANGED <<holder, req, late, owned, dropped>>
  <2>1. seen' \in [Keys -> Records]
    <3>1. \A k \in Keys : list.copies[k] # 0 => Copy(list.copies[k]) \in Records
      BY <1>b, RecordFields
    <3> QED
      BY <1>7, <1>a, <3>1 DEF ListNoted
  <2> QED
    BY <1>7, <1>a, <2>1 DEF ListNoted, server
<1>8. ASSUME settleMemo
      PROVE  /\ seen' \in [Keys -> Records] /\ since' \subseteq Keys /\ holder' \in [Keys -> Actors \cup {None}]
             /\ dropped' \subseteq Keys /\ UNCHANGED <<req, owned, late>>
  <2>1. UNCHANGED <<req, owned, late>>
    BY <1>8 DEF settleMemo, server
  <2>2. seen' \in [Keys -> Records] /\ since' \subseteq Keys /\ holder' \in [Keys -> Actors \cup {None}] /\ dropped' \subseteq Keys
    <3>1. ASSUME NEW keys \in SUBSET Keys, Forget(keys)
          PROVE  seen' \in [Keys -> Records] /\ since' \subseteq Keys /\ holder' \in [Keys -> Actors \cup {None}] /\ dropped' \subseteq Keys
      <4>1. seen' \in [Keys -> Records]
        BY <3>1, <1>a, RecordFields DEF Forget
      <4>2. holder' \in [Keys -> Actors \cup {None}]
        BY <3>1, <1>a DEF Forget
      <4> QED
        BY <3>1, <1>a, <4>1, <4>2 DEF Forget
    <3> QED
      BY <1>8, <1>a, <3>1 DEF settleMemo, memo, gone, stored
  <2> QED
    BY <2>1, <2>2
<1>9. list' \in ListStates
  <2>a. ASSUME NEW step \in {"idle", "keys", "each", "sent", "answered", "settle"}, NEW keys \in SUBSET Keys,
               NEW copies \in [Keys -> Versions], NEW due \in [Keys -> Versions],
               list' = [step |-> step, keys |-> keys, copies |-> copies, due |-> due]
        PROVE  list' \in ListStates
    BY <2>a DEF ListStates
  <2>b. ASSUME NEW k \in Keys, NEW v \in Versions, Lists(k, v) PROVE list' \in ListStates
    <3>1. [list.copies EXCEPT ![k] = v] \in [Keys -> Versions] /\ list.keys \ {k} \in SUBSET Keys
      BY <1>b
    <3>2. list.step \in {"idle", "keys", "each", "sent", "answered", "settle"}
      BY <1>a DEF ListStates
    <3> QED
      BY <2>a, <2>b, <1>b, <3>1, <3>2 DEF Lists
  <2>1. ASSUME NEW step \in {"keys", "sent"}, NEW keys \in SUBSET Keys, StartList(step, keys) PROVE list' \in ListStates
    <3>1. Due \in [Keys -> Versions]
      BY <1>a DEF Due
    <3> QED
      BY <1>b, <2>a, <2>1, <3>1 DEF StartList
  <2>2. CurrentList \/ SendList => list' \in ListStates
    BY <2>1 DEF CurrentList, SendList, keysOf, Unheld
  <2>3. ListKeys => list' \in ListStates
    BY <1>b, <2>a DEF ListKeys, keysOf, StoreKeys
  <2>4. TakesCopy => list' \in ListStates
    BY <1>b, <2>b, VersionType DEF TakesCopy
  <2>5. AllListed \/ ListNoted => list' \in ListStates
    BY <1>a DEF AllListed, ListNoted, ListStates
  <2>6. ListHandled => list' \in ListStates
    BY <1>b, <2>a, VersionType DEF ListHandled
  <2>7. ListFails \/ settleMemo => list' \in ListStates
    BY <1>a DEF ListFails, settleMemo
  <2>8. PassNotes => list' \in ListStates
    <3>1. Pass \in Actors
      BY DEF Actors
    <3> QED
      BY <1>4, <1>a, <2>b, <3>1 DEF PassNotes
  <2>9. \A a \in Actors : Handled(a) \/ AnswerLost(a) => list' = list
    BY DEF Handled, AnswerLost
  <2>10. WatchDelivers \/ Synced \/ WatchRefused \/ OtherWrites \/ LandsLate \/ PassSends \/ WorkerSends \/ WorkerNotes
           \/ ReadFresh \/ UNCHANGED vars => list' = list
    BY DEF WatchDelivers, Synced, WatchRefused, OtherWrites, LandsLate, PassSends, WorkerSends, WorkerNotes, ReadFresh, vars
  <2> QED
    BY <1>a, <2>2, <2>3, <2>4, <2>5, <2>6, <2>7, <2>8, <2>9, <2>10 DEF Next, List
<1>10. CASE Quiet
  <2>1. since' \subseteq Keys
    BY <1>10, <1>a DEF Quiet, SendList
  <2> QED
    BY <1>10, <1>1, <1>3, <1>9, <1>a, <2>1 DEF Quiet, TypeOK
<1>11. CASE OtherWrites \/ LandsLate
  <2>1. UNCHANGED <<seen, since, holder, req, owned, dropped>> /\ late' \subseteq late
    BY <1>11 DEF OtherWrites, LandsLate, memo
  <2> QED
    BY <1>1, <1>3, <1>9, <1>a, <2>1 DEF TypeOK
<1> QED
  BY <1>1, <1>3, <1>4, <1>5, <1>6, <1>7, <1>8, <1>9, <1>10, <1>11, <1>a, Steps DEF TypeOK

-----------------------------------------------------------------------------
(* What a step does to one object, to one request and to the list. *)

\* An object's last own write changes with a note, and so does the record; a list and
\* the end of a pass change the record too.
LEMMA KeyFrame ==
    ASSUME TypeOK, [Next]_vars, NEW k \in Keys
    PROVE  /\ dropped \subseteq dropped' /\ (k \in since => k \in since' \/ SendList \/ settleMemo)
           /\ \/ owned'[k] = owned[k] /\ seen'[k] = seen[k]
              \/ \E a \in Actors : /\ Noted(a) /\ req[a].key = k /\ k \in since' /\ seen'[k] = req[a].answer
                                   /\ owned'[k] = owned[k] \/ owned'[k] = req[a].wrote
                                   /\ owned'[k] >= owned[k] /\ owned'[k] >= req[a].wrote
              \/ ListNoted /\ k \notin since /\ owned'[k] = owned[k]
                    /\ list.copies[k] # 0 /\ seen'[k] = Copy(list.copies[k])
              \/ settleMemo /\ owned'[k] = owned[k] /\ seen'[k] = NoRecord /\ (k \notin dropped' => owned[k] <= at)
           /\ ~settleMemo => dropped' = dropped
<1>a. owned \in [Keys -> Versions] /\ seen \in [Keys -> Records] /\ at \in Nat /\ \A v \in Versions : v \in Nat
  BY BoundsAssumption, LogGrows DEF TypeOK, Versions
<1>1. CASE Quiet
  <2>1. ~settleMemo => dropped' = dropped
    BY <1>1 DEF Quiet
  <2> QED
    BY <1>1, <2>1 DEF Quiet
<1>2. CASE OtherWrites \/ LandsLate
  BY <1>2 DEF OtherWrites, LandsLate, memo
<1>3. ASSUME NEW a \in Actors, Handled(a) \/ AnswerLost(a) PROVE UNCHANGED <<seen, since, owned, dropped>>
  BY <1>3 DEF Handled, AnswerLost, memo
<1>4. ASSUME NEW a \in Actors, NEW op \in Ops, NEW kk \in Keys, Sends(a, op, kk), since' = since
      PROVE  UNCHANGED <<seen, since, owned, dropped>>
  BY <1>4 DEF Sends
<1>5. ASSUME NEW a \in Actors, Noted(a)
      PROVE  /\ dropped' = dropped /\ (k \in since => k \in since')
             /\ \/ owned'[k] = owned[k] /\ seen'[k] = seen[k]
                \/ /\ req[a].key = k /\ k \in since' /\ seen'[k] = req[a].answer
                   /\ owned'[k] = owned[k] \/ owned'[k] = req[a].wrote
                   /\ owned'[k] >= owned[k] /\ owned'[k] >= req[a].wrote
  <2>1. req[a].key \in Keys /\ req[a].wrote \in Versions
    BY <1>5, Asked, IdleFields DEF Noted
  <2>2. CASE req[a].key = k
    <3>1. owned'[k] = IF req[a].wrote > owned[k] THEN req[a].wrote ELSE owned[k]
      BY <1>5, <1>a, <2>2 DEF Noted
    <3>2. seen'[k] = req[a].answer /\ since' = since \cup {k} /\ dropped' = dropped
      BY <1>5, <1>a, <2>2 DEF Noted
    <3> QED
      BY <1>a, <2>1, <2>2, <3>1, <3>2
  <2>3. CASE req[a].key # k
    BY <1>5, <1>a, <2>1, <2>3 DEF Noted
  <2> QED
    BY <2>2, <2>3
<1>6. CASE ListNoted
  <2>1. /\ dropped' = dropped /\ owned' = owned /\ (k \in since => k \in since')
        /\ seen'[k] = IF list.copies[k] # 0 /\ k \notin since THEN Copy(list.copies[k]) ELSE seen[k]
    BY <1>6 DEF ListNoted, mayNote
  <2> QED
    BY <1>6, <2>1
<1>7. CASE settleMemo
  <2>1. owned' = owned
    BY <1>7 DEF settleMemo
  <2>2. ASSUME NEW keys \in SUBSET Keys, Forget(keys)
        PROVE  dropped \subseteq dropped' /\ (seen'[k] = seen[k] \/ (seen'[k] = NoRecord /\ (k \notin dropped' => owned[k] <= at)))
    BY <2>2, <1>a DEF Forget
  <2>3. gone \cup stored \in SUBSET Keys
    BY DEF gone, stored
  <2>4. dropped \subseteq dropped' /\ (seen'[k] = seen[k] \/ (seen'[k] = NoRecord /\ (k \notin dropped' => owned[k] <= at)))
    BY <1>7, <2>2, <2>3 DEF settleMemo, memo
  <2> QED
    BY <1>7, <2>1, <2>4
<1> QED
  BY <1>1, <1>2, <1>3, <1>4, <1>5, <1>6, <1>7, Steps

\* What becomes of a goroutine's request.
LEMMA ReqFrame ==
    ASSUME TypeOK, [Next]_vars, NEW a \in Actors
    PROVE  \/ req'[a] = req[a] /\ ~Noted(a)
           \/ \E op \in Ops, k \in Keys : Sends(a, op, k) /\ (a = Pass => list.step \in {"idle", "each"} /\ list' = list)
           \/ Handled(a) \/ AnswerLost(a)
           \/ Noted(a) /\ req'[a] = Idle
<1>1. ASSUME NEW b \in Actors, b # a, Handled(b) \/ AnswerLost(b) PROVE req'[a] = req[a]
  <2>1. req[b].step = "sent" /\ \E answer, wrote : Answered(b, answer, wrote)
    BY <1>1 DEF Handled, AnswerLost
  <2> QED
    BY <1>1, <2>1, AnsweredFields
<1>2. ASSUME NEW b \in Actors, b # a, NEW op \in Ops, NEW k \in Keys, Sends(b, op, k) PROVE req'[a] = req[a]
  BY <1>2, SendsFields
<1>3. ASSUME NEW b \in Actors, Noted(b) PROVE IF b = a THEN req'[a] = Idle ELSE req'[a] = req[a]
  BY <1>3, ReqFields DEF Noted
<1>4. Quiet \/ OtherWrites \/ LandsLate \/ ListNoted \/ settleMemo => req' = req
  BY DEF Quiet, OtherWrites, LandsLate, ListNoted, settleMemo
<1>5. req'[a] = req[a] /\ Noted(a) => req'[a] = Idle
  BY <1>3
<1> QED
  BY <1>1, <1>2, <1>3, <1>4, <1>5, Steps

\* What becomes of the pass's list.
LEMMA ListFrame ==
    ASSUME TypeOK, LockInv, [Next]_vars
    PROVE  \/ list' = list
           \/ list' = NoList
           \/ CurrentList \/ SendList \/ ListKeys \/ TakesCopy \/ AllListed \/ ListHandled \/ ListNoted
           \/ list.step = "each" /\ Noted(Pass) /\ req[Pass].answer # Unknown /\ Lists(req[Pass].key, req[Pass].answer.v)
<1>1. \A a \in Actors : Handled(a) \/ AnswerLost(a) => list' = list
  BY DEF Handled, AnswerLost
<1>2. WatchDelivers \/ Synced \/ WatchRefused \/ OtherWrites \/ LandsLate \/ PassSends \/ WorkerSends \/ WorkerNotes
        \/ ReadFresh \/ UNCHANGED vars => list' = list
  BY DEF WatchDelivers, Synced, WatchRefused, OtherWrites, LandsLate, PassSends, WorkerSends, WorkerNotes, ReadFresh, vars
<1>3. ListFails \/ settleMemo => list' = NoList
  BY DEF ListFails, settleMemo
<1>4. PassNotes => list.step \in {"idle", "each"}
  BY IdleFields DEF PassNotes, Noted, LockInv
<1>5. PassNotes => \/ list' = list \/ list' = NoList
                   \/ list.step = "each" /\ Noted(Pass) /\ req[Pass].answer # Unknown /\ Lists(req[Pass].key, req[Pass].answer.v)
  BY <1>4 DEF PassNotes
<1> QED
  BY <1>1, <1>2, <1>3, <1>5 DEF Next, List

\* The list takes one object, or leaves it out.
LEMMA ListsFields ==
    ASSUME TypeOK, NEW k \in Keys, NEW v \in Versions, Lists(k, v)
    PROVE  /\ list'.step = list.step /\ list'.keys = list.keys \ {k} /\ list'.due = list.due
           /\ list'.copies[k] = v /\ \A j \in Keys \ {k} : list'.copies[j] = list.copies[j]
  BY DEF TypeOK, ListStates, Lists

\* The end of a list's requests.
LEMMA StepFields ==
    ASSUME TypeOK, NEW s, list' = [list EXCEPT !.step = s]
    PROVE  /\ list'.step = s /\ list'.keys = list.keys /\ list'.due = list.due /\ list'.copies = list.copies
  BY DEF TypeOK, ListStates

-----------------------------------------------------------------------------
(* The invariant. *)

\* A step keeps the program's last writes in the log.
LEMMA LogStep == TypeOK /\ LogInv /\ AnswerInv /\ [Next]_vars => LogInv'
<1> SUFFICES ASSUME TypeOK, LogInv, AnswerInv, [Next]_vars, NEW k \in Keys, owned'[k] # 0
             PROVE  owned'[k] <= Len(log') /\ log'[owned'[k]].key = k
  BY DEF LogInv, WritesAt
<1>a. \A v \in Versions : v \in Nat
  BY BoundsAssumption DEF Versions
<1>1. owned'[k] \in Versions /\ owned'[k] <= Len(log) /\ WritesAt(k, owned'[k])
  <2>1. CASE owned'[k] = owned[k]
    BY <2>1 DEF LogInv, TypeOK
  <2>2. ASSUME NEW a \in Actors, Noted(a), req[a].key = k, owned'[k] = req[a].wrote
        PROVE  owned'[k] \in Versions /\ owned'[k] <= Len(log) /\ WritesAt(k, owned'[k])
    BY <2>2, Asked, IdleFields DEF Noted, AnswerInv
  <2> QED
    BY <2>1, <2>2, KeyFrame
<1>2. owned'[k] \in 1 .. Len(log)
  BY <1>a, <1>1, LogGrows
<1>3. log'[owned'[k]].key = k
  <2>1. log'[owned'[k]] = log[owned'[k]]
    BY <1>2, LogGrows
  <2> QED
    BY <1>1, <2>1, Zenon DEF WritesAt
<1> QED
  BY <1>2, <1>3, LogGrows

\* A step keeps the locks with the requests.
LEMMA LockStep == TypeOK /\ LockInv /\ [Next]_vars => LockInv'
<1> SUFFICES ASSUME TypeOK, LockInv, [Next]_vars PROVE LockInv'
  OBVIOUS
<1>a. None \notin Actors /\ holder \in [Keys -> Actors \cup {None}] /\ Pass \in Actors
  BY NamesAssumption DEF TypeOK, Actors
<1>1. (\A k \in Keys, a \in Actors : holder'[k] = a => req'[a] # Idle /\ req'[a].key = k)
      /\ (\A a \in Actors : req'[a] # Idle => req'[a].key \in dropped' \/ holder'[req'[a].key] = a)
  <2>1. CASE Quiet \/ OtherWrites \/ LandsLate \/ ListNoted
    <3>1. UNCHANGED <<req, holder, dropped>>
      BY <2>1 DEF Quiet, OtherWrites, LandsLate, ListNoted, memo
    <3> QED
      BY <3>1 DEF LockInv
  <2>2. ASSUME NEW b \in Actors, Handled(b) \/ AnswerLost(b)
        PROVE  (\A k \in Keys, a \in Actors : holder'[k] = a => req'[a] # Idle /\ req'[a].key = k)
               /\ (\A a \in Actors : req'[a] # Idle => req'[a].key \in dropped' \/ holder'[req'[a].key] = a)
    <3>1. req[b].step = "sent" /\ (\E answer, wrote : Answered(b, answer, wrote)) /\ UNCHANGED <<holder, dropped>>
      BY <2>2 DEF Handled, AnswerLost, memo
    <3>2. /\ req'[b].step = "answered" /\ req'[b].key = req[b].key
          /\ \A a \in Actors \ {b} : req'[a] = req[a]
      BY <3>1, AnsweredFields
    <3> QED
      BY <3>1, <3>2, IdleFields DEF LockInv
  <2>3. ASSUME NEW b \in Actors, NEW op \in Ops, NEW k0 \in Keys, Sends(b, op, k0)
        PROVE  (\A k \in Keys, a \in Actors : holder'[k] = a => req'[a] # Idle /\ req'[a].key = k)
               /\ (\A a \in Actors : req'[a] # Idle => req'[a].key \in dropped' \/ holder'[req'[a].key] = a)
    <3>1. /\ req[b] = Idle /\ holder[k0] = None /\ req'[b] # Idle /\ req'[b].key = k0
          /\ \A a \in Actors \ {b} : req'[a] = req[a]
      BY <2>3, SendsFields DEF mayLock
    <3>2. holder' = [holder EXCEPT ![k0] = b] /\ dropped' = dropped
      BY <2>3 DEF Sends
    <3>3. holder'[k0] = b /\ \A k \in Keys \ {k0} : holder'[k] = holder[k]
      BY <1>a, <3>2
    <3>4. \A a \in Actors : req[a] # Idle => req[a].key \in Keys
      BY Asked
    <3> QED
      BY <1>a, <3>1, <3>2, <3>3, <3>4 DEF LockInv
  <2>4. ASSUME NEW b \in Actors, Noted(b)
        PROVE  (\A k \in Keys, a \in Actors : holder'[k] = a => req'[a] # Idle /\ req'[a].key = k)
               /\ (\A a \in Actors : req'[a] # Idle => req'[a].key \in dropped' \/ holder'[req'[a].key] = a)
    <3>1. req[b] # Idle /\ req[b].key \in Keys
      BY <2>4, Asked, IdleFields DEF Noted
    <3>2. req'[b] = Idle /\ (\A a \in Actors \ {b} : req'[a] = req[a]) /\ dropped' = dropped
      BY <2>4, ReqFields DEF Noted
    <3>3. holder'[req[b].key] = (IF holder[req[b].key] = b THEN None ELSE holder[req[b].key])
          /\ \A k \in Keys \ {req[b].key} : holder'[k] = holder[k]
      BY <2>4, <1>a, <3>1 DEF Noted
    <3>4. \A a \in Actors : req[a] # Idle => req[a].key \in Keys
      BY Asked
    <3> QED
      BY <1>a, <3>1, <3>2, <3>3, <3>4 DEF LockInv
  <2>5. CASE settleMemo
    <3>1. req' = req
      BY <2>5 DEF settleMemo
    <3>2. ASSUME NEW keys \in SUBSET Keys, Forget(keys)
          PROVE  /\ \A k \in Keys : holder'[k] = holder[k] \/ (holder'[k] = None /\ (holder[k] # None => k \in dropped'))
                 /\ dropped \subseteq dropped'
      BY <3>2 DEF Forget
    <3>3. gone \cup stored \in SUBSET Keys
      BY DEF gone, stored
    <3>4. /\ \A k \in Keys : holder'[k] = holder[k] \/ (holder'[k] = None /\ (holder[k] # None => k \in dropped'))
          /\ dropped \subseteq dropped'
      BY <2>5, <3>2, <3>3 DEF settleMemo, memo
    <3>5. \A a \in Actors : req[a] # Idle => req[a].key \in Keys
      BY Asked
    <3> QED
      BY <1>a, <3>1, <3>4, <3>5 DEF LockInv
  <2> QED
    BY <2>1, <2>2, <2>3, <2>4, <2>5, Steps
<1>2. list'.step \notin {"idle", "each"} => req'[Pass] = Idle
  <2> SUFFICES ASSUME list'.step \notin {"idle", "each"} PROVE req'[Pass] = Idle
    OBVIOUS
  <2>1. req[Pass] = Idle
    <3>1. CASE list' = list
      BY <3>1 DEF LockInv
    <3>2. CASE CurrentList \/ SendList \/ AllListed
      BY <3>2 DEF CurrentList, SendList, AllListed, StartList
    <3>3. CASE ListHandled \/ ListNoted \/ ListKeys
      BY <3>3 DEF ListHandled, ListNoted, ListKeys, LockInv
    <3>4. ~TakesCopy /\ ~(list.step = "each" /\ Noted(Pass) /\ Lists(req[Pass].key, req[Pass].answer.v))
      <4>1. TakesCopy => list'.step = "each"
        BY DEF TakesCopy, Lists
      <4>2. list.step = "each" /\ Lists(req[Pass].key, req[Pass].answer.v) => list'.step = "each"
        BY DEF Lists
      <4> QED
        BY <4>1, <4>2
    <3> QED
      BY <3>1, <3>2, <3>3, <3>4, ListFrame, IdleFields
  <2>2. ~Handled(Pass) /\ ~AnswerLost(Pass) /\ ~Noted(Pass)
    BY <2>1, IdleFields DEF Handled, AnswerLost, Noted
  <2>3. ASSUME NEW op \in Ops, NEW k \in Keys, Sends(Pass, op, k) PROVE FALSE
    BY <1>a, <2>1, <2>2, <2>3, ReqFrame, SendsFields, IdleFields
  <2> QED
    BY <1>a, <2>1, <2>2, <2>3, ReqFrame
<1> QED
  BY <1>1, <1>2 DEF LockInv

\* What the API server answers.
LEMMA AnswerFields ==
    ASSUME NEW op \in Ops, NEW k \in Keys
    PROVE  \/ AnswerOf(op, k) = Gone /\ (op = "delete" \/ (op # "create" /\ Stored(k) = 0))
           \/ AnswerOf(op, k) = Unknown
           \/ op = "read" /\ Stored(k) # 0 /\ AnswerOf(op, k) = Copy(Stored(k))
           \/ op \notin {"read", "delete"} /\ AnswerOf(op, k) = Copy(Len(log) + 1)
<1>1. op \in {"create", "update", "delete", "read"}
  BY DEF Ops
<1>2. CASE op = "delete"
  BY <1>2, Zenon DEF AnswerOf
<1>3. CASE op = "read"
  BY <1>3, Zenon DEF AnswerOf
<1>4. CASE op = "update"
  BY <1>4, Zenon DEF AnswerOf
<1>5. CASE op = "create"
  BY <1>5, Zenon DEF AnswerOf
<1> QED
  BY <1>1, <1>2, <1>3, <1>4, <1>5

\* An own write of an object is not newer than the object, or somebody deleted it.
LEMMA StoredStands ==
    ASSUME TypeOK, LogInv, NEW k \in Keys, owned[k] # 0
    PROVE  IF Stored(k) = 0 THEN Removed(k, owned[k]) ELSE owned[k] <= Stored(k)
<1>1. Len(log) \in 0 .. Len(log) /\ owned[k] \in 1 .. Len(log) /\ WritesAt(k, owned[k])
  <2>1. owned[k] \in Nat /\ Len(log) \in Nat
    BY BoundsAssumption DEF TypeOK, Versions
  <2> QED
    BY <2>1 DEF LogInv
<1> QED
  BY <1>1, VersionFacts DEF VersionInv, Stored, Removed

\* A step leaves no answer that is older than the program's writes.
LEMMA AnswerStep == TypeOK /\ LogInv /\ LockInv /\ AnswerInv /\ [Next]_vars => AnswerInv'
<1> SUFFICES ASSUME TypeOK, LogInv, LockInv, AnswerInv, [Next]_vars, NEW a \in Actors, req'[a].step = "answered",
                    NEW k, k = req'[a].key
             PROVE  /\ req'[a].answer # NoRecord
                    /\ req'[a].wrote # 0 => req'[a].wrote <= Len(log') /\ log'[req'[a].wrote].key = k
                    /\ k \notin dropped' => \A n \in {owned'[k], req'[a].wrote} : n # 0 =>
                         /\ req'[a].answer.kind = "copy" => n <= req'[a].answer.v
                         /\ req'[a].answer = Gone => \E i \in n .. Len(log') : DeletesAt(k, i)'
  BY DEF AnswerInv, Removed, WritesAt
<1>a. Len(log) \in Nat /\ Len(log') \in Nat /\ Len(log) <= Len(log') /\ \A v \in Versions : v \in Nat
  BY LogGrows, BoundsAssumption DEF Versions
<1>1. CASE req'[a] = req[a] /\ ~Noted(a)
  <2>1. req[a].step = "answered" /\ k = req[a].key /\ k \in Keys /\ req[a].wrote \in Nat /\ req[a] # Idle
    BY <1>1, <1>a, Asked, IdleFields
  <2>2. k \notin dropped' => k \notin dropped /\ owned'[k] = owned[k]
    <3> SUFFICES ASSUME k \notin dropped' PROVE k \notin dropped /\ owned'[k] = owned[k]
      OBVIOUS
    <3>1. k \notin dropped
      BY <2>1, KeyFrame
    <3>2. holder[k] = a
      BY <2>1, <3>1 DEF LockInv
    <3>3. ASSUME NEW b \in Actors, Noted(b), req[b].key = k PROVE FALSE
      <4>1. req[b] # Idle
        BY <3>3, IdleFields DEF Noted
      <4> QED
        BY <1>1, <3>1, <3>2, <3>3, <4>1 DEF LockInv
    <3> QED
      BY <2>1, <3>1, <3>3, KeyFrame
  <2>3. req[a].wrote # 0 => req[a].wrote \in 1 .. Len(log) /\ log[req[a].wrote].key = k
    BY <1>a, <2>1 DEF AnswerInv, WritesAt
  <2>4. req[a].wrote # 0 => req[a].wrote <= Len(log') /\ log'[req[a].wrote].key = k
    BY <1>a, <2>3, LogGrows
  <2>5. ASSUME k \notin dropped', NEW n \in {owned'[k], req'[a].wrote}, n # 0
        PROVE  /\ req'[a].answer.kind = "copy" => n <= req'[a].answer.v
               /\ req'[a].answer = Gone => \E i \in n .. Len(log') : DeletesAt(k, i)'
    <3>1. n \in {owned[k], req[a].wrote} /\ n \in Nat
      BY <1>1, <1>a, <2>1, <2>2, <2>5 DEF TypeOK
    <3>2. (req[a].answer.kind = "copy" => n <= req[a].answer.v) /\ (req[a].answer = Gone => Removed(k, n))
      BY <2>1, <2>2, <2>5, <3>1 DEF AnswerInv
    <3> QED
      BY <1>1, <2>1, <2>5, <3>1, <3>2, PlacesStay
  <2>6. req[a].answer # NoRecord
    BY <2>1 DEF AnswerInv
  <2> QED
    BY <1>1, <2>4, <2>5, <2>6
<1>2. CASE Handled(a) \/ AnswerLost(a)
  <2> DEFINE op == req[a].op
  <2>1. req[a].step = "sent" /\ req[a].key \in Keys /\ op \in Ops
    BY <1>2, Asked, IdleFields DEF Handled, AnswerLost
  <2>2. owned' = owned /\ dropped' = dropped
    BY <1>2 DEF Handled, AnswerLost
  <2>3. PICK answer, wrote :
          /\ Answered(a, answer, wrote)
          /\ \/ Land(op, req[a].key) /\ answer = AnswerOf(op, req[a].key) /\ wrote = Landing(op, req[a].key)
             \/ Land(op, req[a].key) /\ answer = Unknown /\ wrote = Landing(op, req[a].key)
             \/ answer = Unknown /\ wrote = 0
    BY <1>2 DEF Handled, AnswerLost
  <2>4. k = req[a].key /\ k \in Keys /\ req'[a].answer = answer /\ req'[a].wrote = wrote
    BY <2>1, <2>3, AnsweredFields
  <2>5. wrote # 0 => wrote = Len(log) + 1 /\ Len(log') = Len(log) + 1 /\ Takes(op, k)
                     /\ log'[Len(log')].key = k /\ (op = "delete" => DeletesAt(k, Len(log))')
    <3> SUFFICES ASSUME wrote # 0 PROVE wrote = Len(log) + 1 /\ Len(log') = Len(log) + 1 /\ Takes(op, k)
                     /\ log'[Len(log')].key = k /\ (op = "delete" => DeletesAt(k, Len(log))')
      OBVIOUS
    <3>1. /\ Takes(op, k) /\ wrote = Len(log) + 1 /\ Len(log') = Len(log) + 1
          /\ IF op = "delete" THEN DeletesAt(k, Len(log))' ELSE StandsAt(k, Len(log))'
      BY <2>1, <2>3, <2>4, LandFields
    <3>2. Write(k, TRUE).key = k /\ Write(k, FALSE).key = k
      BY Zenon DEF Write
    <3>3. log'[Len(log')].key = k
      BY <3>1, <3>2, Zenon DEF DeletesAt, StandsAt
    <3> QED
      BY <3>1, <3>3
  <2>6. /\ answer = Gone => op = "delete" \/ (op # "create" /\ Stored(k) = 0)
        /\ answer.kind = "copy" => \/ op = "read" /\ Stored(k) # 0 /\ answer = Copy(Stored(k))
                                   \/ op \notin {"read", "delete"} /\ answer = Copy(Len(log) + 1)
        /\ answer # NoRecord
    <3>1. Unknown.kind # "copy" /\ Gone.kind # "copy" /\ Unknown # Gone /\ Unknown # NoRecord /\ Gone # NoRecord
          /\ \A v : Copy(v) # Gone /\ Copy(v) # NoRecord
      BY RecordFields
    <3> QED
      BY <2>1, <2>3, <2>4, <3>1, AnswerFields
  <2>7. ASSUME NEW n \in {owned[k], wrote}, n # 0
        PROVE  /\ answer.kind = "copy" => n <= answer.v
               /\ answer = Gone => \E i \in n .. Len(log') : DeletesAt(k, i)'
    <3>1. n \in Nat /\ (n = owned[k] => n <= Len(log))
      BY <1>a, <2>4, <2>5, <2>7 DEF TypeOK, LogInv
    <3>2. answer.kind = "copy" => n <= answer.v
      <4>1. CASE op = "read" /\ Stored(k) # 0 /\ answer = Copy(Stored(k))
        <5>1. wrote = 0
          BY <2>3, <2>4, <4>1, LandFields, <2>5 DEF Takes
        <5> QED
          BY <2>4, <2>7, <4>1, <5>1, StoredStands, RecordFields
      <4>2. CASE answer = Copy(Len(log) + 1)
        BY <1>a, <2>5, <2>7, <3>1, <4>2, RecordFields
      <4> QED
        BY <2>6, <4>1, <4>2
    <3>3. ASSUME answer = Gone PROVE \E i \in n .. Len(log') : DeletesAt(k, i)'
      <4>1. CASE wrote # 0
        <5>1. op = "delete"
          BY <2>5, <2>6, <3>3, <4>1 DEF Takes
        <5>2. Len(log') \in n .. Len(log')
          BY <1>a, <2>5, <2>7, <3>1, <4>1
        <5>3. DeletesAt(k, Len(log))'
          BY <2>5, <4>1, <5>1
        <5>4. \E i \in n .. Len(log') : log'[i] = Write(k, FALSE)
          BY <5>2, <5>3, Zenon DEF DeletesAt
        <5> QED
          BY <5>4, Zenon DEF DeletesAt
      <4>2. CASE wrote = 0
        <5>1. n = owned[k]
          BY <2>7, <4>2
        <5>2. Stored(k) = 0
          <6>1. Takes(op, k) => Landing(op, k) = Len(log) + 1
            BY DEF Landing
          <6>2. answer = Unknown => FALSE
            BY <3>3, RecordFields
          <6>3. ~Takes(op, k)
            BY <1>a, <2>3, <2>4, <4>2, <6>1, <6>2
          <6> QED
            BY <2>6, <3>3, <6>3 DEF Takes
        <5> QED
          BY <2>4, <2>7, <3>1, <5>1, <5>2, StoredStands, PlacesStay
      <4> QED
        BY <4>1, <4>2
    <3> QED
      BY <3>2, <3>3
  <2> QED
    BY <1>a, <2>2, <2>4, <2>5, <2>6, <2>7
<1>3. CASE \E op \in Ops, k0 \in Keys : Sends(a, op, k0)
  BY <1>3, SendsFields
<1>4. CASE req'[a] = Idle
  BY <1>4, IdleFields
<1> QED
  BY <1>1, <1>2, <1>3, <1>4, ReqFrame

\* A step leaves no record that is older than the program's writes.
LEMMA NoteStep == TypeOK /\ LogInv /\ AnswerInv /\ NoteInv /\ FlightInv /\ [Next]_vars => NoteInv'
<1> SUFFICES ASSUME TypeOK, LogInv, AnswerInv, NoteInv, FlightInv, [Next]_vars, NEW k \in Keys, k \notin dropped'
             PROVE  /\ seen'[k] = NoRecord => owned'[k] <= at'
                    /\ seen'[k].kind = "copy" => owned'[k] <= seen'[k].v
                    /\ seen'[k] = Gone /\ owned'[k] # 0 => \E i \in owned'[k] .. Len(log') : DeletesAt(k, i)'
  BY DEF NoteInv, Removed
<1>a. /\ k \notin dropped /\ owned[k] \in Nat /\ Len(log) \in Nat /\ at \in Nat /\ at' \in Nat /\ at <= at'
      /\ \A v \in Versions : v \in Nat
  <2>1. Len(log) \in Nat /\ at \in 0 .. Len(log)
    BY DEF TypeOK
  <2>2. at' \in at .. Len(log)
    BY StoreFrame
  <2>3. k \notin dropped
    BY KeyFrame
  <2>4. owned[k] \in Nat /\ \A v \in Versions : v \in Nat
    BY BoundsAssumption DEF TypeOK, Versions
  <2> QED
    BY <2>1, <2>2, <2>3, <2>4
<1>1. CASE owned'[k] = owned[k] /\ seen'[k] = seen[k]
  <2>1. /\ seen[k] = NoRecord => owned[k] <= at
        /\ seen[k].kind = "copy" => owned[k] <= seen[k].v
        /\ seen[k] = Gone /\ owned[k] # 0 => Removed(k, owned[k])
    BY <1>a DEF NoteInv
  <2> QED
    BY <1>1, <1>a, <2>1, PlacesStay
<1>2. ASSUME NEW a \in Actors, Noted(a), req[a].key = k, seen'[k] = req[a].answer,
             owned'[k] = owned[k] \/ owned'[k] = req[a].wrote
      PROVE  /\ seen'[k] = NoRecord => owned'[k] <= at'
             /\ seen'[k].kind = "copy" => owned'[k] <= seen'[k].v
             /\ seen'[k] = Gone /\ owned'[k] # 0 => \E i \in owned'[k] .. Len(log') : DeletesAt(k, i)'
  <2>1. req[a].step = "answered" /\ req[a].answer.v \in Nat /\ owned'[k] \in Nat
    BY <1>2, <1>a, Asked, IdleFields, RecordFields DEF Noted
  <2>2. /\ req[a].answer # NoRecord
        /\ owned'[k] # 0 => (req[a].answer.kind = "copy" => owned'[k] <= req[a].answer.v)
                            /\ (req[a].answer = Gone => Removed(k, owned'[k]))
    BY <1>2, <1>a, <2>1 DEF AnswerInv
  <2>3. ASSUME NEW n \in Nat, n = owned'[k], n # 0, Removed(k, n) PROVE \E i \in owned'[k] .. Len(log') : DeletesAt(k, i)'
    BY <2>3, PlacesStay
  <2> QED
    BY <1>2, <2>1, <2>2, <2>3
<1>3. CASE ListNoted /\ k \notin since /\ owned'[k] = owned[k] /\ list.copies[k] # 0 /\ seen'[k] = Copy(list.copies[k])
  <2>1. owned[k] <= list.copies[k]
    BY <1>3 DEF ListNoted, FlightInv
  <2> QED
    BY <1>3, <2>1, RecordFields
<1>4. CASE owned'[k] = owned[k] /\ seen'[k] = NoRecord /\ owned[k] <= at
  BY <1>4, <1>a, RecordFields
<1> QED
  BY <1>1, <1>2, <1>3, <1>4, KeyFrame

\* What the list becomes.
LEMMA ListFields ==
    ASSUME TypeOK, LockInv, [Next]_vars
    PROVE  \/ list' = list
           \/ list' = NoList
           \/ /\ CurrentList \/ SendList
              /\ list.step = "idle" /\ list'.due = Due /\ UNCHANGED <<log, at, owned, seen, dropped>>
              /\ \/ list'.step = "sent"
                 \/ list'.step = "keys" /\ list'.keys = Unheld
           \/ /\ list'.due = list.due
              /\ \/ list.step = "keys" /\ list'.step = "each" /\ list'.keys = list.keys \cup StoreKeys
                 \/ list.step = "each" /\ list'.step = "settle" /\ list.keys = {} /\ list'.copies = list.copies
                 \/ list.step = "answered" /\ list'.step = "settle" /\ list'.copies = list.copies
                 \/ /\ list.step = "sent" /\ list'.step = "answered" /\ \A k \in Keys : list'.copies[k] = Stored(k)
                    /\ owned' = owned
                 \/ /\ list.step = "each" /\ list'.step = "each"
                    /\ \E k \in Keys, v \in Versions :
                         /\ list'.keys = list.keys \ {k} /\ list'.copies[k] = v
                         /\ \A j \in Keys \ {k} : list'.copies[j] = list.copies[j]
                         /\ \/ Answers(k) /\ v = Held(k)
                            \/ /\ req[Pass].step = "answered" /\ req[Pass].key = k
                               /\ req[Pass].answer # Unknown /\ v = req[Pass].answer.v
<1>1. CASE CurrentList \/ SendList
  <2>1. \E step, keys : StartList(step, keys) /\ ((step = "keys" /\ keys = Unheld) \/ step = "sent")
    BY <1>1 DEF CurrentList, SendList, keysOf
  <2>2. /\ list.step = "idle" /\ UNCHANGED <<log, at, owned, seen, dropped>>
        /\ list'.due = Due /\ (list'.step = "sent" \/ (list'.step = "keys" /\ list'.keys = Unheld))
    BY <2>1 DEF StartList, server, store
  <2> QED
    BY <1>1, <2>2
<1>2. CASE ListKeys
  BY <1>2 DEF ListKeys, keysOf
<1>3. CASE AllListed
  BY <1>3, StepFields DEF AllListed
<1>4. CASE ListNoted
  BY <1>4, StepFields DEF ListNoted
<1>5. CASE ListHandled
  BY <1>5 DEF ListHandled
<1>6. CASE TakesCopy
  <2>1. PICK k \in list.keys : Answers(k) /\ Lists(k, Held(k))
    BY <1>6 DEF TakesCopy
  <2>2. k \in Keys /\ list.step = "each"
    BY <1>6 DEF TypeOK, ListStates, TakesCopy
  <2>3. Held(k) \in Versions
    BY <2>2, VersionType
  <2> QED
    BY <2>1, <2>2, <2>3, ListsFields
<1>7. CASE list.step = "each" /\ Noted(Pass) /\ req[Pass].answer # Unknown /\ Lists(req[Pass].key, req[Pass].answer.v)
  <2>1. req[Pass].step = "answered" /\ req[Pass].key \in Keys /\ req[Pass].answer.v \in Versions
    <3>1. Pass \in Actors
      BY DEF Actors
    <3> QED
      BY <1>7, <3>1, Asked, IdleFields, RecordFields DEF Noted
  <2> QED
    BY <1>7, <2>1, ListsFields
<1> QED
  BY <1>1, <1>2, <1>3, <1>4, <1>5, <1>6, <1>7, ListFrame

\* A step leaves no answered list that is older than the writes noted before it was sent.
LEMMA FlightStep == TypeOK /\ LogInv /\ LockInv /\ FlightInv /\ [Next]_vars => FlightInv'
<1> SUFFICES ASSUME TypeOK, LogInv, LockInv, FlightInv, [Next]_vars, list'.step = "answered",
                    NEW k \in Keys, k \notin since', list'.copies[k] # 0
             PROVE  owned'[k] <= list'.copies[k]
  BY DEF FlightInv
<1>1. CASE list' = list
  <2>1. ~SendList /\ ~settleMemo
    BY <1>1 DEF SendList, settleMemo, StartList
  <2>2. k \notin since /\ owned'[k] = owned[k]
    BY <2>1, KeyFrame
  <2> QED
    BY <1>1, <2>2 DEF FlightInv
<1>2. CASE (\A j \in Keys : list'.copies[j] = Stored(j)) /\ owned' = owned
  <2>1. Stored(k) \in Nat
    BY VersionType, BoundsAssumption DEF Versions
  <2> QED
    BY <1>2, <2>1, StoredStands
<1> QED
  BY <1>1, <1>2, ListFields, IdleFields

\* A step leaves what a list must answer a write of the program that stands at its place.
LEMMA DueStep == TypeOK /\ LogInv /\ LockInv /\ DueInv /\ [Next]_vars => DueInv'
<1> SUFFICES ASSUME TypeOK, LogInv, LockInv, DueInv, [Next]_vars, NEW k \in Keys, NEW d, d = list'.due[k], d # 0
             PROVE  d <= owned'[k] /\ StandsAt(k, d)'
  BY DEF DueInv, StandsAt
<1>a. Len(log) \in Nat /\ owned[k] \in Nat /\ owned'[k] \in Nat /\ owned'[k] >= owned[k]
  <2>1. \A v \in Versions : v \in Nat
    BY BoundsAssumption DEF Versions
  <2>2. owned[k] \in Nat /\ Len(log) \in Nat
    BY <2>1 DEF TypeOK
  <2>3. \A a \in Actors : Noted(a) => req[a].wrote \in Nat
    BY <2>1, Asked, IdleFields DEF Noted
  <2> QED
    BY <2>2, <2>3, KeyFrame
<1>1. d <= owned[k] /\ StandsAt(k, d) /\ d \in Nat
  <2>1. CASE list'.due = list.due
    <3>1. list.due[k] \in Nat
      BY BoundsAssumption DEF TypeOK, ListStates, Versions
    <3> QED
      BY <2>1, <3>1 DEF DueInv
  <2>2. CASE list'.due = Due
    <3>1. d = owned[k] /\ log[owned[k]].live
      BY <2>2 DEF Due
    <3>2. owned[k] \in 1 .. Len(log) /\ WritesAt(k, owned[k])
      BY <1>a, <3>1 DEF LogInv
    <3> QED
      BY <1>a, <3>1, <3>2, AWrite DEF PlaceInv
  <2> QED
    BY <2>1, <2>2, ListFields, IdleFields
<1>2. d \in 1 .. Len(log)
  BY <1>1, <1>a DEF LogInv
<1> QED
  BY <1>1, <1>2, <1>a, PlacesStay

\* A copy that the memo calls current holds the program's writes.
LEMMA CurrentHolds ==
    ASSUME TypeOK, LogInv, NoteInv, NEW k \in Keys, k \notin dropped, Held(k) # 0, Current(k, Held(k))
    PROVE  Held(k) >= owned[k]
<1>1. Held(k) \in Nat /\ at \in 0 .. Len(log) /\ Len(log) \in Nat /\ owned[k] \in Nat
  BY VersionType, BoundsAssumption DEF TypeOK, Versions
<1>2. CASE seen[k] = NoRecord
  <2>1. owned[k] # 0 => owned[k] \in 1 .. at /\ WritesAt(k, owned[k])
    BY <1>1, <1>2 DEF NoteInv, LogInv
  <2>2. \A i \in 1 .. at : WritesAt(k, i) => i <= Held(k)
    BY <1>1, VersionFacts DEF VersionInv, Held
  <2> QED
    BY <1>1, <2>1, <2>2
<1>3. CASE seen[k] = Copy(Held(k))
  BY <1>1, <1>3, RecordFields DEF NoteInv
<1> QED
  BY <1>2, <1>3 DEF Current

\* A version that the store holds stays, unless the watch delivers a delete of it.
LEMMA HeldStays ==
    ASSUME TypeOK, TypeOK', [Next]_vars, NEW k \in Keys, Held(k) # 0,
           \A i \in at + 1 .. at' : ~DeletesAt(k, i)'
    PROVE  Held(k)' # 0
<1>1. /\ Len(log) \in Nat /\ at \in 0 .. Len(log) /\ at' \in at .. Len(log) /\ Len(log) <= Len(log') /\ Len(log') \in Nat
      /\ Held(k) \in 1 .. at
  <2>1. Len(log) \in Nat /\ at \in 0 .. Len(log) /\ Held(k) \in 0 .. at
    BY VersionType DEF TypeOK
  <2>2. at' \in at .. Len(log)
    BY StoreFrame
  <2>3. Len(log) <= Len(log') /\ Len(log') \in Nat
    BY LogGrows
  <2> QED
    BY <2>1, <2>2, <2>3
<1>2. StandsAt(k, Held(k)) /\ \A i \in 1 .. at : WritesAt(k, i) => i <= Held(k)
  BY <1>1, VersionFacts DEF VersionInv, Held
<1>3. VersionInv'
  BY VersionFacts, PTL
<1>4. PICK h \in 1 .. at : h = Held(k) /\ StandsAt(k, h) /\ WritesAt(k, h) /\ ~DeletesAt(k, h)
  BY <1>1, <1>2, AWrite DEF PlaceInv
<1>5. \A j \in h .. at : ~DeletesAt(k, j)
  <2> SUFFICES ASSUME NEW j \in h .. at, DeletesAt(k, j) PROVE FALSE
    OBVIOUS
  <2>1. j \in 1 .. at /\ j \in 1 .. Len(log)
    BY <1>1
  <2>2. WritesAt(k, j)
    BY <2>1, AWrite DEF PlaceInv
  <2> QED
    BY <1>1, <1>2, <1>4, <2>1, <2>2
<1>6. \A j \in h .. at' : ~DeletesAt(k, j)'
  <2> SUFFICES ASSUME NEW j \in h .. at' PROVE ~DeletesAt(k, j)'
    OBVIOUS
  <2>1. j \in 1 .. Len(log) /\ (j \in h .. at \/ j \in at + 1 .. at')
    BY <1>1
  <2> QED
    BY <2>1, <1>5, PlacesStay
<1>7. h \in 1 .. at' /\ WritesAt(k, h)' /\ at' \in 0 .. Len(log')
  <2>1. h \in 1 .. Len(log) /\ h \in 1 .. at' /\ at' \in 0 .. Len(log')
    BY <1>1
  <2> QED
    BY <1>4, <2>1, PlacesStay
<1>8. VersionIn(k, at)' = 0 => \A i \in 1 .. at' : WritesAt(k, i)' => \E j \in i .. at' : DeletesAt(k, j)'
  BY <1>3, <1>7 DEF VersionInv
<1> QED
  BY <1>6, <1>7, <1>8 DEF Held

\* A step leaves the list with what it must answer, or on its way to it.
LEMMA CopyStep == TypeOK /\ TypeOK' /\ LogInv /\ LockInv /\ AnswerInv /\ NoteInv /\ DueInv /\ CopyInv /\ [Next]_vars => CopyInv'
<1> SUFFICES ASSUME TypeOK, TypeOK', LogInv, LockInv, AnswerInv, NoteInv, DueInv, CopyInv, [Next]_vars,
                    NEW k \in Keys, k \notin dropped', NEW d, d = list'.due[k], d # 0,
                    \A i \in d + 1 .. Len(log') : ~DeletesAt(k, i)'
             PROVE  \/ list'.step = "sent"
                    \/ list'.step = "keys" /\ k \in list'.keys
                    \/ list'.step = "keys" /\ Held(k)' # 0 /\ \A i \in at' + 1 .. d : ~DeletesAt(k, i)'
                    \/ list'.step = "each" /\ k \in list'.keys
                    \/ list'.step \in {"each", "answered", "settle"} /\ d <= list'.copies[k]
  BY DEF CopyInv, Removed
<1>a. /\ Len(log) \in Nat /\ at \in 0 .. Len(log) /\ at' \in at .. Len(log) /\ Len(log') \in Nat /\ Len(log) <= Len(log')
      /\ k \notin dropped
  <2>1. Len(log) \in Nat /\ at \in 0 .. Len(log)
    BY DEF TypeOK
  <2> QED
    BY <2>1, StoreFrame, LogGrows, KeyFrame
<1>1. CASE list'.due = list.due
  <2>1. d \in Nat /\ d <= owned[k] /\ StandsAt(k, d) /\ owned[k] \in Nat /\ d = list.due[k]
    <3>1. list.due[k] \in Nat /\ owned[k] \in Nat
      BY BoundsAssumption DEF TypeOK, ListStates, Versions
    <3> QED
      BY <1>1, <3>1 DEF DueInv
  <2>2. d \in 1 .. Len(log) /\ ~DeletesAt(k, d)
    <3>1. d \in 1 .. Len(log)
      BY <1>a, <2>1 DEF LogInv
    <3> QED
      BY <3>1, <2>1, AWrite DEF PlaceInv
  <2>3. \A i \in d .. Len(log) : ~DeletesAt(k, i)
    <3> SUFFICES ASSUME NEW i \in d .. Len(log) PROVE ~DeletesAt(k, i)
      OBVIOUS
    <3>1. i \in 1 .. Len(log) /\ (i = d \/ i \in d + 1 .. Len(log'))
      BY <1>a, <2>1, <2>2
    <3> QED
      BY <2>2, <3>1, PlacesStay
  <2>4. ~Removed(k, d) /\ ~Removed(k, d + 1)
    BY <1>a, <2>1, <2>3 DEF Removed
  <2>5. owned[k] # 0 => ~Removed(k, owned[k])
    BY <1>a, <2>1, <2>3 DEF Removed
  <2>6. \/ list.step = "sent"
        \/ list.step = "keys" /\ k \in list.keys
        \/ list.step = "keys" /\ Held(k) # 0 /\ \A i \in at + 1 .. d : ~DeletesAt(k, i)
        \/ list.step = "each" /\ k \in list.keys
        \/ list.step \in {"each", "answered", "settle"} /\ d <= list.copies[k]
    BY <1>a, <2>1, <2>4 DEF CopyInv
  <2>7. CASE list' = list
    <3>1. CASE list.step = "keys" /\ Held(k) # 0 /\ \A i \in at + 1 .. d : ~DeletesAt(k, i)
      <4>1. \A i \in at + 1 .. at' : ~DeletesAt(k, i)'
        <5> SUFFICES ASSUME NEW i \in at + 1 .. at' PROVE ~DeletesAt(k, i)'
          OBVIOUS
        <5>1. i \in 1 .. Len(log) /\ (i \in at + 1 .. d \/ i \in d + 1 .. Len(log'))
          BY <1>a, <2>1
        <5> QED
          BY <3>1, <5>1, PlacesStay
      <4>2. Held(k)' # 0
        BY <3>1, <4>1, HeldStays
      <4>3. \A i \in at' + 1 .. d : ~DeletesAt(k, i)'
        <5> SUFFICES ASSUME NEW i \in at' + 1 .. d PROVE ~DeletesAt(k, i)'
          OBVIOUS
        <5>1. i \in 1 .. Len(log) /\ i \in at + 1 .. d
          BY <1>a, <2>2
        <5> QED
          BY <3>1, <5>1, PlacesStay
      <4> QED
        BY <2>7, <3>1, <4>2, <4>3
    <3> QED
      BY <2>6, <2>7, <3>1
  <2>8. CASE list.step = "keys" /\ list'.step = "each" /\ list'.keys = list.keys \cup StoreKeys
    BY <2>6, <2>8 DEF StoreKeys
  <2>9. CASE list'.step = "settle" /\ list'.copies = list.copies
             /\ (list.step = "answered" \/ (list.step = "each" /\ list.keys = {}))
    BY <2>6, <2>9
  <2>10. CASE list'.step = "answered" /\ \A j \in Keys : list'.copies[j] = Stored(j)
    <3>1. WritesAt(k, d)
      BY <2>1, <2>2, AWrite DEF PlaceInv
    <3>2. Stored(k) # 0 /\ d <= Stored(k)
      <4>1. Len(log) \in 0 .. Len(log)
        BY <1>a
      <4> QED
        BY <2>2, <2>3, <3>1, <4>1, VersionFacts DEF VersionInv, Stored
    <3> QED
      BY <2>10, <3>2
  <2>11. ASSUME NEW j \in Keys, NEW v \in Versions, list.step = "each", list'.step = "each",
                list'.keys = list.keys \ {j}, list'.copies[j] = v, \A i \in Keys \ {j} : list'.copies[i] = list.copies[i],
                \/ Answers(j) /\ v = Held(j)
                \/ /\ req[Pass].step = "answered" /\ req[Pass].key = j
                   /\ req[Pass].answer # Unknown /\ v = req[Pass].answer.v
         PROVE  \/ list'.step = "each" /\ k \in list'.keys
                \/ list'.step \in {"each", "answered", "settle"} /\ d <= list'.copies[k]
    <3>1. CASE j # k
      BY <2>6, <2>11, <3>1
    <3>2. CASE j = k /\ Answers(j) /\ v = Held(j)
      <4>1. Held(k) # 0 /\ Current(k, Held(k)) /\ Held(k) \in Nat
        BY <3>2, VersionType, BoundsAssumption DEF Answers, Versions
      <4>2. owned[k] <= Held(k)
        BY <1>a, <4>1, CurrentHolds
      <4> QED
        BY <2>1, <2>11, <3>2, <4>1, <4>2
    <3>3. CASE j = k /\ req[Pass].step = "answered" /\ req[Pass].key = j
               /\ req[Pass].answer # Unknown /\ v = req[Pass].answer.v
      <4>1. Pass \in Actors /\ owned[k] # 0 /\ v \in Nat
        BY <2>1, BoundsAssumption DEF Actors, Versions
      <4>2. /\ req[Pass].answer # NoRecord
            /\ req[Pass].answer.kind = "copy" => owned[k] <= req[Pass].answer.v
            /\ req[Pass].answer # Gone
        BY <1>a, <3>3, <4>1, <2>5 DEF AnswerInv
      <4>3. req[Pass].answer.kind = "copy"
        <5>1. req[Pass].answer \in Records
          BY <3>3, <4>1, Asked, IdleFields
        <5>2. \E w \in 1 .. MaxWrites : req[Pass].answer = Copy(w)
          BY <3>3, <4>2, <5>1 DEF Records
        <5> QED
          BY <5>2, RecordFields
      <4> QED
        BY <2>1, <2>11, <3>3, <4>1, <4>2, <4>3
    <3> QED
      BY <2>11, <3>1, <3>2, <3>3
  <2>12. list' # NoList
    BY <2>1, <1>1, IdleFields
  <2>13. ~(list.step = "idle")
    BY <2>6
  <2> QED
    BY <2>7, <2>8, <2>9, <2>10, <2>11, <2>12, <2>13, ListFields
<1>2. CASE list'.step = "keys" /\ list'.keys = Unheld /\ list'.due = Due /\ UNCHANGED <<log, at, owned, seen, dropped>>
  <2>1. /\ d = owned[k] /\ log[d].live
        /\ Held(k) # 0 => \A i \in at + 1 .. d : log[i] # Write(k, FALSE)
    BY <1>2 DEF Due
  <2>2. d \in 1 .. Len(log) /\ WritesAt(k, d)
    <3>1. owned[k] \in Nat
      BY BoundsAssumption DEF TypeOK, Versions
    <3> QED
      BY <1>a, <2>1, <3>1 DEF LogInv
  <2>3. StandsAt(k, d) /\ ~DeletesAt(k, d)
    BY <2>1, <2>2, AWrite DEF PlaceInv
  <2>4. \A i \in d .. Len(log) : ~DeletesAt(k, i)
    <3> SUFFICES ASSUME NEW i \in d .. Len(log) PROVE ~DeletesAt(k, i)
      OBVIOUS
    <3>1. i \in 1 .. Len(log) /\ (i = d \/ i \in d + 1 .. Len(log'))
      BY <1>a, <2>2
    <3> QED
      BY <2>3, <3>1, PlacesStay
  <2>5. CASE Held(k) # 0
    <3>1. Held(k)' # 0
      <4>1. \A i \in at + 1 .. at' : ~DeletesAt(k, i)'
        BY <1>2, <1>a
      <4> QED
        BY <2>5, <4>1, HeldStays
    <3>2. \A i \in at' + 1 .. d : ~DeletesAt(k, i)'
      <4> SUFFICES ASSUME NEW i \in at' + 1 .. d PROVE ~DeletesAt(k, i)'
        OBVIOUS
      <4>1. i \in at + 1 .. d
        BY <1>2
      <4>2. log[i] # Write(k, FALSE)
        BY <2>1, <2>5, <4>1
      <4> QED
        BY <1>2, <4>2, Zenon DEF DeletesAt
    <3> QED
      BY <1>2, <2>5, <3>1, <3>2
  <2>6. CASE Held(k) = 0
    <3>1. seen[k] # NoRecord
      <4> SUFFICES ASSUME seen[k] = NoRecord PROVE FALSE
        OBVIOUS
      <4>1. d \in 1 .. at
        BY <1>a, <2>1, <2>2 DEF NoteInv
      <4>2. \E j \in d .. at : DeletesAt(k, j)
        BY <1>a, <2>2, <2>6, <4>1, VersionFacts DEF VersionInv, Held
      <4> QED
        BY <1>a, <2>2, <2>4, <4>2
    <3>2. seen[k] # Gone
      <4> SUFFICES ASSUME seen[k] = Gone PROVE FALSE
        OBVIOUS
      <4>1. Removed(k, d)
        BY <1>a, <2>1 DEF NoteInv
      <4> QED
        BY <2>4, <4>1 DEF Removed
    <3>3. seen[k].kind \in {"copy", "unknown"}
      <4>1. seen[k] \in Records
        BY DEF TypeOK
      <4>2. seen[k] = Unknown \/ \E w \in 1 .. MaxWrites : seen[k] = Copy(w)
        BY <3>1, <3>2, <4>1 DEF Records
      <4> QED
        BY <4>2, RecordFields
    <3> QED
      BY <1>2, <2>6, <3>3 DEF Unheld
  <2> QED
    BY <2>5, <2>6
<1>3. list' = list => list'.due = list.due
  OBVIOUS
<1>4. list' # NoList
  BY IdleFields
<1> QED
  BY <1>1, <1>2, <1>3, <1>4, ListFields

-----------------------------------------------------------------------------
(* The theorems. *)

\* The invariant holds at the start.
LEMMA InitInv == Init => TypeOK /\ IInv
<1> SUFFICES ASSUME Init PROVE TypeOK /\ IInv
  OBVIOUS
<1>a. log = <<>> /\ Len(log) = 0 /\ late = {} /\ Pass \in Actors /\ Worker \in Actors /\ None \notin Actors
  BY NamesAssumption DEF Init, Actors
<1>1. TypeOK
  <2>1. log \in Seq([key : Keys, live : BOOLEAN]) /\ Len(log) <= MaxWrites /\ at \in 0 .. Len(log) /\ faults \in 0 .. MaxFaults
    BY <1>a, BoundsAssumption DEF Init
  <2>2. NoList \in ListStates
    BY BoundsAssumption DEF NoList, ListStates, Versions
  <2>3. /\ seen \in [Keys -> Records] /\ since \subseteq Keys /\ holder \in [Keys -> Actors \cup {None}]
        /\ req \in [Actors -> Requests \cup {Idle}] /\ late \subseteq {"create", "update", "delete"} \X Keys
        /\ owned \in [Keys -> Versions] /\ dropped \subseteq Keys
    BY RecordFields, BoundsAssumption DEF Init, Versions
  <2>4. ready \in BOOLEAN /\ shared \in BOOLEAN
    BY Zenon DEF Init
  <2> QED
    BY <2>1, <2>2, <2>3, <2>4 DEF Init, TypeOK
<1>2. RoomInv
  <2>1. Writing = {}
    BY IdleFields DEF Init, Writing
  <2>2. IsFiniteSet({}) /\ Cardinality({}) = 0
    BY FS_EmptySet
  <2> QED
    BY <1>a, <2>1, <2>2, BoundsAssumption DEF RoomInv
<1>3. LogInv /\ NoteInv /\ DueInv /\ CopyInv /\ FlightInv /\ AnswerInv
  <2>1. \A k \in Keys : owned[k] = 0 /\ seen[k] = NoRecord /\ list.due[k] = 0
    BY IdleFields DEF Init
  <2>2. list.step = "idle" /\ (\A a \in Actors : req[a] = Idle) /\ at = 0
    BY IdleFields DEF Init
  <2> QED
    BY <2>1, <2>2, IdleFields, RecordFields DEF LogInv, NoteInv, DueInv, CopyInv, FlightInv, AnswerInv
<1>4. LockInv
  BY <1>a, IdleFields DEF Init, LockInv
<1> QED
  BY <1>1, <1>2, <1>3, <1>4 DEF IInv

\* The invariant always holds.
LEMMA InvariantHolds == Spec => [](TypeOK /\ IInv)
<1>1. TypeOK /\ IInv /\ [Next]_vars => (TypeOK /\ IInv)'
  BY TypeStep, RoomStep, LogStep, LockStep, AnswerStep, NoteStep, FlightStep, DueStep, CopyStep DEF IInv
<1> QED
  BY InitInv, <1>1, PTL DEF Spec

\* The log, the store, the records, the locks, the requests and the list keep their
\* types: an answer's version is one that the log can reach.
THEOREM TypeCorrect == Spec => []TypeOK
<1> QED
  BY InvariantHolds, PTL

\* A copy in the store that the memo calls current (memo.go, Current) holds every
\* answered write of the program, but for an object whose record was dropped.
THEOREM OwnWritesAreCurrent == Spec => []OwnWritesStand
<1>1. TypeOK /\ IInv => OwnWritesStand
  BY CurrentHolds DEF IInv, OwnWritesStand
<1> QED
  BY <1>1, InvariantHolds, PTL

\* A finished list (cache.go, CurrentList and ReadList) answers what the program had
\* written when the list began.
THEOREM ListsHoldOwnWrites == Spec => []ListsOwnWrites
<1>1. TypeOK /\ IInv => ListsOwnWrites
  BY DEF IInv, CopyInv, ListsOwnWrites, Removed, DeletesAt
<1> QED
  BY <1>1, InvariantHolds, PTL
=============================================================================
