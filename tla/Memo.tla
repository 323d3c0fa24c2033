-------------------------------- MODULE Memo --------------------------------
(***************************************************************************)
(* The version memo and the watch copies that a pass reads                 *)
(* (kubernetes/memo, kubernetes/informer, cluster-operator/watches.go).    *)
(*                                                                         *)
(* A pass lists one kind from a watch's store, which runs behind the API   *)
(* server.  It sends its own writes between two lists, and another         *)
(* goroutine and another program write the same objects.  A version is a   *)
(* place in the API server's log.  The program compares versions only for  *)
(* equality.                                                               *)
(***************************************************************************)
EXTENDS Naturals, Sequences, FiniteSets

CONSTANTS
    Keys,       \* the objects of one kind
    Pass,       \* the goroutine of the passes
    Worker,     \* another goroutine that shares the memo
    None,       \* nobody
    MaxWrites,  \* bound: writes that the API server takes
    MaxFaults   \* bound: lost answers, failed lists and refused watches

Actors == {Pass, Worker}

ASSUME NamesAssumption == Pass # Worker /\ None \notin Actors
ASSUME BoundsAssumption == MaxWrites \in Nat /\ MaxFaults \in Nat

VARIABLES
    log,        \* the API server: every write, in order
    at,         \* the prefix of the log that the store holds
    ready,      \* View.Ready: the first read is done and the watch is granted
    seen,       \* the memo's record of each object
    since,      \* the objects noted since the list in flight was sent (notes, notedAt)
    holder,     \* who holds the lock of the object's requests
    req,        \* each goroutine's request
    late,       \* writes whose answer was lost, and which have not landed
    list,       \* the pass's list
    shared,     \* the instance: a Worker shares the memo; constant in a behaviour
    owned,      \* history: each object's last own write that was answered or landed
    dropped,    \* history: objects forgotten while the store was behind or a request ran
    faults      \* the counter of the bound

server == <<log, late>>
store == <<at, ready>>
memo == <<seen, since, holder>>
vars == <<server, store, memo, req, list, shared, owned, dropped, faults>>

Ops == {"create", "update", "delete", "read"}
NoRecord == [kind |-> "none", v |-> 0]
Gone == [kind |-> "gone", v |-> 0]
Unknown == [kind |-> "unknown", v |-> 0]
Copy(v) == [kind |-> "copy", v |-> v]
Records == {NoRecord, Gone, Unknown} \cup {Copy(v) : v \in 1 .. MaxWrites}
Write(k, live) == [key |-> k, live |-> live]
Versions == 0 .. MaxWrites

Requests == [step : {"sent", "answered"}, key : Keys, op : Ops, answer : Records, wrote : Versions]
Idle == [step |-> "idle", key |-> None, op |-> None, answer |-> NoRecord, wrote |-> 0]
ListStates == [step : {"idle", "keys", "each", "sent", "answered", "settle"}, keys : SUBSET Keys,
               copies : [Keys -> Versions], due : [Keys -> Versions]]
NoList == [step |-> "idle", keys |-> {}, copies |-> [k \in Keys |-> 0], due |-> [k \in Keys |-> 0]]

TypeOK ==
    /\ log \in Seq([key : Keys, live : BOOLEAN]) /\ Len(log) <= MaxWrites
    /\ at \in 0 .. Len(log) /\ ready \in BOOLEAN
    /\ seen \in [Keys -> Records]
    /\ since \subseteq Keys /\ holder \in [Keys -> Actors \cup {None}]
    /\ req \in [Actors -> Requests \cup {Idle}]
    /\ late \subseteq {"create", "update", "delete"} \X Keys
    /\ list \in ListStates
    /\ owned \in [Keys -> Versions] /\ shared \in BOOLEAN /\ dropped \subseteq Keys /\ faults \in 0 .. MaxFaults

-----------------------------------------------------------------------------
(* The API server and the watch. *)

\* An object's version in a prefix of the log; 0 when the prefix holds none.
VersionIn(k, n) ==
    LET writes == {i \in 1 .. n : log[i].key = k}
        last == CHOOSE i \in writes : \A j \in writes : j <= i
    IN  IF writes # {} /\ log[last].live THEN last ELSE 0

Stored(k) == VersionIn(k, Len(log))
Held(k) == VersionIn(k, at)

\* Whether the API server takes the write.
Takes(op, k) ==
    \/ op = "create" /\ Stored(k) = 0
    \/ op \in {"update", "delete"} /\ Stored(k) # 0

\* Mutant: a read of an object that is gone answers a copy with no version.
AnswersEmpty(op, k) ==
    CASE op = "read" -> Copy(Stored(k))
      [] op = "delete" \/ (op = "update" /\ Stored(k) = 0) -> Gone
      [] op = "create" /\ Stored(k) # 0 -> Unknown
      [] OTHER -> Copy(Len(log) + 1)

\* The answer of a request that the API server handles now: a copy, a 404, or a 409
\* for a create of an object that exists.
AnswerOf(op, k) ==
    CASE op = "delete" \/ (op # "create" /\ Stored(k) = 0) -> Gone
      [] op = "read" /\ Stored(k) # 0 ->   Copy(Stored(k))
      [] op = "create" /\ Stored(k) # 0 -> Unknown
      [] OTHER                        -> Copy(Len(log) + 1)

Land(op, k) == log' = IF Takes(op, k) THEN Append(log, Write(k, op # "delete")) ELSE log
Landing(op, k) == IF Takes(op, k) THEN Len(log) + 1 ELSE 0

\* The log has room for the writes that are on their way, and for one more.
Room == Len(log) + Cardinality(late)
            + Cardinality({a \in Actors : req[a].step = "sent" /\ req[a].op # "read"}) < MaxWrites

\* The watch delivers changes; a relist delivers several at once.
WatchDelivers ==
    /\ ready
    /\ \E n \in at + 1 .. Len(log) : at' = n
    /\ UNCHANGED <<server, ready, memo, req, list, shared, owned, dropped, faults>>

\* The first read ends, or the API server grants the watch again.  The read can
\* come from the API server's watch cache, which runs behind.
Synced ==
    /\ ~ready
    /\ ready' = TRUE /\ at' \in at .. Len(log)
    /\ UNCHANGED <<server, memo, req, list, shared, owned, dropped, faults>>

\* noteWatch: the API server refuses the watch.
WatchRefused ==
    /\ ready /\ faults < MaxFaults
    /\ ready' = FALSE /\ faults' = faults + 1
    /\ UNCHANGED <<server, at, memo, req, list, shared, owned, dropped>>

\* Another program writes.
OtherWrites ==
    /\ Room
    /\ \E op \in Ops, k \in Keys : Takes(op, k) /\ Land(op, k)
    /\ UNCHANGED <<late, store, memo, req, list, shared, owned, dropped, faults>>

\* A write lands after the program gave up its answer.
LandsLate ==
    /\ \E w \in late : Land(w[1], w[2]) /\ late' = late \ {w}
    /\ UNCHANGED <<store, memo, req, list, shared, owned, dropped, faults>>

-----------------------------------------------------------------------------
(* The memo. *)

\* The store's copy is at least as new as every copy that the memo noted.
Current(k, v) == seen[k] = NoRecord \/ seen[k] = Copy(v)

\* Mutant: an object whose request failed is not listed.
UnheldAtVersion == {k \in Keys : Held(k) = 0 /\ seen[k].kind = "copy"}

\* The objects that the store does not hold, and that may exist.
Unheld == {k \in Keys : Held(k) = 0 /\ seen[k].kind \in {"copy", "unknown"}}

\* Mutant: requests about one object overlap.
NeverWaits(k) == TRUE

\* requestsOf: nobody holds the lock of the object's requests.
mayLock(k) == holder[k] = None

\* A goroutine sends a request about one object.
Sends(a, op, k) ==
    /\ req[a] = Idle /\ mayLock(k)
    /\ req' = [req EXCEPT ![a] = [step |-> "sent", key |-> k, op |-> op, answer |-> NoRecord, wrote |-> 0]]
    /\ holder' = [holder EXCEPT ![k] = a]
    /\ UNCHANGED <<server, store, seen, since, shared, owned, dropped, faults>>

\* A request has an answer, and may have written.
Answered(a, answer, wrote) ==
    req' = [req EXCEPT ![a] = [step |-> "answered", key |-> req[a].key, op |-> req[a].op,
                               answer |-> answer, wrote |-> wrote]]

\* The API server handles the request.
Handled(a) ==
    /\ req[a].step = "sent"
    /\ LET k == req[a].key  op == req[a].op
       IN  Land(op, k) /\ Answered(a, AnswerOf(op, k), Landing(op, k))
    /\ UNCHANGED <<late, store, memo, list, shared, owned, dropped, faults>>

\* The answer is lost.  The write has landed, or may land later.
AnswerLost(a) ==
    /\ req[a].step = "sent" /\ faults < MaxFaults
    /\ LET k == req[a].key  op == req[a].op
       IN  \/ Land(op, k) /\ Answered(a, Unknown, Landing(op, k)) /\ UNCHANGED late
           \/ op # "read" /\ Answered(a, Unknown, 0) /\ late' = late \cup {<<op, k>>} /\ UNCHANGED log
    /\ faults' = faults + 1
    /\ UNCHANGED <<store, memo, list, shared, owned, dropped>>

\* Send notes the answer, and frees the lock that it still holds.
Noted(a) ==
    LET k == req[a].key
    IN  /\ req[a].step = "answered"
        /\ seen' = [seen EXCEPT ![k] = req[a].answer]
        /\ since' = since \cup {k}
        /\ holder' = [holder EXCEPT ![k] = IF @ = a THEN None ELSE @]
        /\ owned' = [owned EXCEPT ![k] = IF req[a].wrote > @ THEN req[a].wrote ELSE @]
        /\ req' = [req EXCEPT ![a] = Idle]
        /\ UNCHANGED <<server, store, shared, dropped, faults>>

\* Mutant: a list replaces every note.
NotesAll(k) == TRUE

\* SendList keeps the note of a request that ran while the list was in flight.
mayNote(k) == k \notin since

\* Forget and ForgetGone drop an object's record, and the lock of its requests.
Forget(keys) ==
    /\ seen' = [k \in Keys |-> IF k \in keys THEN NoRecord ELSE seen[k]]
    /\ since' = since \ keys
    /\ holder' = [k \in Keys |-> IF k \in keys THEN None ELSE holder[k]]
    /\ dropped' = dropped \cup {k \in keys : at < owned[k] \/ holder[k] # None}

-----------------------------------------------------------------------------
(* The pass. *)

\* Between two lists, the pass sends what it decided.
PassSends ==
    /\ list.step = "idle"
    /\ \E op \in Ops, k \in Keys : (op # "read" => Room) /\ Sends(Pass, op, k)
    /\ UNCHANGED list

WorkerSends ==
    /\ shared
    /\ \E op \in Ops, k \in Keys : (op # "read" => Room) /\ Sends(Worker, op, k)
    /\ UNCHANGED list

\* What a list must answer: each object that the program wrote before.  The store
\* holds no older object of the name, whose delete the watch may deliver between the
\* two reads of keys.
Due == [k \in Keys |->
    IF owned[k] # 0 /\ log[owned[k]].live
            /\ (Held(k) # 0 => \A i \in at + 1 .. owned[k] : log[i] # Write(k, FALSE))
        THEN owned[k] ELSE 0]

StartList(step, keys) ==
    /\ list.step = "idle" /\ req[Pass] = Idle
    /\ list' = [step |-> step, keys |-> keys, copies |-> NoList.copies, due |-> Due]
    /\ UNCHANGED <<server, store, seen, holder, req, shared, owned, dropped, faults>>

StoreKeys == {k \in Keys : Held(k) # 0}

\* Mutant: the store's keys are read first.
StoreKeysFirst(reading) == IF reading = 1 THEN StoreKeys ELSE Unheld

\* CurrentList reads the memo's keys first, and then the store's.
keysOf(reading) == IF reading = 1 THEN Unheld ELSE StoreKeys

CurrentList == ready /\ StartList("keys", keysOf(1)) /\ UNCHANGED since

ListKeys ==
    /\ list.step = "keys"
    /\ list' = [step |-> "each", keys |-> list.keys \cup keysOf(2), copies |-> list.copies, due |-> list.due]
    /\ UNCHANGED <<server, store, memo, req, shared, owned, dropped, faults>>

\* The list takes version v of an object; 0 leaves it out.
Lists(k, v) ==
    list' = [step |-> list.step, keys |-> list.keys \ {k}, copies |-> [list.copies EXCEPT ![k] = v], due |-> list.due]

\* Cached, and Current.
Answers(k) == ready /\ Held(k) # 0 /\ Current(k, Held(k))

\* The store answers the object.
TakesCopy ==
    /\ list.step = "each" /\ req[Pass] = Idle
    /\ \E k \in list.keys : Answers(k) /\ Lists(k, Held(k))
    /\ UNCHANGED <<server, store, memo, req, shared, owned, dropped, faults>>

\* The API server is asked for it.
ReadFresh ==
    /\ list.step = "each"
    /\ \E k \in list.keys : ~Answers(k) /\ Sends(Pass, "read", k)
    /\ UNCHANGED list

\* The answer of a request: a list takes a copy, leaves out an object that is gone,
\* and fails with any other error.
PassNotes ==
    /\ Noted(Pass)
    /\ LET k == req[Pass].key  answer == req[Pass].answer
       IN  \/ list.step = "idle" /\ UNCHANGED list
           \/ list.step # "idle" /\ answer = Unknown /\ list' = NoList
           \/ list.step # "idle" /\ answer # Unknown /\ Lists(k, answer.v)

WorkerNotes == Noted(Worker) /\ UNCHANGED list

AllListed ==
    /\ list.step = "each" /\ list.keys = {} /\ req[Pass] = Idle
    /\ list' = [list EXCEPT !.step = "settle"]
    /\ UNCHANGED <<server, store, memo, req, shared, owned, dropped, faults>>

\* ReadList, while the store is not ready.
SendList == ~ready /\ StartList("sent", {}) /\ since' = {}

ListHandled ==
    /\ list.step = "sent"
    /\ list' = [step |-> "answered", keys |-> list.keys, copies |-> [k \in Keys |-> Stored(k)], due |-> list.due]
    /\ UNCHANGED <<server, store, memo, req, shared, owned, dropped, faults>>

ListFails ==
    /\ list.step = "sent" /\ faults < MaxFaults
    /\ list' = NoList /\ faults' = faults + 1
    /\ UNCHANGED <<server, store, memo, req, shared, owned, dropped>>

ListNoted ==
    /\ list.step = "answered"
    /\ LET named == {k \in Keys : list.copies[k] # 0 /\ mayNote(k)}
       IN  /\ seen' = [k \in Keys |-> IF k \in named THEN Copy(list.copies[k]) ELSE seen[k]]
           /\ since' = since \cup named
    /\ list' = [list EXCEPT !.step = "settle"]
    /\ UNCHANGED <<server, store, holder, req, shared, owned, dropped, faults>>

\* Mutant: the record of an object that is gone stays.
GoneButNoted == {k \in Keys : list.copies[k] = 0 /\ seen[k].kind = "copy" /\ Held(k) = 0}

\* ForgetGone: neither the list nor the store has the object.
gone == {k \in Keys : list.copies[k] = 0 /\ seen[k].kind \in {"copy", "gone"} /\ Held(k) = 0}

\* ForgetStored, which a program with one goroutine calls too: the store has the
\* noted version of a listed object.
stored == {k \in Keys : ~shared /\ list.copies[k] # 0 /\ Held(k) # 0 /\ seen[k] = Copy(Held(k))}

settleMemo ==
    /\ list.step = "settle"
    /\ IF ready THEN Forget(gone \cup stored) ELSE UNCHANGED <<memo, dropped>>
    /\ list' = NoList
    /\ UNCHANGED <<server, store, req, shared, owned, faults>>

-----------------------------------------------------------------------------
Init ==
    /\ log = <<>> /\ at = 0 /\ ready = FALSE
    /\ seen = [k \in Keys |-> NoRecord] /\ since = {}
    /\ holder = [k \in Keys |-> None] /\ req = [a \in Actors |-> Idle] /\ late = {}
    /\ list = NoList /\ shared \in BOOLEAN
    /\ owned = [k \in Keys |-> 0] /\ dropped = {} /\ faults = 0

List == \/ CurrentList \/ ListKeys \/ TakesCopy \/ ReadFresh \/ AllListed
        \/ SendList \/ ListHandled \/ ListNoted \/ settleMemo

Next ==
    \/ WatchDelivers \/ Synced \/ WatchRefused
    \/ OtherWrites \/ LandsLate
    \/ \E a \in Actors : Handled(a) \/ AnswerLost(a)
    \/ PassSends \/ WorkerSends \/ PassNotes \/ WorkerNotes
    \/ List \/ ListFails

Spec == Init /\ [][Next]_vars

\* A watch that is granted delivers, a request has an answer, and the ticker of the
\* program starts one pass after another.
FairSpec ==
    /\ Spec
    /\ WF_vars(WatchDelivers) /\ WF_vars(Synced)
    /\ \A a \in Actors : WF_vars(Handled(a))
    /\ WF_vars(PassNotes) /\ WF_vars(WorkerNotes) /\ WF_vars(List)

-----------------------------------------------------------------------------
\* A copy in the store that the memo calls current holds every write of this program
\* that the API server answered (memo.go, Current): the lock orders two goroutines'
\* notes, a list in flight replaces no later note, and a failed request leaves no
\* version.  The exception is an object whose record was dropped before the watch
\* delivered the program's last write, or while a request ran.
OwnWritesStand ==
    \A k \in Keys \ dropped :
        ready /\ Held(k) # 0 /\ Current(k, Held(k)) => Held(k) >= owned[k]

\* A finished list answers each object that the program had written when the list
\* began, at that version or a later one, unless somebody deleted it: a pass does
\* not create again what it created a moment ago, nor what a failed create left
\* (cache.go, CurrentList; memo.go, Unheld).  Due names the exception.
ListsOwnWrites ==
    list.step = "settle" =>
        \A k \in Keys \ dropped :
            \/ list.due[k] = 0
            \/ \E i \in list.due[k] + 1 .. Len(log) : log[i] = Write(k, FALSE)
            \/ list.copies[k] >= list.due[k]

\* When writes, faults and the requests between lists stop, the store answers every
\* object again, and the memo holds no record of an object that is gone (cache.go,
\* ReadOne; memo.go, ForgetGone).
Settles ==
    <>[][~PassSends /\ ~WorkerSends]_vars =>
        <>[](\A k \in Keys : IF Stored(k) # 0 THEN Answers(k) /\ Held(k) = Stored(k)
                                              ELSE seen[k] = NoRecord)
=============================================================================
