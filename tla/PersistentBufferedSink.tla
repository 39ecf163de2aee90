------------------------ MODULE PersistentBufferedSink ------------------------
(***************************************************************************)
(* persistentBufferedSink (@adjudicate/audit): an audit sink that holds    *)
(* back what its inner sink refuses, in memory up to a capacity and then   *)
(* in a spill storage, and replays it before every later emission.         *)
(*                                                                         *)
(* Record k is the k-th one emitted; calls overlap, and the serializer     *)
(* runs them one at a time.  An action is one await: a command of the      *)
(* inner sink or of the storage, with the code up to the next.             *)
(***************************************************************************)
EXTENDS Naturals, Sequences, SequencesExt

CONSTANTS
    MaxRecords, \* bound: how many records are emitted
    Capacity,   \* opts.capacity
    MaxSize,    \* maxSize of the storage; drop-oldest
    Faults      \* faults a run admits

FaultKinds == {"inner", "ack", "append", "crash"}

ASSUME ConstantsAssumption ==
    /\ MaxRecords \in Nat
    /\ Capacity \in Nat
    /\ MaxSize \in Nat \ {0}
    /\ Faults \subseteq FaultKinds

Records == 1..MaxRecords

VARIABLES
    emitted,    \* how many records have been emitted
    pc,         \* where the call of each record stands
    snapshot,   \* what readAll has yet to yield to each call
    mem,        \* memQueue
    store,      \* the storage: it outlives the process
    landed,     \* records the inner sink holds, by first arrival
    overflowed, \* records reported to onOverflow
    lost,       \* records whose append failed or that drop-oldest removed
    forgotten   \* records that were in a queue that died with its process

vars == <<emitted, pc, snapshot, mem, store, landed, overflowed, lost,
          forgotten>>

Settled == {"resolved", "rejected"}
Phases == {"new", "queued", "drain", "ack", "buffer", "crashed"} \cup Settled

\* With capacity 0 the queue still takes the record it cannot evict for.
MemBound == IF Capacity = 0 THEN 1 ELSE Capacity

TypeOK ==
    /\ emitted \in 0..MaxRecords
    /\ pc \in [Records -> Phases]
    /\ snapshot \in [Records -> Seq(Records)]
    /\ mem \in Seq(Records) /\ Len(mem) <= MemBound
    /\ store \in Seq(Records) /\ Len(store) <= MaxSize
    /\ landed \in Seq(Records)
    /\ overflowed \subseteq Records
    /\ lost \subseteq Records
    /\ forgotten \subseteq Records

Init ==
    /\ emitted = 0
    /\ pc = [k \in Records |-> "new"]
    /\ snapshot = [k \in Records |-> <<>>]
    /\ mem = <<>>
    /\ store = <<>>
    /\ landed = <<>>
    /\ overflowed = {}
    /\ lost = {}
    /\ forgotten = {}

Go(k, from, to) ==
    /\ pc[k] = from
    /\ pc' = [pc EXCEPT ![k] = to]

-------------------------------------------------------------------------------
\* A caller emits the next record: its task joins the promise chain.
Emit ==
    /\ emitted < MaxRecords
    /\ emitted' = emitted + 1
    /\ Go(emitted + 1, "new", "queued")
    /\ UNCHANGED <<snapshot, mem, store, landed, overflowed, lost, forgotten>>

\* The serializer: a task starts when the ones before it have settled; that
\* some of them rejected does not hold it up.
Unserialized(k) == TRUE
WedgedByRejection(k) == \A j \in 1..k - 1 : pc[j] \in {"resolved", "crashed"}
Turn(k) == \A j \in 1..k - 1 : pc[j] \in Settled \cup {"crashed"}

\* readAll yields a snapshot of the storage.
SkipsStorage == <<>>
ReadAll == store

Start(k) ==
    /\ Turn(k)
    /\ Go(k, "queued", "drain")
    /\ snapshot' = [snapshot EXCEPT ![k] = ReadAll]
    /\ UNCHANGED <<emitted, mem, store, landed, overflowed, lost, forgotten>>

\* What the outcome of inner.emit(j) leaves in the inner sink: a throw does not
\* say whether the record arrived.
Arrives(j, arrived) ==
    landed' = IF arrived /\ ~Contains(landed, j) THEN Append(landed, j)
              ELSE landed

Answers(arrived, ok) ==
    /\ ok => arrived
    /\ ok \/ "inner" \in Faults

\* drainStorage: the oldest spilled record goes first.
DrainStorage(k, arrived, ok) ==
    /\ snapshot[k] # <<>>
    /\ Answers(arrived, ok)
    /\ Go(k, "drain", IF ok THEN "ack" ELSE "buffer")
    /\ Arrives(Head(snapshot[k]), arrived)
    /\ UNCHANGED <<emitted, snapshot, mem, store, overflowed, lost, forgotten>>

\* storage.ack removes the drained record; a throw stops the drain.
Ack(k, ok) ==
    /\ ok \/ "ack" \in Faults
    /\ Go(k, "ack", IF ok THEN "drain" ELSE "buffer")
    /\ snapshot' = [snapshot EXCEPT ![k] = Tail(@)]
    /\ store' = IF ok THEN RemoveFirst(store, Head(snapshot[k])) ELSE store
    /\ UNCHANGED <<emitted, mem, landed, overflowed, lost, forgotten>>

\* drainMemory: the head leaves the queue once the inner sink took it.
DrainMemory(k, arrived, ok) ==
    /\ snapshot[k] = <<>> /\ mem # <<>>
    /\ Answers(arrived, ok)
    /\ Go(k, "drain", IF ok THEN "drain" ELSE "buffer")
    /\ Arrives(Head(mem), arrived)
    /\ mem' = IF ok THEN Tail(mem) ELSE mem
    /\ UNCHANGED <<emitted, snapshot, store, overflowed, lost, forgotten>>

\* The new record itself.
EmitInner(k, arrived, ok) ==
    /\ snapshot[k] = <<>> /\ mem = <<>>
    /\ Answers(arrived, ok)
    /\ Go(k, "drain", IF ok THEN "resolved" ELSE "buffer")
    /\ Arrives(k, arrived)
    /\ UNCHANGED <<emitted, snapshot, mem, store, overflowed, lost, forgotten>>

Full == Len(mem) >= Capacity

\* storage.append: the reference storage drops its oldest record when full.
Spilled(j) == Append(IF Len(store) >= MaxSize THEN Tail(store) ELSE store, j)
Dropped == IF Len(store) >= MaxSize THEN {Head(store)} ELSE {}

EvictionUnreported(evicted) == {}
Reported(evicted) == evicted

\* bufferOrSpill: a full queue gives its oldest record to the storage, and
\* reports it whether or not the storage took it; then the caller is told.
Buffer(k, appended) ==
    LET evicted == IF Full /\ mem # <<>> THEN {Head(mem)} ELSE {}
    IN  /\ Go(k, "buffer", "rejected")
        /\ mem' = Append(IF evicted # {} THEN Tail(mem) ELSE mem, k)
        /\ overflowed' = overflowed \cup Reported(evicted)
        /\ \/ /\ evicted # {} /\ appended
              /\ store' = Spilled(Head(mem))
              /\ lost' = lost \cup Dropped
           \/ /\ evicted # {} /\ ~appended /\ "append" \in Faults
              /\ lost' = lost \cup evicted
              /\ UNCHANGED store
           \/ /\ evicted = {} /\ appended
              /\ UNCHANGED <<store, lost>>
        /\ UNCHANGED <<emitted, snapshot, landed, forgotten>>

\* The process dies with its queue and its calls; a fresh instance reads the
\* same storage.
Crash ==
    /\ "crash" \in Faults
    /\ \E k \in Records : pc[k] \notin {"new", "crashed"} \cup Settled
                          \/ Contains(mem, k)
    /\ mem' = <<>>
    /\ forgotten' = forgotten \cup ToSet(mem)
    /\ pc' = [k \in Records |->
                IF pc[k] \in {"new"} \cup Settled THEN pc[k] ELSE "crashed"]
    /\ snapshot' = [k \in Records |-> <<>>]
    /\ UNCHANGED <<emitted, store, landed, overflowed, lost>>

-------------------------------------------------------------------------------
Proceed(k) ==
    \/ Start(k)
    \/ \E arrived, ok \in BOOLEAN :
        \/ DrainStorage(k, arrived, ok)
        \/ DrainMemory(k, arrived, ok)
        \/ EmitInner(k, arrived, ok)
    \/ \E ok \in BOOLEAN : Ack(k, ok) \/ Buffer(k, ok)

Next == Emit \/ Crash \/ \E k \in Records : Proceed(k)

Spec == Init /\ [][Next]_vars

\* The inner sink and the storage answer or throw; nobody is obliged to emit.
Fairness == \A k \in Records : WF_vars(Proceed(k))

FairSpec == Spec /\ Fairness

-------------------------------------------------------------------------------
(* Properties *)

Held == ToSet(landed) \cup ToSet(mem) \cup ToSet(store)

\* A record whose caller has its answer is in the inner sink, the queue or the
\* storage, or it is lost and was reported, or its process died with it in the
\* queue.  ("silent loss is the exact failure mode this sink exists to prevent")
NoSilentLoss ==
    /\ \A k \in Records :
        pc[k] \in Settled => k \in Held \cup lost \cup forgotten
    /\ lost \subseteq overflowed

\* An emission that resolves vouches for every record emitted before it, by
\* this process or one before: they have all reached the inner sink, unless
\* they were lost and reported or a process died with them.  (the drains before
\* the inner emission)
SuccessVouchesForThePast ==
    \A k \in Records :
        pc[k] = "resolved" =>
            \A j \in 1..k :
                \/ j \in ToSet(landed) \cup lost \cup forgotten
                \/ pc[j] = "crashed"

\* Records first reach the inner sink in the order of their emission, across
\* overlapping calls, both buffers, restarts and replays.  (the serializer, and
\* spill before queue before new record)
FirstArrivalsInOrder ==
    \A i, j \in 1..Len(landed) : i < j => landed[i] < landed[j]

\* Every emission of a process that lives is answered: a rejected one does not
\* wedge the chain.  (makeSerializer's swallowed tail)
EmissionSettles ==
    \A k \in Records : pc[k] = "queued" ~> pc[k] \in Settled \cup {"crashed"}

===============================================================================
