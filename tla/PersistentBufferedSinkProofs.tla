---------------------- MODULE PersistentBufferedSinkProofs ----------------------
(***************************************************************************)
(* Proofs about PersistentBufferedSink: nothing is lost unreported, a      *)
(* success vouches for everything before it, records first arrive in the   *)
(* order of their emission, one call works at a time and each comes to its *)
(* end, for any number of records, any capacities and under every set of   *)
(* faults.                                                                 *)
(***************************************************************************)
EXTENDS PersistentBufferedSink, SequenceTheorems, WellFoundedInduction, TLAPS

-------------------------------------------------------------------------------
(* The inductive invariant *)

Done(k) == pc[k] \in Settled \cup {"crashed"}
Begun(k) == pc[k] \notin {"new", "queued"}

\* What a process owes to the inner sink, oldest first.
Backlog == ToSet(store) \cup ToSet(mem)

\* The records of s stand in the order of their emission.
Increasing(s) == \A i, j \in 1..Len(s) : i < j => s[i] < s[j]

\* A call begins when all before it are done.  While it drains the storage, the
\* storage is what its snapshot says, and a record that waits for its ack has
\* arrived.
SerialInv ==
    \A k \in Records :
        /\ k > emitted <=> pc[k] = "new"
        /\ Begun(k) => \A j \in 1..k - 1 : Done(j)
        /\ pc[k] \in {"drain", "ack"} => snapshot[k] = store
        /\ pc[k] = "ack" => store # <<>> /\ Head(store) \in ToSet(landed)

\* The storage, then the queue, hold rejected records in order; what is in the
\* storage was reported.
BacklogInv ==
    /\ Increasing(store) /\ Increasing(mem)
    /\ \A i \in ToSet(store), j \in ToSet(mem) : i < j
    /\ \A j \in Backlog : pc[j] = "rejected"
    /\ ToSet(store) \subseteq overflowed

\* A record that is owed and has not arrived is younger than all that have.
ArrivalInv ==
    /\ FirstArrivalsInOrder
    /\ \A i \in ToSet(landed) : Begun(i)
    /\ \A j \in Backlog : j \in ToSet(landed) \/ \A i \in ToSet(landed) : i < j

IndInv ==
    /\ TypeOK /\ SerialInv /\ BacklogInv /\ ArrivalInv
    /\ NoSilentLoss /\ SuccessVouchesForThePast

-------------------------------------------------------------------------------
(* Sequences of records *)

LEMMA RecordsAreNumbers == Records \in SUBSET Nat
BY ConstantsAssumption DEF Records

LEMMA EmptyIsEmpty ==
    /\ <<>> \in Seq(Records) /\ Len(<<>>) = 0
    /\ ToSet(<<>>) = {} /\ Increasing(<<>>)
<1>1. <<>> \in Seq(Records) /\ Len(<<>>) = 0
  OBVIOUS
<1>2. DOMAIN <<>> = {}
  OBVIOUS
<1> QED
  BY <1>1, <1>2 DEF ToSet, Increasing

LEMMA Elements ==
    ASSUME NEW s \in Seq(Records)
    PROVE  /\ ToSet(s) \in SUBSET Records
           /\ \A x : x \in ToSet(s) <=> \E i \in 1..Len(s) : s[i] = x
           /\ \A x : Contains(s, x) <=> x \in ToSet(s)
           /\ ToSet(s) = {} <=> s = <<>>
<1>1. DOMAIN s = 1..Len(s) /\ Len(s) \in Nat
      /\ \A i \in 1..Len(s) : s[i] \in Records
  OBVIOUS
<1>2. \A x : x \in ToSet(s) <=> \E i \in 1..Len(s) : s[i] = x
  BY <1>1 DEF ToSet
<1>3. ToSet(s) = {} => s = <<>>
  <2>1. s # <<>> => 1 \in 1..Len(s)
    OBVIOUS
  <2> QED
    BY <1>2, <2>1
<1>4. s = <<>> => ToSet(s) = {}
  BY EmptyIsEmpty
<1> QED
  BY <1>1, <1>2, <1>3, <1>4 DEF Contains

\* A record younger than those in an ordered sequence goes to its end.
LEMMA AtTheEnd ==
    ASSUME NEW s \in Seq(Records), NEW x \in Records
    PROVE  /\ Append(s, x) \in Seq(Records)
           /\ Len(Append(s, x)) = Len(s) + 1
           /\ ToSet(Append(s, x)) = ToSet(s) \cup {x}
           /\ Increasing(s) /\ (\A i \in ToSet(s) : i < x) =>
                Increasing(Append(s, x))
<1> DEFINE t == Append(s, x)
<1>1. /\ t \in Seq(Records) /\ Len(t) = Len(s) + 1 /\ Len(s) \in Nat
      /\ \A i \in 1..Len(s) : t[i] = s[i]
      /\ t[Len(s) + 1] = x
  OBVIOUS
<1>2. \A i \in 1..Len(t) : i \in 1..Len(s) \/ i = Len(s) + 1
  BY <1>1
<1>3. /\ 1..Len(s) \subseteq 1..Len(t) /\ Len(s) + 1 \in 1..Len(t)
  BY <1>1
<1> HIDE DEF t
<1>4. \A y : y \in ToSet(t) <=> y \in ToSet(s) \cup {x}
  BY <1>1, <1>2, <1>3, Elements
<1>5. ASSUME Increasing(s), \A i \in ToSet(s) : i < x
      PROVE  Increasing(t)
  <2> SUFFICES ASSUME NEW i \in 1..Len(t), NEW j \in 1..Len(t), i < j
               PROVE  t[i] < t[j]
    BY DEF Increasing
  <2>1. i \in 1..Len(s)
    BY <1>1
  <2>2. s[i] \in ToSet(s)
    BY <2>1, Elements
  <2>3. CASE j \in 1..Len(s)
    BY <1>1, <1>5, <2>1, <2>3 DEF Increasing
  <2>4. CASE j = Len(s) + 1
    BY <1>1, <1>5, <2>1, <2>2, <2>4
  <2> QED
    BY <1>2, <2>3, <2>4
<1> QED
  BY <1>1, <1>4, <1>5 DEF t

\* The oldest record of an ordered sequence leaves it.
LEMMA OldestLeaves ==
    ASSUME NEW s \in Seq(Records), s # <<>>
    PROVE  /\ Head(s) \in Records /\ Tail(s) \in Seq(Records)
           /\ Len(s) \in Nat \ {0} /\ Len(Tail(s)) = Len(s) - 1
           /\ ToSet(s) = {Head(s)} \cup ToSet(Tail(s))
           /\ Increasing(s) =>
                /\ Increasing(Tail(s))
                /\ \A i \in ToSet(Tail(s)) : Head(s) < i
<1> DEFINE t == Tail(s)
<1>1. /\ t \in Seq(Records) /\ Len(s) \in Nat \ {0} /\ Len(t) = Len(s) - 1
      /\ Head(s) = s[1] /\ 1 \in 1..Len(s) /\ Head(s) \in Records
      /\ \A i \in 1..Len(t) : t[i] = s[i + 1] /\ i + 1 \in 1..Len(s)
      /\ \A i \in 1..Len(s) : i = 1 \/ i - 1 \in 1..Len(t)
  OBVIOUS
<1>2. \A i \in 1..Len(s) : i # 1 => s[i] = t[i - 1]
  BY <1>1
<1> HIDE DEF t
<1>3. \A y : y \in ToSet(s) <=> y \in {Head(s)} \cup ToSet(t)
  <2>1. ASSUME NEW y \in ToSet(s) PROVE y \in {Head(s)} \cup ToSet(t)
    <3>1. PICK i \in 1..Len(s) : s[i] = y
      BY Elements
    <3> QED
      BY <1>1, <1>2, <3>1, Elements
  <2>2. ASSUME NEW y \in ToSet(t) PROVE y \in ToSet(s)
    <3>1. PICK i \in 1..Len(t) : t[i] = y
      BY <1>1, Elements
    <3> QED
      BY <1>1, <3>1, Elements
  <2>3. Head(s) \in ToSet(s)
    BY <1>1, Elements
  <2> QED
    BY <2>1, <2>2, <2>3
<1>4. ASSUME Increasing(s)
      PROVE  Increasing(t) /\ \A i \in ToSet(t) : Head(s) < i
  <2>1. Increasing(t)
    <3> SUFFICES ASSUME NEW i \in 1..Len(t), NEW j \in 1..Len(t), i < j
                 PROVE  t[i] < t[j]
      BY DEF Increasing
    <3>1. i + 1 < j + 1
      OBVIOUS
    <3> QED
      BY <1>1, <1>4, <3>1 DEF Increasing
  <2>2. ASSUME NEW y \in ToSet(t) PROVE Head(s) < y
    <3>1. PICK i \in 1..Len(t) : t[i] = y
      BY <1>1, Elements
    <3>2. 1 < i + 1
      OBVIOUS
    <3> QED
      BY <1>1, <1>4, <3>1, <3>2 DEF Increasing
  <2> QED
    BY <2>1, <2>2
<1> QED
  BY <1>1, <1>3, <1>4 DEF t

LEMMA OldestIsLeast ==
    ASSUME NEW s \in Seq(Records), s # <<>>, Increasing(s)
    PROVE  \A i \in ToSet(s) : Head(s) <= i
<1> SUFFICES ASSUME NEW i \in ToSet(s) PROVE Head(s) <= i
  OBVIOUS
<1>1. Head(s) \in Nat
  BY OldestLeaves, RecordsAreNumbers
<1>2. i \in Nat
  BY Elements, RecordsAreNumbers
<1>3. i = Head(s) \/ Head(s) < i
  BY OldestLeaves
<1> QED
  BY <1>1, <1>2, <1>3

\* ack by the identity of the oldest record removes the oldest record.
LEMMA AckedIsOldest ==
    ASSUME NEW s \in Seq(Records), s # <<>>
    PROVE  RemoveFirst(s, Head(s)) = Tail(s)
<1>1. Head(s) = s[1] /\ 1 \in 1..Len(s) /\ Len(s) \in Nat
  OBVIOUS
<1>2. SelectInSeq(s, LAMBDA v : v = Head(s)) = 1
  <2> DEFINE I == {i \in 1..Len(s) : s[i] = Head(s)}
  <2>1. 1 \in I /\ \A i \in I : 1 <= i /\ i \in Nat
    BY <1>1
  <2> HIDE DEF I
  <2>2. Min(I) = 1
    BY <2>1 DEF Min
  <2> QED
    BY <2>1, <2>2 DEF SelectInSeq, I
<1>3. RemoveAt(s, 1) = Tail(s)
  <2>1. SubSeq(s, 1, 0) = <<>> /\ SubSeq(s, 2, Len(s)) = Tail(s)
    OBVIOUS
  <2>2. Tail(s) \in Seq(Records)
    OBVIOUS
  <2> QED
    BY <2>1, <2>2 DEF RemoveAt
<1> QED
  BY <1>1, <1>2, <1>3 DEF RemoveFirst

-------------------------------------------------------------------------------
(* What a step does *)

LEMMA Typing ==
    ASSUME IndInv
    PROVE  /\ emitted \in 0..MaxRecords
           /\ pc \in [Records -> Phases]
           /\ snapshot \in [Records -> Seq(Records)]
           /\ mem \in Seq(Records) /\ Len(mem) <= MemBound
           /\ store \in Seq(Records) /\ Len(store) <= MaxSize
           /\ landed \in Seq(Records)
           /\ overflowed \in SUBSET Records
           /\ lost \in SUBSET Records
           /\ forgotten \in SUBSET Records
           /\ Backlog \in SUBSET Records
BY Elements DEF IndInv, TypeOK, Backlog

LEMMA Bounds == MaxRecords \in Nat /\ MemBound \in Nat \ {0} /\ MaxSize \in Nat \ {0}
BY ConstantsAssumption DEF MemBound

\* A call at work is the youngest that has begun: whatever else has begun is
\* done, and older.
LEMMA AtWork ==
    ASSUME IndInv, NEW k \in Records, pc[k] \in {"drain", "ack", "buffer"}
    PROVE  /\ \A j \in Records : Begun(j) => j <= k
           /\ \A j \in Records : j < k => Done(j)
           /\ \A j \in Backlog : j < k
           /\ \A j \in ToSet(landed) : j <= k
           /\ k \notin Backlog
<1> USE Typing DEF IndInv
<1>1. k \in Nat /\ Records \in SUBSET Nat /\ Records = 1..MaxRecords
  BY RecordsAreNumbers DEF Records
<1>2. ~Done(k) /\ Begun(k)
  BY DEF Done, Begun, Settled
<1>3. ASSUME NEW j \in Records, Begun(j) PROVE j <= k
  <2> SUFFICES ASSUME k < j PROVE FALSE
    BY <1>1
  <2>1. k \in 1..j - 1
    BY <1>1
  <2> QED
    BY <1>2, <1>3, <2>1 DEF SerialInv
<1>4. ASSUME NEW j \in Records, j < k PROVE Done(j)
  <2>1. j \in 1..k - 1
    BY <1>1, <1>4
  <2> QED
    BY <1>2, <2>1 DEF SerialInv
<1>5. ASSUME NEW j \in Backlog PROVE j < k
  <2>1. j \in Records /\ pc[j] = "rejected"
    BY DEF BacklogInv
  <2>2. j <= k
    BY <1>3, <2>1 DEF Begun
  <2> QED
    BY <1>1, <2>1, <2>2
<1>6. \A j \in ToSet(landed) : j \in Records /\ Begun(j)
  BY Elements DEF ArrivalInv
<1>7. k \notin Backlog
  BY DEF BacklogInv
<1> QED
  BY <1>3, <1>4, <1>5, <1>6, <1>7

\* inner.emit(j): what arrived is in the sink, once, behind what was there.
LEMMA Landing ==
    ASSUME IndInv, NEW j \in Records, NEW arrived \in BOOLEAN,
           Arrives(j, arrived),
           j \in ToSet(landed) \/ \A i \in ToSet(landed) : i < j
    PROVE  /\ landed' \in Seq(Records)
           /\ FirstArrivalsInOrder'
           /\ ToSet(landed) \subseteq ToSet(landed')
           /\ ToSet(landed') \subseteq ToSet(landed) \cup {j}
           /\ arrived => j \in ToSet(landed')
<1> USE Typing
<1>1. Increasing(landed)
  BY DEF IndInv, ArrivalInv, FirstArrivalsInOrder, Increasing
<1>2. CASE arrived /\ ~Contains(landed, j)
  <2>1. landed' = Append(landed, j)
    BY <1>2 DEF Arrives
  <2>2. \A i \in ToSet(landed) : i < j
    BY <1>2, Elements
  <2>3. /\ landed' \in Seq(Records) /\ Increasing(landed')
        /\ ToSet(landed') = ToSet(landed) \cup {j}
    BY <1>1, <2>1, <2>2, AtTheEnd
  <2> QED
    BY <2>3 DEF FirstArrivalsInOrder, Increasing
<1>3. CASE ~(arrived /\ ~Contains(landed, j))
  <2>1. landed' = landed
    BY <1>3 DEF Arrives
  <2>2. arrived => j \in ToSet(landed)
    BY <1>3, Elements
  <2> QED
    BY <1>1, <2>1, <2>2 DEF FirstArrivalsInOrder, Increasing
<1> QED
  BY <1>2, <1>3

\* A call at work may send what is oldest among what is owed.
LEMMA OldestMayLand ==
    ASSUME IndInv, NEW j \in Backlog
    PROVE  j \in ToSet(landed) \/ \A i \in ToSet(landed) : i < j
BY DEF IndInv, ArrivalInv

LEMMA NewestMayLand ==
    ASSUME IndInv, NEW k \in Records, pc[k] \in {"drain", "ack", "buffer"}
    PROVE  k \in ToSet(landed) \/ \A i \in ToSet(landed) : i < k
<1>1. \A i \in ToSet(landed) : i <= k
  BY AtWork
<1>2. k \in Nat /\ ToSet(landed) \in SUBSET Nat
  BY Typing, Elements, RecordsAreNumbers
<1> QED
  BY <1>1, <1>2

-------------------------------------------------------------------------------
(* What a step must keep *)

\* The turn of a call, and the work of the call whose turn it is.
LEMMA SerialKept ==
    ASSUME IndInv, TypeOK', NEW k \in Records, Turn(k), pc[k] \notin {"new"},
           ~Done(k), emitted' = emitted,
           NEW to \in Phases \ {"new", "queued"}, pc' = [pc EXCEPT ![k] = to],
           to \in {"drain", "ack"} => snapshot'[k] = store',
           to = "ack" => store' # <<>> /\ Head(store') \in ToSet(landed')
    PROVE  SerialInv'
<1> USE Typing DEF IndInv
<1>1. Records = 1..MaxRecords /\ Records \in SUBSET Nat
  BY RecordsAreNumbers DEF Records
<1>2. /\ pc'[k] = to
      /\ \A j \in Records : j # k => pc'[j] = pc[j]
  OBVIOUS
<1>3. \A j \in 1..k - 1 : j \in Records /\ Done(j)
  BY <1>1, Bounds DEF Turn, Done
<1>4. ASSUME NEW j \in Records, j # k PROVE pc[j] \notin {"drain", "ack"}
  <2>1. CASE j < k
    <3>1. Done(j)
      BY <1>1, <1>3, <2>1
    <3> QED
      BY <3>1 DEF Done, Settled
  <2>2. CASE j > k
    <3>1. k \in 1..j - 1
      BY <1>1, <2>2
    <3>2. ~Begun(j)
      BY <3>1 DEF SerialInv
    <3> QED
      BY <3>2 DEF Begun
  <2> QED
    BY <1>1, <1>4, <2>1, <2>2
<1>5. ASSUME NEW j \in Records PROVE j > emitted' <=> pc'[j] = "new"
  BY <1>2 DEF SerialInv
<1>6. ASSUME NEW j \in Records, pc'[j] \notin {"new", "queued"},
             NEW i \in 1..j - 1
      PROVE  pc'[i] \in Settled \cup {"crashed"}
  <2>1. i \in Records
    BY <1>1, Bounds
  <2>2. CASE j = k
    BY <1>1, <1>2, <1>3, <2>2 DEF Done
  <2>3. CASE j # k
    <3>1. Begun(j)
      BY <1>2, <1>6, <2>3 DEF Begun
    <3>2. Done(i)
      BY <3>1 DEF SerialInv
    <3> QED
      BY <1>2, <2>1, <3>2 DEF Done
  <2> QED
    BY <2>2, <2>3
<1>7. ASSUME NEW j \in Records
      PROVE  /\ pc'[j] \in {"drain", "ack"} => snapshot'[j] = store'
             /\ pc'[j] = "ack" =>
                  store' # <<>> /\ Head(store') \in ToSet(landed')
  BY <1>2, <1>4
<1> QED
  BY <1>5, <1>6, <1>7 DEF SerialInv, Begun, Done

\* Records leave the backlog, and what arrives is no younger than what stays.
LEMMA OrderKept ==
    ASSUME IndInv, TypeOK', Increasing(store'), Increasing(mem'),
           ToSet(store') \subseteq ToSet(store),
           ToSet(mem') \subseteq ToSet(mem),
           FirstArrivalsInOrder',
           ToSet(landed) \subseteq ToSet(landed'),
           \A x \in ToSet(landed') :
              \/ x \in ToSet(landed)
              \/ Begun(x) /\ \A j \in ToSet(store') \cup ToSet(mem') : x <= j,
           \A j \in Records : pc[j] = "rejected" => pc'[j] = "rejected",
           \A j \in Records :
              pc[j] \notin {"new", "queued"} => pc'[j] \notin {"new", "queued"},
           overflowed' = overflowed
    PROVE  BacklogInv' /\ ArrivalInv'
<1> USE Typing DEF IndInv
<1>1. /\ ToSet(landed) \in SUBSET Records /\ ToSet(landed') \in SUBSET Records
      /\ Records \in SUBSET Nat
  BY Elements, RecordsAreNumbers DEF TypeOK
<1>2. BacklogInv'
  BY DEF BacklogInv, Backlog
<1>3. \A i \in ToSet(landed') : pc'[i] \notin {"new", "queued"}
  BY <1>1 DEF ArrivalInv, Begun
<1>4. ASSUME NEW j \in ToSet(store') \cup ToSet(mem')
      PROVE  j \in ToSet(landed') \/ \A i \in ToSet(landed') : i < j
  <2>1. j \in Backlog /\ j \in Records
    BY DEF Backlog
  <2>2. j \in ToSet(landed) \/ \A i \in ToSet(landed) : i < j
    BY <2>1, OldestMayLand
  <2>3. ASSUME j \notin ToSet(landed'), NEW i \in ToSet(landed') PROVE i < j
    BY <1>1, <2>1, <2>2, <2>3
  <2> QED
    BY <2>3
<1> QED
  BY <1>2, <1>3, <1>4 DEF ArrivalInv, Begun, Backlog

\* Steps that send nothing and evict nothing.
LEMMA OrderIdle ==
    ASSUME IndInv, TypeOK', UNCHANGED <<store, landed, overflowed>>,
           mem' = mem \/ mem' = <<>>,
           \A j \in Records : pc[j] = "rejected" => pc'[j] = "rejected",
           \A j \in Records :
              pc[j] \notin {"new", "queued"} => pc'[j] \notin {"new", "queued"}
    PROVE  BacklogInv' /\ ArrivalInv'
<1>1. Increasing(store') /\ Increasing(mem')
  BY EmptyIsEmpty DEF IndInv, BacklogInv
<1>2. ToSet(store') = ToSet(store) /\ ToSet(mem') \subseteq ToSet(mem)
  BY EmptyIsEmpty
<1>3. FirstArrivalsInOrder' /\ ToSet(landed') = ToSet(landed)
  BY DEF IndInv, ArrivalInv, FirstArrivalsInOrder
<1>4. /\ ToSet(store') \subseteq ToSet(store)
      /\ ToSet(landed) \subseteq ToSet(landed')
      /\ \A x \in ToSet(landed') :
            \/ x \in ToSet(landed)
            \/ Begun(x) /\ \A j \in ToSet(store') \cup ToSet(mem') : x <= j
      /\ overflowed' = overflowed
  BY <1>2, <1>3
<1> QED
  BY <1>1, <1>2, <1>3, <1>4, OrderKept

\* Records that were accounted for stay so, and whoever gets an answer is.
LEMMA AccountKept ==
    ASSUME IndInv,
           ToSet(landed) \subseteq ToSet(landed'),
           lost \subseteq lost', forgotten \subseteq forgotten',
           Backlog \subseteq ToSet(landed') \cup ToSet(mem') \cup ToSet(store')
                             \cup lost' \cup forgotten',
           lost' \subseteq overflowed',
           \A j \in Records : pc[j] = "crashed" => pc'[j] = "crashed",
           \A j \in Records : pc'[j] \in Settled =>
              \/ pc'[j] = pc[j]
              \/ j \in ToSet(landed') \cup ToSet(mem'),
           \A j \in Records : pc'[j] = "resolved" =>
              \/ pc[j] = "resolved"
              \/ /\ Backlog = {} /\ j \in ToSet(landed')
                 /\ \A i \in 1..j - 1 : i \in Records /\ Done(i)
    PROVE  NoSilentLoss' /\ SuccessVouchesForThePast'
<1> USE DEF IndInv
<1>1. \A j \in Records : pc[j] \in Settled =>
         j \in ToSet(landed) \cup Backlog \cup lost \cup forgotten
  BY DEF NoSilentLoss, Held, Backlog
<1>2. \A j \in Records : pc'[j] \in Settled =>
         j \in ToSet(landed') \cup ToSet(mem') \cup ToSet(store')
                  \cup lost' \cup forgotten'
  BY <1>1
<1>3. ASSUME NEW k \in Records, pc'[k] = "resolved", NEW j \in 1..k
      PROVE  j \in ToSet(landed') \cup lost' \cup forgotten' \/ pc'[j] = "crashed"
  <2>1. j \in Records /\ k \in Nat /\ j \in Nat
    BY Bounds DEF Records
  <2>2. CASE pc[k] = "resolved"
    BY <2>1, <2>2 DEF SuccessVouchesForThePast
  <2>3. CASE pc[k] # "resolved"
    <3>1. /\ Backlog = {} /\ k \in ToSet(landed')
          /\ \A i \in 1..k - 1 : Done(i)
      BY <1>3, <2>3
    <3>2. CASE j # k
      <4>1. j \in 1..k - 1
        BY <2>1, <3>2
      <4>2. Done(j)
        BY <3>1, <4>1
      <4> QED
        BY <1>1, <2>1, <3>1, <4>2 DEF Done
    <3> QED
      BY <3>1, <3>2
  <2> QED
    BY <2>2, <2>3
<1> QED
  BY <1>2, <1>3 DEF NoSilentLoss, Held, SuccessVouchesForThePast

-------------------------------------------------------------------------------
(* The actions *)

\* The spilled record goes behind the others; a full storage drops its oldest.
LEMMA Spilling ==
    ASSUME IndInv, NEW j \in Records, \A i \in ToSet(store) : i < j
    PROVE  /\ Spilled(j) \in Seq(Records) /\ Len(Spilled(j)) <= MaxSize
           /\ Increasing(Spilled(j))
           /\ Dropped \in SUBSET ToSet(store)
           /\ ToSet(Spilled(j)) \cup Dropped = ToSet(store) \cup {j}
           /\ ToSet(Spilled(j)) \subseteq ToSet(store) \cup {j}
<1> USE Typing
<1>1. Increasing(store) /\ Len(store) \in Nat
  BY DEF IndInv, BacklogInv
<1>2. CASE Len(store) >= MaxSize
  <2>1. store # <<>>
    BY <1>2, EmptyIsEmpty, Bounds
  <2>2. Spilled(j) = Append(Tail(store), j) /\ Dropped = {Head(store)}
    BY <1>2 DEF Spilled, Dropped
  <2>3. /\ Tail(store) \in Seq(Records) /\ Len(Tail(store)) = Len(store) - 1
        /\ ToSet(store) = {Head(store)} \cup ToSet(Tail(store))
        /\ Increasing(Tail(store))
    BY <1>1, <2>1, OldestLeaves
  <2>4. /\ Spilled(j) \in Seq(Records) /\ Increasing(Spilled(j))
        /\ ToSet(Spilled(j)) = ToSet(Tail(store)) \cup {j}
        /\ Len(Spilled(j)) = Len(store)
    <3> DEFINE t == Tail(store)
    <3>1. t \in Seq(Records) /\ Increasing(t) /\ Len(t) = Len(store) - 1
      BY <2>3
    <3>2. \A i \in ToSet(t) : i < j
      BY <2>3
    <3>3. Spilled(j) = Append(t, j)
      BY <2>2
    <3> HIDE DEF t
    <3>4. /\ Append(t, j) \in Seq(Records) /\ Increasing(Append(t, j))
          /\ ToSet(Append(t, j)) = ToSet(t) \cup {j}
          /\ Len(Append(t, j)) = Len(t) + 1
      BY <3>1, <3>2, AtTheEnd
    <3>5. Len(Append(t, j)) = Len(store)
      BY <1>1, <3>1, <3>4
    <3> QED
      BY <3>3, <3>4, <3>5 DEF t
  <2> QED
    BY <2>2, <2>3, <2>4
<1>3. CASE ~(Len(store) >= MaxSize)
  <2>1. Spilled(j) = Append(store, j) /\ Dropped = {}
    BY <1>3 DEF Spilled, Dropped
  <2>2. /\ Spilled(j) \in Seq(Records) /\ Increasing(Spilled(j))
        /\ ToSet(Spilled(j)) = ToSet(store) \cup {j}
        /\ Len(Spilled(j)) = Len(store) + 1
    BY <1>1, <2>1, AtTheEnd
  <2>3. Len(Spilled(j)) <= MaxSize
    BY <1>1, <1>3, <2>2, Bounds
  <2> QED
    BY <2>1, <2>2, <2>3
<1> QED
  BY <1>2, <1>3

\* bufferOrSpill, told by its parts: the queue gives its oldest record away or
\* has room, and the new record goes to its end.
LEMMA Buffering ==
    ASSUME IndInv, NEW k \in Records, NEW ok \in BOOLEAN, Buffer(k, ok)
    PROVE  \E evicted, kept \in SUBSET Records, left \in Seq(Records) :
              /\ mem' = Append(left, k) /\ Len(left) + 1 <= MemBound
              /\ Increasing(left)
              /\ ToSet(mem) = evicted \cup ToSet(left)
              /\ \A i \in evicted, j \in ToSet(left) : i < j
              /\ overflowed' = overflowed \cup evicted
              /\ store' \in Seq(Records) /\ Len(store') <= MaxSize
              /\ Increasing(store')
              /\ kept = ToSet(store') /\ kept \subseteq ToSet(store) \cup evicted
              /\ ToSet(store) \cup evicted \subseteq kept \cup lost'
              /\ lost \subseteq lost'
              /\ lost' \subseteq lost \cup ToSet(store) \cup evicted
<1> USE Typing
<1> DEFINE evicted == IF Full /\ mem # <<>> THEN {Head(mem)} ELSE {}
           left == IF evicted # {} THEN Tail(mem) ELSE mem
<1>1. /\ mem' = Append(left, k)
      /\ overflowed' = overflowed \cup evicted
  BY DEF Buffer, Reported
<1>2. Increasing(mem) /\ Increasing(store) /\ Len(mem) \in Nat
  BY DEF IndInv, BacklogInv
<1>3. /\ left \in Seq(Records) /\ Len(left) + 1 <= MemBound /\ Increasing(left)
      /\ ToSet(mem) = evicted \cup ToSet(left)
      /\ \A i \in evicted, j \in ToSet(left) : i < j
  <2>1. CASE evicted # {}
    <3>1. mem # <<>> /\ left = Tail(mem) /\ evicted = {Head(mem)}
      BY <2>1
    <3> QED
      BY <1>2, <3>1, OldestLeaves, Bounds
  <2>2. CASE evicted = {}
    <3>1. left = mem /\ (~Full \/ mem = <<>>)
      BY <2>2
    <3>2. Len(mem) + 1 <= MemBound
      BY <1>2, <3>1, EmptyIsEmpty, ConstantsAssumption DEF Full, MemBound
    <3> QED
      BY <1>2, <2>2, <3>1, <3>2
  <2> QED
    BY <2>1, <2>2
<1>4. evicted \in SUBSET Records
  BY OldestLeaves
<1>5. /\ store' \in Seq(Records) /\ Len(store') <= MaxSize /\ Increasing(store')
      /\ ToSet(store') \subseteq ToSet(store) \cup evicted
      /\ ToSet(store) \cup evicted \subseteq ToSet(store') \cup lost'
      /\ lost \subseteq lost'
      /\ lost' \subseteq lost \cup ToSet(store) \cup evicted
  <2>1. CASE evicted # {} /\ ok
    <3>1. /\ evicted = {Head(mem)} /\ mem # <<>>
          /\ store' = Spilled(Head(mem)) /\ lost' = lost \cup Dropped
      BY <2>1 DEF Buffer
    <3>2. Head(mem) \in Records /\ Head(mem) \in ToSet(mem)
      BY <3>1, OldestLeaves
    <3>3. \A i \in ToSet(store) : i < Head(mem)
      BY <3>2 DEF IndInv, BacklogInv
    <3>4. /\ Spilled(Head(mem)) \in Seq(Records)
          /\ Len(Spilled(Head(mem))) <= MaxSize
          /\ Increasing(Spilled(Head(mem)))
          /\ Dropped \in SUBSET ToSet(store)
          /\ ToSet(Spilled(Head(mem))) \cup Dropped = ToSet(store) \cup {Head(mem)}
          /\ ToSet(Spilled(Head(mem))) \subseteq ToSet(store) \cup {Head(mem)}
      BY <3>2, <3>3, Spilling
    <3> HIDE DEF evicted, left
    <3> QED
      BY <3>1, <3>4
  <2>2. CASE ~(evicted # {} /\ ok)
    <3>1. /\ store' = store
          /\ \/ evicted = {} /\ lost' = lost
             \/ lost' = lost \cup evicted
      BY <2>2 DEF Buffer
    <3> HIDE DEF evicted, left
    <3> QED
      BY <1>2, <3>1
  <2> QED
    BY <2>1, <2>2
<1> HIDE DEF evicted, left
<1>6. ToSet(store') \in SUBSET Records
  BY <1>5, Elements
<1> QED
  BY <1>1, <1>3, <1>4, <1>5, <1>6

LEMMA TypeStep ==
    ASSUME IndInv, [Next]_vars
    PROVE  TypeOK'
<1> USE Typing
<1>1. CASE Emit
  <2>1. emitted' \in 0..MaxRecords
    BY <1>1, Bounds DEF Emit
  <2> QED
    BY <1>1, <2>1 DEF Emit, Go, TypeOK, Phases
<1>2. CASE Crash
  <2>1. /\ mem' = <<>> /\ mem' \in Seq(Records) /\ Len(mem') <= MemBound
    BY <1>2, Bounds, EmptyIsEmpty DEF Crash
  <2>2. forgotten' \in SUBSET Records
    BY <1>2, Elements DEF Crash
  <2>3. snapshot' \in [Records -> Seq(Records)]
    BY <1>2, EmptyIsEmpty DEF Crash
  <2>4. pc' \in [Records -> Phases]
    BY <1>2 DEF Crash, Phases
  <2> QED
    BY <1>2, <2>1, <2>2, <2>3, <2>4 DEF Crash, TypeOK
<1>3. ASSUME NEW k \in Records, Start(k) PROVE TypeOK'
  BY <1>3 DEF Start, Go, ReadAll, TypeOK, Phases
<1>4. ASSUME NEW k \in Records, NEW arrived \in BOOLEAN, NEW ok \in BOOLEAN,
             DrainStorage(k, arrived, ok)
      PROVE  TypeOK'
  <2>1. Head(snapshot[k]) \in Records
    BY <1>4, OldestLeaves DEF DrainStorage
  <2>2. landed' \in Seq(Records)
    BY <1>4, <2>1, AtTheEnd DEF DrainStorage, Arrives
  <2> QED
    BY <1>4, <2>2 DEF DrainStorage, Go, TypeOK, Phases
<1>5. ASSUME NEW k \in Records, NEW ok \in BOOLEAN, Ack(k, ok) PROVE TypeOK'
  <2>1. /\ pc[k] = "ack" /\ snapshot[k] = store /\ store # <<>>
    BY <1>5 DEF Ack, Go, IndInv, SerialInv
  <2>2. /\ RemoveFirst(store, Head(store)) = Tail(store)
        /\ Tail(store) \in Seq(Records) /\ Len(Tail(store)) <= MaxSize
    BY <2>1, AckedIsOldest, OldestLeaves, Bounds
  <2>3. store' \in Seq(Records) /\ Len(store') <= MaxSize
    BY <1>5, <2>1, <2>2 DEF Ack
  <2>4. snapshot' \in [Records -> Seq(Records)]
    BY <1>5, <2>1, <2>2 DEF Ack
  <2> QED
    BY <1>5, <2>3, <2>4 DEF Ack, Go, TypeOK, Phases
<1>6. ASSUME NEW k \in Records, NEW arrived \in BOOLEAN, NEW ok \in BOOLEAN,
             DrainMemory(k, arrived, ok)
      PROVE  TypeOK'
  <2>1. /\ Head(mem) \in Records /\ Tail(mem) \in Seq(Records)
        /\ Len(Tail(mem)) <= MemBound
    BY <1>6, OldestLeaves, Bounds DEF DrainMemory
  <2>2. landed' \in Seq(Records)
    BY <1>6, <2>1, AtTheEnd DEF DrainMemory, Arrives
  <2>3. mem' \in Seq(Records) /\ Len(mem') <= MemBound
    BY <1>6, <2>1 DEF DrainMemory
  <2> QED
    BY <1>6, <2>2, <2>3 DEF DrainMemory, Go, TypeOK, Phases
<1>7. ASSUME NEW k \in Records, NEW arrived \in BOOLEAN, NEW ok \in BOOLEAN,
             EmitInner(k, arrived, ok)
      PROVE  TypeOK'
  <2>1. landed' \in Seq(Records)
    BY <1>7, AtTheEnd DEF EmitInner, Arrives
  <2> QED
    BY <1>7, <2>1 DEF EmitInner, Go, TypeOK, Phases, Settled
<1>8. ASSUME NEW k \in Records, NEW ok \in BOOLEAN, Buffer(k, ok) PROVE TypeOK'
  <2>1. PICK evicted, kept \in SUBSET Records, left \in Seq(Records) :
            /\ mem' = Append(left, k) /\ Len(left) + 1 <= MemBound
            /\ overflowed' = overflowed \cup evicted
            /\ store' \in Seq(Records) /\ Len(store') <= MaxSize
            /\ lost' \subseteq lost \cup ToSet(store) \cup evicted
    BY <1>8, Buffering
  <2>2. mem' \in Seq(Records) /\ Len(mem') <= MemBound
    BY <2>1, AtTheEnd
  <2>3. lost' \in SUBSET Records
    BY <2>1, Elements
  <2> QED
    BY <1>8, <2>1, <2>2, <2>3 DEF Buffer, Go, TypeOK, Phases, Settled
<1>9. CASE UNCHANGED vars
  BY <1>9 DEF vars, TypeOK
<1> QED
  BY <1>1, <1>2, <1>3, <1>4, <1>5, <1>6, <1>7, <1>8, <1>9 DEF Next, Proceed

Steady == BacklogInv' /\ ArrivalInv' /\ NoSilentLoss' /\ SuccessVouchesForThePast'

\* The calls that begin and those whose turn it is.
LEMMA AtWorkTurn ==
    ASSUME IndInv, NEW k \in Records, pc[k] \in {"drain", "ack", "buffer"}
    PROVE  /\ Turn(k) /\ ~Done(k) /\ pc[k] # "new"
           /\ \A i \in 1..k - 1 : i \in Records /\ Done(i)
<1>1. Begun(k)
  BY DEF Begun
<1>2. \A i \in 1..k - 1 : Done(i)
  BY <1>1 DEF IndInv, SerialInv
<1>3. \A i \in 1..k - 1 : i \in Records
  BY Bounds DEF Records
<1> QED
  BY <1>2, <1>3 DEF Turn, Done, Settled

LEMMA EmitStep ==
    ASSUME IndInv, TypeOK', Emit
    PROVE  SerialInv' /\ Steady
<1> USE Typing DEF IndInv
<1>1. /\ emitted + 1 \in Records /\ pc[emitted + 1] = "new"
      /\ emitted' = emitted + 1
      /\ pc' = [pc EXCEPT ![emitted + 1] = "queued"]
      /\ UNCHANGED <<snapshot, mem, store, landed, overflowed, lost, forgotten>>
  BY Bounds DEF Emit, Go, Records
<1>2. /\ \A j \in Records : j # emitted + 1 => pc'[j] = pc[j]
      /\ pc'[emitted + 1] = "queued"
  BY <1>1
<1>3. SerialInv'
  <2>1. \A j \in Records : j > emitted' <=> pc'[j] = "new"
    BY <1>1, <1>2, RecordsAreNumbers DEF SerialInv
  <2>2. ASSUME NEW j \in Records, pc'[j] \notin {"new", "queued"},
               NEW i \in 1..j - 1
        PROVE  pc'[i] \in Settled \cup {"crashed"}
    <3>1. i \in Records
      BY Bounds DEF Records
    <3>2. Begun(j)
      BY <1>2, <2>2 DEF Begun
    <3>3. Done(i)
      BY <3>2 DEF SerialInv
    <3>4. i # emitted + 1
      BY <1>1, <3>3 DEF Done, Settled
    <3> QED
      BY <1>2, <3>1, <3>3, <3>4 DEF Done
  <2> QED
    BY <1>1, <1>2, <2>1, <2>2 DEF SerialInv, Begun, Done
<1>4. BacklogInv' /\ ArrivalInv'
  <2>1. \A j \in Records :
          /\ pc[j] = "rejected" => pc'[j] = "rejected"
          /\ pc[j] \notin {"new", "queued"} => pc'[j] \notin {"new", "queued"}
    BY <1>1, <1>2
  <2> QED
    BY <1>1, <2>1, OrderIdle
<1>5. NoSilentLoss' /\ SuccessVouchesForThePast'
  <2>1. /\ Backlog \subseteq ToSet(landed') \cup ToSet(mem') \cup ToSet(store')
                             \cup lost' \cup forgotten'
        /\ lost' \subseteq overflowed'
    BY <1>1 DEF Backlog, NoSilentLoss
  <2> QED
    BY <1>1, <1>2, <2>1, AccountKept DEF Settled
<1> QED
  BY <1>3, <1>4, <1>5 DEF Steady

LEMMA CrashStep ==
    ASSUME IndInv, TypeOK', Crash
    PROVE  SerialInv' /\ Steady
<1> USE Typing DEF IndInv
<1>1. /\ mem' = <<>> /\ forgotten' = forgotten \cup ToSet(mem)
      /\ UNCHANGED <<emitted, store, landed, overflowed, lost>>
      /\ \A j \in Records :
            /\ pc[j] \in {"new"} \cup Settled => pc'[j] = pc[j]
            /\ pc[j] \notin {"new"} \cup Settled => pc'[j] = "crashed"
  BY DEF Crash
<1>2. \A j \in Records : pc'[j] \notin {"new"} => pc'[j] \in Settled \cup {"crashed"}
  BY <1>1
<1>3. SerialInv'
  <2>1. \A j \in Records : j > emitted' <=> pc'[j] = "new"
    BY <1>1 DEF SerialInv, Settled
  <2>2. ASSUME NEW j \in Records, pc'[j] \notin {"new", "queued"},
               NEW i \in 1..j - 1
        PROVE  pc'[i] \in Settled \cup {"crashed"}
    <3>1. i \in Records /\ i < j /\ i \in Nat /\ j \in Nat
      BY Bounds DEF Records
    <3>2. ~(j > emitted)
      BY <1>1, <2>1, <2>2
    <3>3. pc'[i] # "new"
      BY <1>1, <2>1, <3>1, <3>2
    <3> QED
      BY <1>2, <3>1, <3>3
  <2>3. \A j \in Records : pc'[j] \notin {"drain", "ack"}
    BY <1>2 DEF Settled
  <2> QED
    BY <2>1, <2>2, <2>3 DEF SerialInv, Begun, Done
<1>4. ToSet(mem') = {} /\ Increasing(mem')
  BY <1>1, EmptyIsEmpty
<1>5. BacklogInv' /\ ArrivalInv'
  <2>1. \A j \in Records :
          /\ pc[j] = "rejected" => pc'[j] = "rejected"
          /\ pc[j] \notin {"new", "queued"} => pc'[j] \notin {"new", "queued"}
    BY <1>1 DEF Settled
  <2> QED
    BY <1>1, <2>1, OrderIdle
<1>6. NoSilentLoss' /\ SuccessVouchesForThePast'
  <2>1. /\ Backlog \subseteq ToSet(landed') \cup ToSet(mem') \cup ToSet(store')
                             \cup lost' \cup forgotten'
        /\ lost' \subseteq overflowed'
    BY <1>1 DEF Backlog, NoSilentLoss
  <2>2. \A j \in Records : /\ pc[j] = "crashed" => pc'[j] = "crashed"
                           /\ pc'[j] \in Settled => pc'[j] = pc[j]
    BY <1>1 DEF Settled
  <2>3. \A j \in Records : pc'[j] = "resolved" => pc[j] = "resolved"
    BY <2>2 DEF Settled
  <2> QED
    BY <1>1, <2>1, <2>2, <2>3, AccountKept
<1> QED
  BY <1>3, <1>5, <1>6 DEF Steady

LEMMA StartStep ==
    ASSUME IndInv, TypeOK', NEW k \in Records, Start(k)
    PROVE  SerialInv' /\ Steady
<1> USE Typing DEF IndInv
<1>1. /\ Turn(k) /\ pc[k] = "queued" /\ ~Done(k)
      /\ pc' = [pc EXCEPT ![k] = "drain"]
      /\ snapshot'[k] = store
      /\ UNCHANGED <<emitted, mem, store, landed, overflowed, lost, forgotten>>
  BY DEF Start, Go, ReadAll, Done, Settled
<1>2. SerialInv'
  BY <1>1, SerialKept DEF Phases
<1>3. BacklogInv' /\ ArrivalInv'
  <2>1. \A j \in Records :
          /\ pc[j] = "rejected" => pc'[j] = "rejected"
          /\ pc[j] \notin {"new", "queued"} => pc'[j] \notin {"new", "queued"}
    BY <1>1
  <2> QED
    BY <1>1, <2>1, OrderIdle
<1>4. NoSilentLoss' /\ SuccessVouchesForThePast'
  <2>1. /\ Backlog \subseteq ToSet(landed') \cup ToSet(mem') \cup ToSet(store')
                             \cup lost' \cup forgotten'
        /\ lost' \subseteq overflowed'
    BY <1>1 DEF Backlog, NoSilentLoss
  <2> QED
    BY <1>1, <2>1, AccountKept DEF Settled
<1> QED
  BY <1>2, <1>3, <1>4 DEF Steady

LEMMA DrainStorageStep ==
    ASSUME IndInv, TypeOK', NEW k \in Records, NEW arrived \in BOOLEAN,
           NEW ok \in BOOLEAN, DrainStorage(k, arrived, ok)
    PROVE  SerialInv' /\ Steady
<1> USE Typing DEF IndInv
<1> DEFINE j == Head(store)
           to == IF ok THEN "ack" ELSE "buffer"
<1>1. /\ pc[k] = "drain" /\ store # <<>> /\ snapshot[k] = store
      /\ pc' = [pc EXCEPT ![k] = to] /\ to \in {"ack", "buffer"}
      /\ Arrives(j, arrived) /\ (ok => arrived)
      /\ UNCHANGED <<emitted, snapshot, mem, store, overflowed, lost, forgotten>>
  BY DEF DrainStorage, Go, Answers, SerialInv
<1>2. j \in Records /\ j \in ToSet(store) /\ j \in Backlog
  BY <1>1, OldestLeaves DEF Backlog
<1>3. \A i \in Backlog : j <= i
  <2>1. Increasing(store) /\ Backlog \in SUBSET Nat
    BY RecordsAreNumbers DEF BacklogInv
  <2>2. \A i \in ToSet(store) : j <= i
    BY <1>1, <2>1, OldestIsLeast
  <2>3. \A i \in ToSet(mem) : j < i
    BY <1>2 DEF BacklogInv
  <2> QED
    BY <1>2, <2>1, <2>2, <2>3 DEF Backlog
<1> HIDE DEF j
<1>4. /\ landed' \in Seq(Records) /\ FirstArrivalsInOrder'
      /\ ToSet(landed) \subseteq ToSet(landed')
      /\ ToSet(landed') \subseteq ToSet(landed) \cup {j}
      /\ arrived => j \in ToSet(landed')
  BY <1>1, <1>2, OldestMayLand, Landing
<1>5. SerialInv'
  <2>1. to = "ack" => store' # <<>> /\ Head(store') \in ToSet(landed')
    BY <1>1, <1>4 DEF j
  <2> HIDE DEF to
  <2>2. to \in Phases \ {"new", "queued"} /\ to # "drain"
    BY <1>1 DEF Phases
  <2> QED
    BY <1>1, <2>1, <2>2, AtWorkTurn, SerialKept
<1>6. \A i \in Records : i # k => pc'[i] = pc[i]
  BY <1>1
<1>7. pc'[k] \in {"ack", "buffer"}
  BY <1>1
<1>8. BacklogInv' /\ ArrivalInv'
  <2>1. \A x \in ToSet(landed') :
          \/ x \in ToSet(landed)
          \/ Begun(x) /\ \A i \in ToSet(store') \cup ToSet(mem') : x <= i
    BY <1>1, <1>2, <1>3, <1>4 DEF Backlog, BacklogInv, Begun
  <2>2. Increasing(store') /\ Increasing(mem')
    BY <1>1 DEF BacklogInv
  <2>3. /\ \A i \in Records : pc[i] = "rejected" => pc'[i] = "rejected"
        /\ \A i \in Records :
              pc[i] \notin {"new", "queued"} => pc'[i] \notin {"new", "queued"}
    BY <1>1, <1>6, <1>7
  <2> QED
    BY <1>1, <1>4, <2>1, <2>2, <2>3, OrderKept
<1>9. NoSilentLoss' /\ SuccessVouchesForThePast'
  <2>1. /\ Backlog \subseteq ToSet(landed') \cup ToSet(mem') \cup ToSet(store')
                             \cup lost' \cup forgotten'
        /\ lost' \subseteq overflowed' /\ lost \subseteq lost'
        /\ forgotten \subseteq forgotten'
    BY <1>1 DEF Backlog, NoSilentLoss
  <2>2. \A i \in Records : /\ pc[i] = "crashed" => pc'[i] = "crashed"
                           /\ pc'[i] \in Settled => pc'[i] = pc[i]
                           /\ pc'[i] = "resolved" => pc[i] = "resolved"
    BY <1>1, <1>6, <1>7 DEF Settled
  <2> QED
    BY <1>4, <2>1, <2>2, AccountKept
<1> QED
  BY <1>5, <1>8, <1>9 DEF Steady

LEMMA AckStep ==
    ASSUME IndInv, TypeOK', NEW k \in Records, NEW ok \in BOOLEAN, Ack(k, ok)
    PROVE  SerialInv' /\ Steady
<1> USE Typing DEF IndInv
<1> DEFINE to == IF ok THEN "drain" ELSE "buffer"
<1>1. /\ pc[k] = "ack" /\ store # <<>> /\ snapshot[k] = store
      /\ Head(store) \in ToSet(landed)
      /\ pc' = [pc EXCEPT ![k] = to] /\ to \in {"drain", "buffer"}
      /\ snapshot' = [snapshot EXCEPT ![k] = Tail(store)]
      /\ store' = IF ok THEN Tail(store) ELSE store
      /\ UNCHANGED <<emitted, mem, landed, overflowed, lost, forgotten>>
  BY AckedIsOldest DEF Ack, Go, SerialInv
<1>2. /\ ToSet(store) = {Head(store)} \cup ToSet(Tail(store))
      /\ Increasing(Tail(store))
  BY <1>1, OldestLeaves DEF BacklogInv
<1>3. SerialInv'
  <2>1. to = "drain" => snapshot'[k] = store'
    BY <1>1
  <2> HIDE DEF to
  <2>2. to \in Phases \ {"new", "queued"} /\ to # "ack"
    BY <1>1 DEF Phases
  <2> QED
    BY <1>1, <2>1, <2>2, AtWorkTurn, SerialKept
<1>4. \A i \in Records : i # k => pc'[i] = pc[i]
  BY <1>1
<1>5. pc'[k] \in {"drain", "buffer"}
  BY <1>1
<1>6. /\ Increasing(store') /\ ToSet(store') \subseteq ToSet(store)
      /\ ToSet(store) \subseteq ToSet(store') \cup ToSet(landed)
  BY <1>1, <1>2 DEF BacklogInv
<1>7. BacklogInv' /\ ArrivalInv'
  <2>1. /\ FirstArrivalsInOrder' /\ Increasing(mem')
        /\ ToSet(mem') \subseteq ToSet(mem)
        /\ ToSet(landed) \subseteq ToSet(landed')
        /\ \A x \in ToSet(landed') :
            \/ x \in ToSet(landed)
            \/ Begun(x) /\ \A i \in ToSet(store') \cup ToSet(mem') : x <= i
    BY <1>1 DEF BacklogInv, ArrivalInv, FirstArrivalsInOrder
  <2>2. /\ \A i \in Records : pc[i] = "rejected" => pc'[i] = "rejected"
        /\ \A i \in Records :
              pc[i] \notin {"new", "queued"} => pc'[i] \notin {"new", "queued"}
    BY <1>1, <1>4, <1>5
  <2> QED
    BY <1>1, <1>6, <2>1, <2>2, OrderKept
<1>8. NoSilentLoss' /\ SuccessVouchesForThePast'
  <2>1. /\ Backlog \subseteq ToSet(landed') \cup ToSet(mem') \cup ToSet(store')
                             \cup lost' \cup forgotten'
        /\ lost' \subseteq overflowed' /\ lost \subseteq lost'
        /\ forgotten \subseteq forgotten'
        /\ ToSet(landed) \subseteq ToSet(landed')
    BY <1>1, <1>6 DEF Backlog, NoSilentLoss
  <2>2. \A i \in Records : /\ pc[i] = "crashed" => pc'[i] = "crashed"
                           /\ pc'[i] \in Settled => pc'[i] = pc[i]
                           /\ pc'[i] = "resolved" => pc[i] = "resolved"
    BY <1>1, <1>4, <1>5 DEF Settled
  <2> QED
    BY <2>1, <2>2, AccountKept
<1> QED
  BY <1>3, <1>7, <1>8 DEF Steady

LEMMA DrainMemoryStep ==
    ASSUME IndInv, TypeOK', NEW k \in Records, NEW arrived \in BOOLEAN,
           NEW ok \in BOOLEAN, DrainMemory(k, arrived, ok)
    PROVE  SerialInv' /\ Steady
<1> USE Typing DEF IndInv
<1> DEFINE j == Head(mem)
           to == IF ok THEN "drain" ELSE "buffer"
<1>1. /\ pc[k] = "drain" /\ store = <<>> /\ snapshot[k] = store /\ mem # <<>>
      /\ pc' = [pc EXCEPT ![k] = to] /\ to \in {"drain", "buffer"}
      /\ Arrives(j, arrived) /\ (ok => arrived)
      /\ mem' = IF ok THEN Tail(mem) ELSE mem
      /\ UNCHANGED <<emitted, snapshot, store, overflowed, lost, forgotten>>
  BY DEF DrainMemory, Go, Answers, SerialInv
<1>2. /\ j \in Records /\ j \in Backlog
      /\ ToSet(mem) = {j} \cup ToSet(Tail(mem))
      /\ Increasing(Tail(mem)) /\ \A i \in ToSet(Tail(mem)) : j < i
  BY <1>1, OldestLeaves DEF Backlog, BacklogInv
<1>3. \A i \in Backlog : j <= i
  <2>1. ToSet(store) = {} /\ Increasing(mem)
    BY <1>1, EmptyIsEmpty DEF BacklogInv
  <2>2. \A i \in ToSet(mem) : j <= i
    BY <1>1, <2>1, OldestIsLeast
  <2> QED
    BY <2>1, <2>2 DEF Backlog
<1> HIDE DEF j
<1>4. /\ landed' \in Seq(Records) /\ FirstArrivalsInOrder'
      /\ ToSet(landed) \subseteq ToSet(landed')
      /\ ToSet(landed') \subseteq ToSet(landed) \cup {j}
      /\ arrived => j \in ToSet(landed')
  BY <1>1, <1>2, OldestMayLand, Landing
<1>5. SerialInv'
  <2> HIDE DEF to
  <2>1. to \in Phases \ {"new", "queued"} /\ to # "ack"
    BY <1>1 DEF Phases
  <2> QED
    BY <1>1, <2>1, AtWorkTurn, SerialKept
<1>6. \A i \in Records : i # k => pc'[i] = pc[i]
  BY <1>1
<1>7. pc'[k] \in {"drain", "buffer"}
  BY <1>1
<1>8. /\ Increasing(mem') /\ ToSet(mem') \subseteq ToSet(mem)
      /\ ToSet(mem) \subseteq ToSet(mem') \cup ToSet(landed')
  BY <1>1, <1>2, <1>4 DEF BacklogInv
<1>9. BacklogInv' /\ ArrivalInv'
  <2>1. \A x \in ToSet(landed') :
          \/ x \in ToSet(landed)
          \/ Begun(x) /\ \A i \in ToSet(store') \cup ToSet(mem') : x <= i
    BY <1>1, <1>2, <1>3, <1>4, <1>8 DEF Backlog, BacklogInv, Begun
  <2>2. Increasing(store')
    BY <1>1 DEF BacklogInv
  <2>3. /\ \A i \in Records : pc[i] = "rejected" => pc'[i] = "rejected"
        /\ \A i \in Records :
              pc[i] \notin {"new", "queued"} => pc'[i] \notin {"new", "queued"}
    BY <1>1, <1>6, <1>7
  <2> QED
    BY <1>1, <1>4, <1>8, <2>1, <2>2, <2>3, OrderKept
<1>10. NoSilentLoss' /\ SuccessVouchesForThePast'
  <2>1. /\ Backlog \subseteq ToSet(landed') \cup ToSet(mem') \cup ToSet(store')
                             \cup lost' \cup forgotten'
        /\ lost' \subseteq overflowed' /\ lost \subseteq lost'
        /\ forgotten \subseteq forgotten'
    BY <1>1, <1>8 DEF Backlog, NoSilentLoss
  <2>2. \A i \in Records : /\ pc[i] = "crashed" => pc'[i] = "crashed"
                           /\ pc'[i] \in Settled => pc'[i] = pc[i]
                           /\ pc'[i] = "resolved" => pc[i] = "resolved"
    BY <1>1, <1>6, <1>7 DEF Settled
  <2> QED
    BY <1>4, <2>1, <2>2, AccountKept
<1> QED
  BY <1>5, <1>9, <1>10 DEF Steady

LEMMA EmitInnerStep ==
    ASSUME IndInv, TypeOK', NEW k \in Records, NEW arrived \in BOOLEAN,
           NEW ok \in BOOLEAN, EmitInner(k, arrived, ok)
    PROVE  SerialInv' /\ Steady
<1> USE Typing DEF IndInv
<1> DEFINE to == IF ok THEN "resolved" ELSE "buffer"
<1>1. /\ pc[k] = "drain" /\ store = <<>> /\ mem = <<>>
      /\ pc' = [pc EXCEPT ![k] = to] /\ to \in {"resolved", "buffer"}
      /\ to = "resolved" => arrived
      /\ Arrives(k, arrived)
      /\ UNCHANGED <<emitted, snapshot, mem, store, overflowed, lost, forgotten>>
  BY DEF EmitInner, Go, Answers, SerialInv
<1> HIDE DEF to
<1>2. Backlog = {} /\ ToSet(store) = {} /\ ToSet(mem) = {}
  BY <1>1, EmptyIsEmpty DEF Backlog
<1>3. /\ landed' \in Seq(Records) /\ FirstArrivalsInOrder'
      /\ ToSet(landed) \subseteq ToSet(landed')
      /\ ToSet(landed') \subseteq ToSet(landed) \cup {k}
      /\ arrived => k \in ToSet(landed')
  BY <1>1, NewestMayLand, Landing
<1>4. SerialInv'
  <2>1. to \in Phases \ {"new", "queued"} /\ to \notin {"drain", "ack"}
    BY <1>1 DEF Phases, Settled
  <2> QED
    BY <1>1, <2>1, AtWorkTurn, SerialKept
<1>5. /\ \A i \in Records : i # k => pc'[i] = pc[i]
      /\ pc'[k] = to
  BY <1>1
<1>6. BacklogInv' /\ ArrivalInv'
  <2>1. \A x \in ToSet(landed') :
          \/ x \in ToSet(landed)
          \/ Begun(x) /\ \A i \in ToSet(store') \cup ToSet(mem') : x <= i
    BY <1>1, <1>2, <1>3 DEF Begun
  <2>2. Increasing(store') /\ Increasing(mem')
    BY <1>1 DEF BacklogInv
  <2>3. /\ \A i \in Records : pc[i] = "rejected" => pc'[i] = "rejected"
        /\ \A i \in Records :
              pc[i] \notin {"new", "queued"} => pc'[i] \notin {"new", "queued"}
    BY <1>1, <1>5
  <2> QED
    BY <1>1, <1>3, <2>1, <2>2, <2>3, OrderKept
<1>7. NoSilentLoss' /\ SuccessVouchesForThePast'
  <2>1. /\ Backlog \subseteq ToSet(landed') \cup ToSet(mem') \cup ToSet(store')
                             \cup lost' \cup forgotten'
        /\ lost' \subseteq overflowed' /\ lost \subseteq lost'
        /\ forgotten \subseteq forgotten'
    BY <1>1 DEF Backlog, NoSilentLoss
  <2>2. \A i \in Records : pc[i] = "crashed" => pc'[i] = "crashed"
    BY <1>1, <1>5
  <2>3. \A i \in Records : pc'[i] \in Settled =>
            pc'[i] = pc[i] \/ i \in ToSet(landed') \cup ToSet(mem')
    BY <1>1, <1>3, <1>5 DEF Settled
  <2>4. \A i \in Records : pc'[i] = "resolved" =>
            \/ pc[i] = "resolved"
            \/ /\ Backlog = {} /\ i \in ToSet(landed')
               /\ \A h \in 1..i - 1 : h \in Records /\ Done(h)
    BY <1>1, <1>2, <1>3, <1>5, AtWorkTurn
  <2> QED
    BY <1>3, <2>1, <2>2, <2>3, <2>4, AccountKept
<1> QED
  BY <1>4, <1>6, <1>7 DEF Steady

LEMMA BufferStep ==
    ASSUME IndInv, TypeOK', NEW k \in Records, NEW ok \in BOOLEAN, Buffer(k, ok)
    PROVE  SerialInv' /\ Steady
<1>1. PICK evicted, kept \in SUBSET Records, left \in Seq(Records) :
          /\ mem' = Append(left, k) /\ Len(left) + 1 <= MemBound
          /\ Increasing(left)
          /\ ToSet(mem) = evicted \cup ToSet(left)
          /\ \A i \in evicted, j \in ToSet(left) : i < j
          /\ overflowed' = overflowed \cup evicted
          /\ store' \in Seq(Records) /\ Len(store') <= MaxSize
          /\ Increasing(store')
          /\ kept = ToSet(store') /\ kept \subseteq ToSet(store) \cup evicted
          /\ ToSet(store) \cup evicted \subseteq kept \cup lost'
          /\ lost \subseteq lost'
          /\ lost' \subseteq lost \cup ToSet(store) \cup evicted
  BY Buffering
<1> USE Typing DEF IndInv
<1>2. /\ pc[k] = "buffer" /\ pc' = [pc EXCEPT ![k] = "rejected"]
      /\ UNCHANGED <<emitted, snapshot, landed, forgotten>>
  BY DEF Buffer, Go
<1>3. /\ \A i \in Records : i # k => pc'[i] = pc[i]
      /\ pc'[k] = "rejected"
  BY <1>2
<1>4. Backlog = ToSet(store) \cup evicted \cup ToSet(left)
  BY <1>1 DEF Backlog
<1>5. /\ \A j \in Backlog : j < k /\ j # k
      /\ \A j \in ToSet(landed) : j <= k
  BY <1>2, AtWork
<1>6. ToSet(mem') = ToSet(left) \cup {k} /\ Increasing(mem')
  BY <1>1, <1>4, <1>5, AtTheEnd
<1>7. SerialInv'
  BY <1>2, AtWorkTurn, SerialKept DEF Phases, Settled
<1>8. BacklogInv'
  <2>1. ASSUME NEW i \in ToSet(store'), NEW j \in ToSet(mem') PROVE i < j
    <3>1. i \in ToSet(store) \cup evicted /\ i \in Backlog
      BY <1>1, <1>4
    <3>2. CASE j = k
      BY <1>5, <3>1, <3>2
    <3>3. CASE j \in ToSet(left)
      BY <1>1, <3>1, <3>3 DEF BacklogInv
    <3> QED
      BY <1>6, <3>2, <3>3
  <2>2. ASSUME NEW j \in ToSet(store') \cup ToSet(mem') PROVE pc'[j] = "rejected"
    <3>1. j \in Backlog \/ j = k
      BY <1>1, <1>4, <1>6
    <3> QED
      BY <1>3, <3>1 DEF BacklogInv
  <2>3. ToSet(store') \subseteq overflowed'
    BY <1>1 DEF BacklogInv
  <2> QED
    BY <1>1, <1>6, <2>1, <2>2, <2>3 DEF BacklogInv, Backlog
<1>9. ArrivalInv'
  <2>1. FirstArrivalsInOrder' /\ landed' = landed
    BY <1>2 DEF ArrivalInv, FirstArrivalsInOrder
  <2>2. \A i \in ToSet(landed) : pc'[i] \notin {"new", "queued"}
    BY <1>2, <1>3, Elements DEF ArrivalInv, Begun
  <2>3. ASSUME NEW j \in ToSet(store') \cup ToSet(mem')
        PROVE  j \in ToSet(landed) \/ \A i \in ToSet(landed) : i < j
    <3>1. j \in Backlog \/ j = k
      BY <1>1, <1>4, <1>6
    <3> QED
      BY <1>2, <3>1, OldestMayLand, NewestMayLand
  <2> QED
    BY <2>1, <2>2, <2>3 DEF ArrivalInv, Begun, Backlog
<1>10. NoSilentLoss' /\ SuccessVouchesForThePast'
  <2>1. Backlog \subseteq ToSet(landed') \cup ToSet(mem') \cup ToSet(store')
                             \cup lost' \cup forgotten'
    BY <1>1, <1>4, <1>6
  <2>2. lost' \subseteq overflowed'
    BY <1>1 DEF BacklogInv, NoSilentLoss
  <2>3. ToSet(landed) \subseteq ToSet(landed') /\ forgotten \subseteq forgotten'
    BY <1>2
  <2>4. \A i \in Records : /\ pc[i] = "crashed" => pc'[i] = "crashed"
                           /\ pc'[i] = "resolved" => pc[i] = "resolved"
    BY <1>2, <1>3
  <2>5. \A i \in Records : pc'[i] \in Settled =>
            pc'[i] = pc[i] \/ i \in ToSet(landed') \cup ToSet(mem')
    BY <1>3, <1>6
  <2> QED
    BY <1>1, <2>1, <2>2, <2>3, <2>4, <2>5, AccountKept
<1> QED
  BY <1>7, <1>8, <1>9, <1>10 DEF Steady

-------------------------------------------------------------------------------
(* Theorems *)

LEMMA InitInv == Init => IndInv
<1> SUFFICES ASSUME Init PROVE IndInv
  OBVIOUS
<1>1. /\ mem = <<>> /\ store = <<>> /\ landed = <<>>
      /\ ToSet(mem) = {} /\ ToSet(store) = {} /\ ToSet(landed) = {}
      /\ Increasing(mem) /\ Increasing(store) /\ Increasing(landed)
      /\ mem \in Seq(Records) /\ store \in Seq(Records) /\ landed \in Seq(Records)
      /\ Len(mem) = 0 /\ Len(store) = 0
  BY EmptyIsEmpty DEF Init
<1>2. TypeOK
  <2>1. snapshot \in [Records -> Seq(Records)]
    BY EmptyIsEmpty DEF Init
  <2> QED
    BY <1>1, <2>1, Bounds DEF Init, TypeOK, Phases
<1>3. SerialInv
  BY RecordsAreNumbers, Bounds DEF Init, SerialInv, Begun, Records
<1>4. BacklogInv /\ ArrivalInv
  BY <1>1 DEF BacklogInv, ArrivalInv, Backlog, Increasing, FirstArrivalsInOrder
<1>5. NoSilentLoss /\ SuccessVouchesForThePast
  BY DEF Init, NoSilentLoss, SuccessVouchesForThePast, Settled
<1> QED
  BY <1>2, <1>3, <1>4, <1>5 DEF IndInv

LEMMA NextStep ==
    ASSUME IndInv, [Next]_vars
    PROVE  IndInv'
<1>1. TypeOK'
  BY TypeStep
<1>2. SerialInv' /\ Steady
  <2>1. CASE UNCHANGED vars
    BY <2>1 DEF vars, IndInv, Steady, SerialInv, Begun, Done, BacklogInv,
                Backlog, ArrivalInv, FirstArrivalsInOrder, NoSilentLoss, Held,
                SuccessVouchesForThePast
  <2>2. CASE Next
    BY <1>1, <2>2, EmitStep, CrashStep, StartStep, DrainStorageStep, AckStep,
       DrainMemoryStep, EmitInnerStep, BufferStep DEF Next, Proceed
  <2> QED
    BY <2>1, <2>2
<1> QED
  BY <1>1, <1>2 DEF IndInv, Steady

LEMMA Inductive == Spec => []IndInv
<1>1. IndInv /\ [Next]_vars => IndInv'
  BY NextStep
<1> QED
  BY <1>1, InitInv, PTL DEF Spec

\* The variables keep their types, and the queue and the storage their bounds.
\* (capacity, maxSize)
THEOREM TypeCorrect == Spec => []TypeOK
<1>1. IndInv => TypeOK
  BY DEF IndInv
<1> QED
  BY <1>1, Inductive, PTL

\* Whoever has an answer has his record in the inner sink, the queue or the
\* storage, or in a report.  (onOverflow)
THEOREM NoSilentLossHolds == Spec => []NoSilentLoss
<1>1. IndInv => NoSilentLoss
  BY DEF IndInv
<1> QED
  BY <1>1, Inductive, PTL

\* An emission that resolves vouches for every earlier one.  (drainStorage and
\* drainMemory before inner.emit)
THEOREM SuccessVouchesForThePastHolds == Spec => []SuccessVouchesForThePast
<1>1. IndInv => SuccessVouchesForThePast
  BY DEF IndInv
<1> QED
  BY <1>1, Inductive, PTL

\* Records first arrive in the order of their emission.  (makeSerializer, and
\* spill before queue before new record)
THEOREM FirstArrivalsInOrderHolds == Spec => []FirstArrivalsInOrder
<1>1. IndInv => FirstArrivalsInOrder
  BY DEF IndInv, ArrivalInv
<1> QED
  BY <1>1, Inductive, PTL

-------------------------------------------------------------------------------
(* One call at a time, and each comes to its end *)

Working(k) == pc[k] \in {"drain", "ack", "buffer"}

\* The queue and the storage, together.
HeldBack == Len(store) + Len(mem)

\* Awaits that a call has at most before it, with what it finds held back.
Rank(k) ==
    CASE pc[k] = "drain" -> 2
      [] pc[k] = "ack"   -> 1
      [] OTHER           -> 0

Nearer(k) ==
    \/ Done(k)'
    \/ /\ Working(k)'
       /\ \/ HeldBack' < HeldBack
          \/ (HeldBack' = HeldBack /\ Rank(k)' < Rank(k))

LEMMA Least ==
    ASSUME NEW S \in SUBSET Nat, S # {}
    PROVE  \E x \in S : \A y \in S : x <= y
<1>1. PICK x \in S : \A y \in S : <<y, x>> \notin OpToRel(<, Nat)
  BY NatLessThanWellFounded, WFMin
<1>2. \A y \in S : ~(y < x)
  BY <1>1 DEF OpToRel
<1> QED
  BY <1>2

\* No other call takes a step while one is at work.
LEMMA OnlyOneProceeds ==
    ASSUME IndInv, NEW k \in Records, Working(k), NEW j \in Records, Proceed(j)
    PROVE  j = k
<1>1. j \in Nat /\ k \in Nat
  BY RecordsAreNumbers
<1>2. pc[j] \in {"queued", "drain", "ack", "buffer"} /\ ~Done(j)
  BY DEF Proceed, Start, DrainStorage, DrainMemory, EmitInner, Ack, Buffer, Go,
         Done, Settled
<1>3. pc[j] = "queued" => Turn(j)
  BY DEF Proceed, Start, DrainStorage, DrainMemory, EmitInner, Ack, Buffer, Go
<1>4. ~(j < k)
  BY <1>2, AtWork DEF Working
<1>5. ASSUME k < j PROVE FALSE
  <2>1. k \in 1..j - 1
    BY <1>1, <1>5 DEF Records
  <2>2. ~Done(k)
    BY AtWorkTurn DEF Working
  <2>3. pc[j] # "queued"
    BY <1>3, <2>1, <2>2 DEF Turn, Done
  <2>4. j <= k
    BY <1>2, <2>3, AtWork DEF Working, Begun
  <2> QED
    BY <1>1, <1>5, <2>4
<1> QED
  BY <1>1, <1>4, <1>5

LEMMA ProceedNearer ==
    ASSUME IndInv, NEW k \in Records, Working(k), Proceed(k)
    PROVE  Nearer(k)
<1> USE Typing
<1>1. Len(store) \in Nat /\ Len(mem) \in Nat
  OBVIOUS
<1>2. \A to : pc' = [pc EXCEPT ![k] = to] => pc'[k] = to
  OBVIOUS
<1>3. ASSUME UNCHANGED <<store, mem>>, Working(k)', Rank(k)' < Rank(k)
      PROVE  Nearer(k)
  BY <1>3 DEF Nearer, HeldBack
<1>4. ~Start(k)
  BY DEF Start, Go, Working
<1>5. ASSUME NEW arrived \in BOOLEAN, NEW ok \in BOOLEAN,
             DrainStorage(k, arrived, ok)
      PROVE  Nearer(k)
  <2>1. /\ pc[k] = "drain" /\ pc'[k] \in {"ack", "buffer"}
        /\ UNCHANGED <<store, mem>>
    BY <1>2, <1>5 DEF DrainStorage, Go
  <2> QED
    BY <1>3, <2>1 DEF Working, Rank
<1>6. ASSUME NEW ok \in BOOLEAN, Ack(k, ok) PROVE Nearer(k)
  <2>1. /\ pc[k] = "ack" /\ pc'[k] = IF ok THEN "drain" ELSE "buffer"
        /\ snapshot[k] = store /\ store # <<>> /\ mem' = mem
        /\ store' = IF ok THEN RemoveFirst(store, Head(store)) ELSE store
    BY <1>2, <1>6 DEF Ack, Go, IndInv, SerialInv
  <2>2. CASE ok
    <3>1. Len(store') = Len(store) - 1
      BY <2>1, <2>2, AckedIsOldest, OldestLeaves
    <3>2. HeldBack' < HeldBack
      BY <1>1, <2>1, <3>1 DEF HeldBack
    <3> QED
      BY <2>1, <2>2, <3>2 DEF Nearer, Working
  <2>3. CASE ~ok
    BY <1>3, <2>1, <2>3 DEF Working, Rank
  <2> QED
    BY <2>2, <2>3
<1>7. ASSUME NEW arrived \in BOOLEAN, NEW ok \in BOOLEAN,
             DrainMemory(k, arrived, ok)
      PROVE  Nearer(k)
  <2>1. /\ pc[k] = "drain" /\ pc'[k] = IF ok THEN "drain" ELSE "buffer"
        /\ mem # <<>> /\ store' = store
        /\ mem' = IF ok THEN Tail(mem) ELSE mem
    BY <1>2, <1>7 DEF DrainMemory, Go
  <2>2. CASE ok
    <3>1. Len(mem') = Len(mem) - 1
      BY <2>1, <2>2, OldestLeaves
    <3>2. HeldBack' < HeldBack
      BY <1>1, <2>1, <3>1 DEF HeldBack
    <3> QED
      BY <2>1, <2>2, <3>2 DEF Nearer, Working
  <2>3. CASE ~ok
    BY <1>3, <2>1, <2>3 DEF Working, Rank
  <2> QED
    BY <2>2, <2>3
<1>8. ASSUME NEW arrived \in BOOLEAN, NEW ok \in BOOLEAN,
             EmitInner(k, arrived, ok)
      PROVE  Nearer(k)
  <2>1. /\ pc[k] = "drain" /\ pc'[k] \in {"resolved", "buffer"}
        /\ UNCHANGED <<store, mem>>
    BY <1>2, <1>8 DEF EmitInner, Go
  <2> QED
    BY <1>3, <2>1 DEF Working, Rank, Nearer, Done, Settled
<1>9. ASSUME NEW ok \in BOOLEAN, Buffer(k, ok) PROVE Nearer(k)
  BY <1>2, <1>9 DEF Buffer, Go, Nearer, Done, Settled
<1> QED
  BY <1>4, <1>5, <1>6, <1>7, <1>8, <1>9 DEF Proceed

\* Calls never overlap in the inner sink or the storage, however they overlap in
\* their callers.  (makeSerializer)
THEOREM OneAtATime ==
    Spec => [](\A i, j \in Records : Working(i) /\ Working(j) => i = j)
<1>1. ASSUME IndInv, NEW i \in Records, NEW j \in Records, Working(i), Working(j)
      PROVE  i = j
  <2>1. i <= j /\ j <= i
    BY <1>1, AtWork DEF Working, Begun
  <2> QED
    BY <2>1, RecordsAreNumbers
<1>2. IndInv => \A i, j \in Records : Working(i) /\ Working(j) => i = j
  BY <1>1
<1> QED
  BY <1>2, Inductive, PTL

\* Whatever was rejected or died, a record that waits has a call before it that
\* is at work, or one, at the latest its own, whose turn has come: the chain is
\* never wedged.  (makeSerializer's swallowed tail)
THEOREM ChainNeverWedges ==
    Spec => [](\A k \in Records : pc[k] = "queued" =>
                  \E j \in 1..k : Working(j) \/ (pc[j] = "queued" /\ Turn(j)))
<1>1. ASSUME IndInv, NEW k \in Records, pc[k] = "queued"
      PROVE  \E j \in 1..k : Working(j) \/ (pc[j] = "queued" /\ Turn(j))
  <2> DEFINE Waiting == {j \in 1..k : ~Done(j)}
  <2>1. k \in Nat /\ k \in Waiting /\ Waiting \in SUBSET Nat
    BY <1>1, Bounds DEF Done, Settled, Records
  <2>2. PICK j \in Waiting : \A i \in Waiting : j <= i
    BY <2>1, Least
  <2>3. j \in 1..k /\ j \in Records /\ ~Done(j)
    BY <2>1, Bounds DEF Records
  <2>4. Turn(j)
    <3>1. ASSUME NEW i \in 1..j - 1 PROVE Done(i)
      <4>1. i \in 1..k /\ ~(j <= i)
        BY <2>1, <2>3
      <4> QED
        BY <2>2, <4>1
    <3> QED
      BY <3>1 DEF Turn, Done
  <2>5. pc[j] # "new"
    <3>1. ~(k > emitted)
      BY <1>1 DEF IndInv, SerialInv
    <3>2. ~(j > emitted)
      BY <1>1, <2>1, <2>3, <3>1, Typing, Bounds
    <3> QED
      BY <1>1, <2>3, <3>2 DEF IndInv, SerialInv
  <2>6. pc[j] \in Phases
    BY <1>1, <2>3, Typing
  <2> QED
    BY <2>3, <2>4, <2>5, <2>6 DEF Phases, Done, Working
<1>2. IndInv => \A k \in Records : pc[k] = "queued" =>
                   \E j \in 1..k : Working(j) \/ (pc[j] = "queued" /\ Turn(j))
  BY <1>1
<1> QED
  BY <1>2, Inductive, PTL

\* A call at work is brought nearer to its end by every step of its process but
\* an emission, which only joins the chain: what is held back is drained away,
\* and an await follows another.  (drainStorage, drainMemory, bufferOrSpill)
THEOREM CallsEnd ==
    Spec => [][\A k \in Records : Working(k) =>
                  \/ Nearer(k)
                  \/ (Emit /\ UNCHANGED <<pc[k], store, mem>>)]_vars
<1>1. ASSUME IndInv, Next, NEW k \in Records, Working(k)
      PROVE  \/ Nearer(k)
             \/ (Emit /\ UNCHANGED <<pc[k], store, mem>>)
  <2>1. CASE Emit
    <3>1. /\ pc[emitted + 1] = "new" /\ UNCHANGED <<store, mem>>
          /\ pc' = [pc EXCEPT ![emitted + 1] = "queued"]
      BY <2>1 DEF Emit, Go
    <3>2. k # emitted + 1
      BY <1>1, <3>1 DEF Working
    <3>3. pc'[k] = pc[k]
      BY <1>1, <3>1, <3>2, Typing
    <3> QED
      BY <2>1, <3>1, <3>3
  <2>2. CASE Crash
    <3>1. pc'[k] = "crashed"
      BY <1>1, <2>2 DEF Crash, Working, Settled
    <3> QED
      BY <3>1 DEF Nearer, Done
  <2>3. CASE \E j \in Records : Proceed(j)
    BY <1>1, <2>3, OnlyOneProceeds, ProceedNearer
  <2> QED
    BY <1>1, <2>1, <2>2, <2>3 DEF Next
<1>2. IndInv /\ [Next]_vars =>
        [\A k \in Records : Working(k) =>
            \/ Nearer(k)
            \/ (Emit /\ UNCHANGED <<pc[k], store, mem>>)]_vars
  BY <1>1
<1> QED
  BY <1>2, Inductive, PTL DEF Spec
===============================================================================
