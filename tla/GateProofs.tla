------------------------------- MODULE GateProofs -------------------------------
(***************************************************************************)
(* Proofs about the two gates that hold requests back at run time.         *)
(*                                                                         *)
(* KillSwitch: what a replica shows was in the key before, a poller never  *)
(* shows an earlier transition again, and its stop() leaves the snapshot   *)
(* alone, for any replicas and operators, any mix of the two versions and  *)
(* under every set of faults.                                              *)
(*                                                                         *)
(* RateLimit: a window executes no more requests than the cap and the      *)
(* rollbacks that outlived their windows, and the counter covers the       *)
(* requests of the first window, for any finite set of requests, any cap   *)
(* and any number of windows.                                              *)
(***************************************************************************)
EXTENDS KillSwitch, RateLimit, FiniteSetTheorems, SequenceTheorems, TLAPS

Pollers == Replicas \ PubSub

-------------------------------------------------------------------------------
(* The kill switch: the inductive invariant *)

\* No operator knows of a transition that is not in the key yet.
StampInv == \A o \in Operators : stamp[o] <= version

\* A poller has one poll in flight at most; its answer is no older than the
\* snapshot; and once its stop() has resolved, none.
PollInv ==
    \A r \in Pollers :
        /\ \A v, w \in replies[r] : v = w
        /\ \A v \in replies[r] : v >= local[r]
        /\ phase[r] = "stopped" => replies[r] = {}

IndInv == TypeOK /\ StampInv /\ ShowsDurable /\ PollInv

\* The steps of a replica.
Step(r) ==
    \/ Start(r) \/ Get(r) \/ (\E v \in replies[r] : Answer(r, v))
    \/ Subscribe(r) \/ BootReadFails(r) \/ Hear(r) \/ Stop(r)
    \/ StopResolves(r) \/ Unsubscribe(r) \/ Disconnect(r)

OperatorStep(o) == SetKey(o) \/ \E heard \in SUBSET Replicas : Publish(o, heard)

LEMMA NextIsStep ==
    ASSUME Next
    PROVE  \/ \E o \in Operators : OperatorStep(o)
           \/ \E r \in Replicas : Step(r)
BY DEF Next, Step, OperatorStep, Proceeds

-------------------------------------------------------------------------------
LEMMA TypeStep ==
    ASSUME IndInv, [Next]_vars
    PROVE  TypeOK'
<1> USE DEF IndInv, TypeOK
<1>1. ASSUME NEW o \in Operators, SetKey(o) PROVE TypeOK'
  BY <1>1 DEF SetKey
<1>2. ASSUME NEW o \in Operators, NEW heard \in SUBSET Replicas,
             Publish(o, heard)
      PROVE  TypeOK'
  BY <1>2 DEF Publish, Published
<1>3. ASSUME NEW r \in Replicas, Start(r) PROVE TypeOK'
  BY <1>3 DEF Start, FirstPhase, Phases
<1>4. ASSUME NEW r \in Replicas, Get(r) PROVE TypeOK'
  BY <1>4 DEF Get
<1>5. ASSUME NEW r \in Replicas, NEW v \in replies[r], Answer(r, v)
      PROVE  TypeOK'
  <2>1. v \in Nat
    OBVIOUS
  <2>2. /\ replies' \in [Replicas -> SUBSET Nat]
        /\ local' \in [Replicas -> Nat]
    BY <1>5, <2>1 DEF Answer, Shows
  <2>3. /\ sub' \in [Replicas -> Subscriptions]
        /\ \A q \in Replicas \ PubSub : sub'[q] = "none"
    BY <1>5 DEF Answer, AfterRead, Subscriptions
  <2> QED
    BY <1>5, <2>2, <2>3 DEF Answer
<1>6. ASSUME NEW r \in Replicas, Subscribe(r) PROVE TypeOK'
  BY <1>6 DEF Subscribe, AfterSubscribe, Subscriptions, Phases
<1>7. ASSUME NEW r \in Replicas, BootReadFails(r) PROVE TypeOK'
  BY <1>7 DEF BootReadFails, Subscriptions
<1>8. ASSUME NEW r \in Replicas, Hear(r) PROVE TypeOK'
  <2>1. Head(inbox[r]) \in Nat /\ Tail(inbox[r]) \in Seq(Nat)
    BY <1>8, HeadTailProperties DEF Hear
  <2> QED
    BY <1>8, <2>1 DEF Hear, Shows
<1>9. ASSUME NEW r \in Replicas, Stop(r) PROVE TypeOK'
  BY <1>9 DEF Stop, Phases
<1>10. ASSUME NEW r \in Replicas, StopResolves(r) PROVE TypeOK'
  BY <1>10 DEF StopResolves, Phases
<1>11. ASSUME NEW r \in Replicas, Unsubscribe(r) PROVE TypeOK'
  BY <1>11 DEF Unsubscribe, Subscriptions
<1>12. ASSUME NEW r \in Replicas, Disconnect(r) PROVE TypeOK'
  BY <1>12 DEF Disconnect
<1>13. CASE UNCHANGED vars
  BY <1>13 DEF vars
<1> QED
  BY <1>1, <1>2, <1>3, <1>4, <1>5, <1>6, <1>7, <1>8, <1>9, <1>10, <1>11, <1>12,
     <1>13, NextIsStep DEF Step, OperatorStep

\* The key's version only grows, and no stamp, answer, message or snapshot is
\* ahead of it.
LEMMA DurableStep ==
    ASSUME IndInv, [Next]_vars
    PROVE  StampInv' /\ ShowsDurable'
<1> USE DEF IndInv, TypeOK, StampInv, ShowsDurable
<1>1. ASSUME NEW o \in Operators, SetKey(o) PROVE StampInv' /\ ShowsDurable'
  BY <1>1 DEF SetKey
<1>2. ASSUME NEW o \in Operators, NEW heard \in SUBSET Replicas,
             Publish(o, heard)
      PROVE  StampInv' /\ ShowsDurable'
  <2>1. UNCHANGED <<version, stamp, local, replies>>
    BY <1>2 DEF Publish
  <2>2. ASSUME NEW r \in Replicas, NEW i \in 1 .. Len(inbox'[r])
        PROVE  inbox'[r][i] <= version
    <3>1. CASE r \in heard
      <4>1. inbox'[r] = Append(inbox[r], stamp[o])
        BY <1>2, <3>1 DEF Publish, Published
      <4>2. CASE i \in 1 .. Len(inbox[r])
        BY <4>1, <4>2
      <4>3. CASE i = Len(inbox[r]) + 1
        BY <4>1, <4>3
      <4> QED
        BY <4>1, <4>2, <4>3
    <3>2. CASE r \notin heard
      BY <1>2, <3>2 DEF Publish
    <3> QED
      BY <3>1, <3>2
  <2> QED
    BY <2>1, <2>2
<1>3. ASSUME NEW r \in Replicas, Step(r) PROVE StampInv' /\ ShowsDurable'
  <2>1. UNCHANGED <<version, stamp>>
    BY <1>3 DEF Step, Start, Get, Answer, Subscribe, BootReadFails, Hear, Stop,
                StopResolves, Unsubscribe, Disconnect
  <2>2. CASE Get(r)
    BY <2>1, <2>2 DEF Get
  <2>3. CASE \E v \in replies[r] : Answer(r, v)
    BY <2>1, <2>3 DEF Answer, Shows
  <2>4. CASE BootReadFails(r)
    BY <2>1, <2>4 DEF BootReadFails
  <2>5. CASE Hear(r)
    <3>1. /\ inbox[r] \in Seq(Nat) /\ inbox[r] # <<>>
          /\ inbox' = [inbox EXCEPT ![r] = Tail(inbox[r])]
          /\ local' = [local EXCEPT ![r] = Shows(r, Head(inbox[r]))]
          /\ UNCHANGED replies
      BY <2>5 DEF Hear
    <3>2. /\ Head(inbox[r]) = inbox[r][1] /\ 1 \in 1 .. Len(inbox[r])
          /\ \A i \in 1 .. Len(Tail(inbox[r])) :
                Tail(inbox[r])[i] = inbox[r][i + 1]
                /\ i + 1 \in 1 .. Len(inbox[r])
      BY <3>1, HeadTailProperties
    <3>3. Head(inbox[r]) <= version
      BY <3>2
    <3>4. \A i \in 1 .. Len(Tail(inbox[r])) : Tail(inbox[r])[i] <= version
      BY <3>2
    <3> QED
      BY <2>1, <3>1, <3>3, <3>4 DEF Shows
  <2>6. CASE Disconnect(r)
    <3>1. Len(<<>>) = 0
      BY EmptySeq
    <3> QED
      BY <2>1, <2>6, <3>1 DEF Disconnect
  <2>7. CASE \/ Start(r) \/ Subscribe(r) \/ Stop(r) \/ StopResolves(r)
             \/ Unsubscribe(r)
    BY <2>1, <2>7 DEF Start, Subscribe, Stop, StopResolves, Unsubscribe
  <2> QED
    BY <1>3, <2>2, <2>3, <2>4, <2>5, <2>6, <2>7 DEF Step
<1>4. CASE UNCHANGED vars
  BY <1>4 DEF vars
<1> QED
  BY <1>1, <1>2, <1>3, <1>4, NextIsStep DEF OperatorStep

\* A poller is touched by its own steps only; it neither boots nor listens.
LEMMA PollStep ==
    ASSUME IndInv, [Next]_vars
    PROVE  /\ PollInv'
           /\ \A r \in Pollers :
                /\ local'[r] >= local[r]
                /\ phase[r] = "stopped" => local'[r] = local[r]
<1> USE DEF IndInv, TypeOK, PollInv, Pollers
<1>1. ASSUME NEW o \in Operators, OperatorStep(o)
      PROVE  UNCHANGED <<phase, replies, local>>
  BY <1>1 DEF OperatorStep, SetKey, Publish
<1>2. ASSUME NEW r \in Replicas, Step(r), NEW q \in Replicas, q # r
      PROVE  /\ phase'[q] = phase[q] /\ replies'[q] = replies[q]
             /\ local'[q] = local[q]
  BY <1>2 DEF Step, Start, Get, Answer, Subscribe, BootReadFails, Hear, Stop,
              StopResolves, Unsubscribe, Disconnect
<1>3. ASSUME NEW r \in Pollers, Step(r)
      PROVE  /\ \A v, w \in replies'[r] : v = w
             /\ \A v \in replies'[r] : v >= local'[r]
             /\ phase'[r] = "stopped" => replies'[r] = {}
             /\ local'[r] >= local[r]
             /\ phase[r] = "stopped" => local'[r] = local[r]
  <2>1. phase[r] # "boot" /\ sub[r] = "none"
    OBVIOUS
  <2>2. CASE Get(r)
    BY <2>1, <2>2 DEF Get, Settled, ShowsDurable
  <2>3. ASSUME NEW v \in replies[r], Answer(r, v)
        PROVE  /\ replies'[r] = {} /\ phase'[r] = phase[r]
               /\ local'[r] >= local[r]
               /\ phase[r] # "stopped"
    BY <2>3 DEF Answer, Shows
  <2>4. CASE Start(r)
    BY <2>4 DEF Start, FirstPhase
  <2>5. CASE Stop(r)
    BY <2>5 DEF Stop, StopWaits
  <2>6. CASE StopResolves(r)
    BY <2>6 DEF StopResolves, StopWaits
  <2>7. CASE Disconnect(r)
    BY <2>7 DEF Disconnect
  <2>8. ~(Subscribe(r) \/ BootReadFails(r) \/ Hear(r) \/ Unsubscribe(r))
    BY <2>1 DEF Subscribe, BootReadFails, Hear, Listening, Unsubscribe
  <2> QED
    BY <1>3, <2>2, <2>3, <2>4, <2>5, <2>6, <2>7, <2>8 DEF Step
<1>4. CASE \E o \in Operators : OperatorStep(o)
  BY <1>1, <1>4
<1>5. CASE \E r \in Replicas : Step(r)
  <2>1. PICK r \in Replicas : Step(r)
    BY <1>5
  <2>2. ASSUME NEW q \in Pollers
        PROVE  /\ \A v, w \in replies'[q] : v = w
               /\ \A v \in replies'[q] : v >= local'[q]
               /\ phase'[q] = "stopped" => replies'[q] = {}
               /\ local'[q] >= local[q]
               /\ phase[q] = "stopped" => local'[q] = local[q]
    <3>1. CASE q = r
      BY <1>3, <2>1, <3>1
    <3>2. CASE q # r
      <4>1. /\ phase'[q] = phase[q] /\ replies'[q] = replies[q]
            /\ local'[q] = local[q]
        BY <1>2, <2>1, <3>2
      <4> QED
        BY <4>1
    <3> QED
      BY <3>1, <3>2
  <2> QED
    BY <2>2
<1>6. CASE UNCHANGED vars
  BY <1>6 DEF vars
<1> QED
  BY <1>4, <1>5, <1>6, NextIsStep

-------------------------------------------------------------------------------
(* The kill switch: theorems *)

LEMMA Inductive == Spec => []IndInv
<1>1. Init => IndInv
  <2>1. Init => TypeOK
    BY EmptySeq DEF Init, TypeOK, Phases, Subscriptions
  <2>2. Init => StampInv /\ ShowsDurable /\ PollInv
    <3>1. Len(<<>>) = 0
      BY EmptySeq
    <3> QED
      BY <3>1 DEF Init, StampInv, ShowsDurable, PollInv, Pollers
  <2> QED
    BY <2>1, <2>2 DEF IndInv
<1>2. IndInv /\ [Next]_vars => IndInv'
  BY TypeStep, DurableStep, PollStep DEF IndInv
<1> QED
  BY <1>1, <1>2, PTL DEF Spec

\* The variables keep their types: v1 neither boots nor subscribes.
\* (createDistributedKillSwitch)
THEOREM TypeCorrect == Spec => []TypeOK
BY Inductive, PTL DEF IndInv

\* A replica shows only transitions that the key has held, however messages are
\* lost or overtaken.  (publishTransition: SET before PUBLISH)
THEOREM ShowsDurableHolds == Spec => []ShowsDurable
<1>1. IndInv => ShowsDurable
  BY DEF IndInv
<1> QED
  BY <1>1, Inductive, PTL

\* A replica that only polls never returns to an earlier transition.
\* (runPoll().finally(loop))
THEOREM PollersNeverRegressHolds == Spec => PollersNeverRegress
<1>1. IndInv /\ [Next]_vars =>
          [\A r \in Replicas \ PubSub : local'[r] >= local[r]]_vars
  BY PollStep DEF Pollers
<1> QED
  BY <1>1, Inductive, PTL DEF Spec, PollersNeverRegress

\* Once v1's stop() has resolved the snapshot is left alone.  (inFlightPoll)
THEOREM PollersStayQuietHolds == Spec => PollersStayQuiet
<1>1. IndInv /\ [Next]_vars =>
          [\A r \in Replicas \ PubSub :
              phase[r] = "stopped" => local'[r] = local[r]]_vars
  BY PollStep DEF Pollers
<1> QED
  BY <1>1, Inductive, PTL DEF Spec, PollersStayQuiet

-------------------------------------------------------------------------------
(* The rate limit: the inductive invariant *)

\* Requests of a window whose increment nobody has given back.
Covered(w) ==
    {r \in Requests :
        /\ opened[r] = w
        /\ \/ pc[r] \in {"counted", "executed"}
           \/ pc[r] = "unauthorized" /\ calls[r] = 0}

\* Those among them that the guard lets pass.
Passing(w) == {r \in Covered(w) : given[r] <= Cap}

NonIdle == {r \in Requests : pc[r] # "idle"}

\* An idle request has no window, and the others have one that was opened.
WindowInv ==
    /\ window = 0 => expired
    /\ \A r \in Requests :
        /\ opened[r] <= window
        /\ pc[r] = "idle" <=> opened[r] = 0
        /\ pc[r] = "idle" => calls[r] = 0
        /\ pc[r] = "executed" => given[r] <= Cap

\* The entry counts the requests of its window, save what stragglers took.
EntryInv ==
    \A w \in 1 .. MaxWindows :
        w = window =>
            Cardinality(Covered(w)) <= count + Cardinality(Stragglers(w))

\* In every window, those that the guard lets pass are within the cap.
PassingInv ==
    \A w \in 1 .. MaxWindows :
        Cardinality(Passing(w)) <= Cap + Cardinality(Stragglers(w))

FirstWindowInv == window <= 1 => count <= Cardinality(NonIdle)

LimitInv == LimitTypeOK /\ WindowInv /\ EntryInv /\ PassingInv /\ FirstWindowInv

LEMMA Finiteness ==
    ASSUME NEW S \in SUBSET Requests
    PROVE  IsFiniteSet(S) /\ Cardinality(S) \in Nat
BY LimitAssumption, FS_Subset, FS_CardinalityType

LEMMA Subsets ==
    ASSUME NEW w
    PROVE  /\ Covered(w) \in SUBSET Requests
           /\ Passing(w) \in SUBSET Covered(w)
           /\ Stragglers(w) \in SUBSET Requests
           /\ ExecutedIn(w) \in SUBSET Requests
           /\ NonIdle \in SUBSET Requests
BY DEF Covered, Passing, Stragglers, ExecutedIn, NonIdle

LEMMA Counts ==
    ASSUME NEW w
    PROVE  /\ Cardinality(Covered(w)) \in Nat
           /\ Cardinality(Passing(w)) \in Nat
           /\ Cardinality(Passing(w)) <= Cardinality(Covered(w))
           /\ Cardinality(Stragglers(w)) \in Nat
           /\ Cardinality(NonIdle) \in Nat
<1>1. /\ Passing(w) \in SUBSET Requests
      /\ IsFiniteSet(Covered(w))
  BY Subsets, Finiteness
<1> QED
  BY <1>1, Subsets, Finiteness, FS_Subset

-------------------------------------------------------------------------------
(* The rate limit: the steps *)

LEMMA LimitTypeStep ==
    ASSUME LimitTypeOK, WindowInv, [LimitNext]_limitVars
    PROVE  LimitTypeOK' /\ WindowInv'
<1> USE DEF LimitTypeOK, WindowInv, Standings
<1>1. ASSUME NEW r \in Requests, Check(r) PROVE LimitTypeOK' /\ WindowInv'
  <2>1. window' \in 1 .. MaxWindows /\ window' >= window
    BY <1>1, LimitAssumption DEF Check
  <2>2. NextCount \in Nat
    BY DEF NextCount
  <2>3. LimitTypeOK'
    <3>1. /\ opened' \in [Requests -> 0 .. MaxWindows]
          /\ window' \in 0 .. MaxWindows
      BY <1>1, <2>1 DEF Check
    <3>2. count' \in Nat /\ given' \in [Requests -> Nat]
      BY <1>1, <2>2 DEF Check
    <3> QED
      BY <1>1, <3>1, <3>2 DEF Check
  <2>4. /\ window' # 0 /\ opened'[r] = window' /\ pc'[r] = "counted"
        /\ \A q \in Requests \ {r} :
             opened'[q] = opened[q] /\ pc'[q] = pc[q] /\ given'[q] = given[q]
        /\ UNCHANGED calls
    BY <1>1, <2>1 DEF Check
  <2>5. WindowInv'
    <3>1. ~(window' = 0)
      BY <2>4
    <3>2. ASSUME NEW q \in Requests
          PROVE  /\ opened'[q] <= window'
                 /\ pc'[q] = "idle" <=> opened'[q] = 0
                 /\ pc'[q] = "idle" => calls'[q] = 0
                 /\ pc'[q] = "executed" => given'[q] <= Cap
      <4>1. CASE q = r
        BY <2>1, <2>4, <4>1
      <4>2. CASE q # r
        <5>1. /\ opened'[q] = opened[q] /\ pc'[q] = pc[q]
              /\ given'[q] = given[q] /\ calls'[q] = calls[q]
          BY <2>4, <4>2
        <5>2. opened[q] <= window'
          BY <2>1
        <5> QED
          BY <5>1, <5>2
      <4> QED
        BY <4>1, <4>2
    <3> QED
      BY <3>1, <3>2
  <2> QED
    BY <2>3, <2>5
<1>2. ASSUME NEW r \in Requests, NEW verdict \in {"executed", "unauthorized"},
             Decide(r, verdict)
      PROVE  LimitTypeOK' /\ WindowInv'
  <2>1. verdict = "executed" => given[r] <= Cap
    BY <1>2, LimitAssumption DEF Decide, Passes, Exceeded
  <2> QED
    BY <1>2, <2>1 DEF Decide
<1>3. ASSUME NEW r \in Requests, Rollback(r) PROVE LimitTypeOK' /\ WindowInv'
  <2>1. count' \in Nat
    BY <1>3 DEF Rollback, OneLess
  <2>2. calls' \in [Requests -> 0 .. 2]
    BY <1>3 DEF Rollback
  <2> QED
    BY <1>3, <2>1, <2>2 DEF Rollback
<1>4. ASSUME NEW r \in Requests, RollbackFails(r)
      PROVE  LimitTypeOK' /\ WindowInv'
  BY <1>4 DEF RollbackFails
<1>5. CASE Expire
  BY <1>5 DEF Expire
<1>6. CASE UNCHANGED limitVars
  BY <1>6 DEF limitVars
<1> QED
  BY <1>1, <1>2, <1>3, <1>4, <1>5, <1>6 DEF LimitNext

\* Stragglers are not forgotten.
LEMMA StragglersStay ==
    ASSUME LimitTypeOK, WindowInv, [LimitNext]_limitVars, NEW w \in Nat
    PROVE  Cardinality(Stragglers(w)) <= Cardinality(Stragglers(w)')
<1>1. \A r \in Requests :
        opened[r] \in 1 .. w - 1 /\ calls[r] > 0 =>
            opened'[r] = opened[r] /\ calls'[r] > 0
  BY DEF LimitTypeOK, WindowInv, LimitNext, limitVars, Check, Decide, Rollback,
         RollbackFails, Expire
<1>2. Stragglers(w) \in SUBSET (Stragglers(w)')
  BY <1>1 DEF Stragglers
<1>3. IsFiniteSet(Stragglers(w)')
  <2>1. Stragglers(w)' \in SUBSET Requests
    BY DEF Stragglers
  <2> QED
    BY <2>1, Finiteness
<1> QED
  BY <1>2, <1>3, FS_Subset

\* A check opens a window, or adds itself to the entry of the one there is.
LEMMA CheckStep ==
    ASSUME LimitInv, NEW r \in Requests, Check(r)
    PROVE  EntryInv' /\ PassingInv' /\ FirstWindowInv'
<1> USE DEF LimitInv, LimitTypeOK, WindowInv
<1>1. PICK now \in 1 .. MaxWindows : now = window'
  BY LimitAssumption DEF Check
<1>2. /\ pc[r] = "idle" /\ opened[r] = 0
      /\ opened'[r] = now /\ pc'[r] = "counted" /\ given'[r] = count'
      /\ \A q \in Requests \ {r} :
           opened'[q] = opened[q] /\ pc'[q] = pc[q] /\ given'[q] = given[q]
      /\ UNCHANGED calls
  BY <1>1 DEF Check
<1>3. /\ r \notin Covered(now) /\ r \notin Passing(now)
      /\ Covered(now)' = Covered(now) \cup {r}
      /\ count' <= Cap => Passing(now)' = Passing(now) \cup {r}
      /\ ~(count' <= Cap) => Passing(now)' = Passing(now)
  BY <1>1, <1>2 DEF Covered, Passing
<1>4. ASSUME NEW w \in 1 .. MaxWindows, w # now
      PROVE  Passing(w)' = Passing(w)
  BY <1>2, <1>4 DEF Covered, Passing
<1>5. ASSUME NEW w \in 1 .. MaxWindows
      PROVE  /\ Cardinality(Stragglers(w)) <= Cardinality(Stragglers(w)')
             /\ Cardinality(Stragglers(w)') \in Nat
  <2>1. [LimitNext]_limitVars
    BY DEF LimitNext
  <2>2. Stragglers(w)' \in SUBSET Requests
    BY DEF Stragglers
  <2> QED
    BY <2>1, <2>2, StragglersStay, Finiteness
\* The entry held the other requests of this window, or it is a new one.
<1>6. /\ count \in Nat /\ count' \in Nat
      /\ Cardinality(Covered(now)) + 1 <=
             count' + Cardinality(Stragglers(now))
  <2>1. CASE expired
    <3>1. now = window + 1 /\ count' = 1
      BY <1>1, <2>1 DEF Check, NextCount
    <3>2. Covered(now) = {}
      BY <3>1 DEF Covered
    <3> QED
      BY <3>1, <3>2, FS_EmptySet, Counts
  <2>2. CASE ~expired
    <3>1. now = window /\ count' = count + 1
      BY <1>1, <2>2 DEF Check, NextCount
    <3> QED
      BY <3>1, Counts DEF EntryInv
  <2> QED
    BY <2>1, <2>2
<1>7. EntryInv'
  <2>1. Cardinality(Covered(now)') = Cardinality(Covered(now)) + 1
    BY <1>3, Subsets, Finiteness, FS_AddElement
  <2>2. Cardinality(Covered(now)') <= count' + Cardinality(Stragglers(now)')
    BY <1>5, <1>6, <2>1, Counts
  <2> QED
    BY <1>1, <2>2 DEF EntryInv
<1>8. PassingInv'
  <2>1. ASSUME NEW w \in 1 .. MaxWindows
        PROVE  Cardinality(Passing(w)') <= Cap + Cardinality(Stragglers(w)')
    <3>1. /\ Cardinality(Passing(w)) <= Cap + Cardinality(Stragglers(w))
          /\ Cap \in Nat
      BY LimitAssumption DEF PassingInv
    <3>2. CASE w # now \/ ~(count' <= Cap)
      <4>1. Passing(w)' = Passing(w)
        BY <1>3, <1>4, <3>2
      <4> QED
        BY <1>5, <3>1, <4>1, Counts
    <3>3. CASE w = now /\ count' <= Cap
      <4>1. IsFiniteSet(Passing(w))
        <5>1. Passing(w) \in SUBSET Requests
          BY Subsets
        <5> QED
          BY <5>1, Finiteness
      <4>2. Cardinality(Passing(w)') = Cardinality(Passing(w)) + 1
        BY <1>3, <3>3, <4>1, FS_AddElement
      <4> QED
        BY <1>5, <1>6, <3>1, <3>3, <4>2, Counts
    <3> QED
      BY <3>2, <3>3
  <2> QED
    BY <2>1 DEF PassingInv
<1>9. FirstWindowInv'
  <2>1. r \notin NonIdle /\ NonIdle' = NonIdle \cup {r}
    BY <1>2 DEF NonIdle
  <2>2. Cardinality(NonIdle') = Cardinality(NonIdle) + 1
    BY <2>1, Subsets, Finiteness, FS_AddElement
  <2>3. CASE window' <= 1
    <3>1. count <= Cardinality(NonIdle) /\ count' \in {1, count + 1}
      BY <2>3 DEF FirstWindowInv, Check, NextCount
    <3> QED
      BY <2>2, <3>1, Counts DEF FirstWindowInv
  <2> QED
    BY <2>3 DEF FirstWindowInv
<1> QED
  BY <1>7, <1>8, <1>9

\* A verdict takes no request out of the entry and brings none under the cap.
LEMMA DecideStep ==
    ASSUME LimitInv, NEW r \in Requests,
           NEW verdict \in {"executed", "unauthorized"}, Decide(r, verdict)
    PROVE  EntryInv' /\ PassingInv' /\ FirstWindowInv'
<1> USE DEF LimitInv, LimitTypeOK, WindowInv
<1>1. /\ UNCHANGED <<window, count, given, opened, calls>>
      /\ pc[r] = "counted" /\ pc'[r] = verdict
      /\ \A q \in Requests \ {r} : pc'[q] = pc[q]
  BY DEF Decide
<1>2. ASSUME NEW w \in 1 .. MaxWindows
      PROVE  /\ Covered(w)' \in SUBSET Covered(w)
             /\ Passing(w)' \in SUBSET Passing(w)
             /\ Stragglers(w)' = Stragglers(w)
  BY <1>1 DEF Covered, Passing, Stragglers
<1>3. NonIdle' = NonIdle
  BY <1>1 DEF NonIdle
<1>4. ASSUME NEW w \in 1 .. MaxWindows
      PROVE  /\ Cardinality(Covered(w)') <= Cardinality(Covered(w))
             /\ Cardinality(Passing(w)') <= Cardinality(Passing(w))
             /\ Cardinality(Covered(w)') \in Nat
             /\ Cardinality(Passing(w)') \in Nat
  <2>1. /\ Covered(w) \in SUBSET Requests /\ Passing(w) \in SUBSET Requests
        /\ Covered(w)' \in SUBSET Requests /\ Passing(w)' \in SUBSET Requests
    BY DEF Covered, Passing
  <2> QED
    BY <1>2, <2>1, Finiteness, FS_Subset
<1>5. EntryInv'
  BY <1>1, <1>2, <1>4, Counts DEF EntryInv
<1>6. PassingInv'
  BY <1>2, <1>4, Counts, LimitAssumption DEF PassingInv
<1> QED
  BY <1>1, <1>3, <1>5, <1>6 DEF FirstWindowInv

\* A rollback takes at most one from the entry: its own increment if the window
\* lasts, and otherwise the rollback is a straggler.
LEMMA RollbackStep ==
    ASSUME LimitInv, NEW r \in Requests, Rollback(r) \/ RollbackFails(r)
    PROVE  EntryInv' /\ PassingInv' /\ FirstWindowInv'
<1> USE DEF LimitInv, LimitTypeOK, WindowInv
<1>1. /\ UNCHANGED <<window, given, opened, pc>>
      /\ pc[r] = "unauthorized" /\ calls'[r] > 0
      /\ \A q \in Requests \ {r} : calls'[q] = calls[q]
      /\ count' \in Nat
      /\ count' <= count
      /\ count' + 1 >= count
      /\ calls[r] > 0 => count' = count
  BY DEF Rollback, RollbackFails, FirstCall, OneLess
<1>2. ASSUME NEW w \in 1 .. MaxWindows
      PROVE  /\ Passing(w)' \in SUBSET Passing(w)
             /\ Covered(w)' \in SUBSET Covered(w)
             /\ Stragglers(w) \in SUBSET (Stragglers(w)')
  BY <1>1 DEF Covered, Passing, Stragglers
<1>3. ASSUME NEW w \in 1 .. MaxWindows
      PROVE  /\ Cardinality(Passing(w)') <= Cardinality(Passing(w))
             /\ Cardinality(Covered(w)') <= Cardinality(Covered(w))
             /\ Cardinality(Stragglers(w)) <= Cardinality(Stragglers(w)')
             /\ Cardinality(Passing(w)') \in Nat
             /\ Cardinality(Covered(w)') \in Nat
             /\ Cardinality(Stragglers(w)') \in Nat
  <2>1. /\ Covered(w) \in SUBSET Requests /\ Passing(w) \in SUBSET Requests
        /\ Covered(w)' \in SUBSET Requests /\ Passing(w)' \in SUBSET Requests
        /\ Stragglers(w)' \in SUBSET Requests
    BY DEF Covered, Passing, Stragglers
  <2> QED
    BY <1>2, <2>1, Finiteness, FS_Subset
<1>4. PassingInv'
  BY <1>3, Counts, LimitAssumption DEF PassingInv
<1>5. FirstWindowInv'
  <2>1. NonIdle' = NonIdle
    BY <1>1 DEF NonIdle
  <2> QED
    BY <1>1, <2>1, Counts DEF FirstWindowInv
<1>6. EntryInv'
  <2> SUFFICES ASSUME NEW w \in 1 .. MaxWindows, w = window
               PROVE  Cardinality(Covered(w)') <=
                          count' + Cardinality(Stragglers(w)')
    BY <1>1 DEF EntryInv
  <2> DEFINE covered == Cardinality(Covered(w))
             stragglers == Cardinality(Stragglers(w))
             coveredNext == Cardinality(Covered(w)')
             stragglersNext == Cardinality(Stragglers(w)')
             countNext == count'
  <2>1. /\ covered <= count + stragglers
        /\ covered \in Nat /\ stragglers \in Nat /\ count \in Nat
        /\ coveredNext \in Nat /\ stragglersNext \in Nat /\ countNext \in Nat
        /\ coveredNext <= covered /\ stragglers <= stragglersNext
        /\ countNext + 1 >= count
    BY <1>1, <1>3, Counts DEF EntryInv
  <2>2. CASE calls[r] > 0
    BY <1>1, <2>1, <2>2
  <2>3. CASE calls[r] = 0 /\ opened[r] = w
    <3>1. r \in Covered(w) /\ Covered(w)' = Covered(w) \ {r}
      BY <1>1, <2>3 DEF Covered
    <3>2. coveredNext = covered - 1
      BY <3>1, Subsets, Finiteness, FS_RemoveElement
    <3> HIDE DEF covered, stragglers, coveredNext, stragglersNext, countNext
    <3>3. coveredNext <= countNext + stragglersNext
      BY <2>1, <3>2
    <3> QED
      BY <3>3 DEF coveredNext, countNext, stragglersNext
  <2>4. CASE calls[r] = 0 /\ opened[r] # w
    <3>1. /\ opened[r] \in 1 .. w - 1
          /\ r \notin Stragglers(w)
          /\ Stragglers(w)' = Stragglers(w) \cup {r}
      BY <1>1, <2>4 DEF Stragglers
    <3>2. stragglersNext = stragglers + 1
      BY <3>1, Subsets, Finiteness, FS_AddElement
    <3> HIDE DEF covered, stragglers, coveredNext, stragglersNext, countNext
    <3>3. coveredNext <= countNext + stragglersNext
      BY <2>1, <3>2
    <3> QED
      BY <3>3 DEF coveredNext, countNext, stragglersNext
  <2> QED
    BY <2>2, <2>3, <2>4
<1> QED
  BY <1>4, <1>5, <1>6

LEMMA IdleStep ==
    ASSUME LimitInv, Expire \/ UNCHANGED limitVars
    PROVE  EntryInv' /\ PassingInv' /\ FirstWindowInv'
<1>1. UNCHANGED <<window, count, pc, given, opened, calls>>
  BY DEF Expire, limitVars
<1> QED
  BY <1>1 DEF LimitInv, EntryInv, PassingInv, FirstWindowInv, Covered, Passing,
              Stragglers, NonIdle

-------------------------------------------------------------------------------
(* The rate limit: theorems *)

LEMMA LimitInitInv == LimitInit => LimitInv
<1> SUFFICES ASSUME LimitInit PROVE LimitInv
  OBVIOUS
<1>1. LimitTypeOK /\ WindowInv
  BY LimitAssumption DEF LimitInit, LimitTypeOK, WindowInv, Standings
<1>2. \A w \in 1 .. MaxWindows : Passing(w) = {} /\ Stragglers(w) = {}
  BY DEF LimitInit, Passing, Covered, Stragglers
<1>3. PassingInv
  BY <1>2, FS_EmptySet, LimitAssumption DEF PassingInv
<1>4. EntryInv
  BY DEF LimitInit, EntryInv
<1>5. FirstWindowInv
  BY Counts DEF LimitInit, FirstWindowInv
<1> QED
  BY <1>1, <1>3, <1>4, <1>5 DEF LimitInv

LEMMA LimitInductive == LimitSpec => []LimitInv
<1>1. LimitInv /\ [LimitNext]_limitVars => LimitInv'
  <2> SUFFICES ASSUME LimitInv, [LimitNext]_limitVars PROVE LimitInv'
    OBVIOUS
  <2>1. LimitTypeOK' /\ WindowInv'
    BY LimitTypeStep DEF LimitInv
  <2>2. EntryInv' /\ PassingInv' /\ FirstWindowInv'
    BY CheckStep, DecideStep, RollbackStep, IdleStep DEF LimitNext
  <2> QED
    BY <2>1, <2>2 DEF LimitInv
<1> QED
  BY <1>1, LimitInitInv, PTL DEF LimitSpec

\* The variables keep their types: the hook asks at most twice, once of them in
\* vain.  (checkRateLimit)
THEOREM LimitTypeCorrect == LimitSpec => []LimitTypeOK
BY LimitInductive, PTL DEF LimitInv

\* No window executes more requests than the cap, save one for each rollback
\* that outlived its window.  (count > max in createRateLimitGuard, and the
\* one-shot hook of checkRateLimit)
THEOREM CapUpToStragglersHolds == LimitSpec => []CapUpToStragglers
<1>1. LimitInv => CapUpToStragglers
  <2> SUFFICES ASSUME LimitInv, NEW w \in 1 .. MaxWindows
               PROVE  Cardinality(ExecutedIn(w)) <=
                          Cap + Cardinality(Stragglers(w))
    BY DEF CapUpToStragglers
  <2>1. ExecutedIn(w) \in SUBSET Passing(w)
    BY DEF ExecutedIn, Passing, Covered, LimitInv, WindowInv
  <2>2. Passing(w) \in SUBSET Requests
    BY Subsets
  <2>3. /\ Cardinality(ExecutedIn(w)) <= Cardinality(Passing(w))
        /\ Cardinality(ExecutedIn(w)) \in Nat
    BY <2>1, <2>2, Subsets, Finiteness, FS_Subset
  <2> QED
    BY <2>3, Counts, LimitAssumption DEF LimitInv, PassingInv
<1> QED
  BY <1>1, LimitInductive, PTL

\* While the first window lasts the counter covers the requests that executed or
\* still may, and counts no request twice.  (incrementAndGet, the rollback hook)
THEOREM CountCoversLiveHolds == LimitSpec => []CountCoversLive
<1>1. LimitInv => CountCoversLive
  <2> SUFFICES ASSUME LimitInv, window = 1
               PROVE  /\ count >= Cardinality({r \in Requests :
                                    pc[r] \in {"counted", "executed"}})
                      /\ count <= Cardinality(NonIdle)
    BY DEF CountCoversLive, NonIdle
  <2> DEFINE live == {r \in Requests : pc[r] \in {"counted", "executed"}}
  <2>1. live \in SUBSET Covered(1)
    BY DEF Covered, LimitInv, LimitTypeOK, WindowInv
  <2>2. Stragglers(1) = {}
    BY DEF Stragglers, LimitInv, LimitTypeOK
  <2>3. Cardinality(Covered(1)) <= count
    BY <2>2, FS_EmptySet, LimitAssumption, Counts
       DEF LimitInv, EntryInv, LimitTypeOK
  <2>4. /\ Cardinality(live) <= Cardinality(Covered(1))
        /\ Cardinality(live) \in Nat
    <3>1. Covered(1) \in SUBSET Requests /\ live \in SUBSET Requests
      BY Subsets
    <3> HIDE DEF live
    <3> QED
      BY <2>1, <3>1, Finiteness, FS_Subset
  <2> QED
    BY <2>3, <2>4, Counts DEF LimitInv, LimitTypeOK, FirstWindowInv
<1> QED
  BY <1>1, LimitInductive, PTL
===============================================================================
