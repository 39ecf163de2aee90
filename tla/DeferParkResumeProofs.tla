------------------------- MODULE DeferParkResumeProofs --------------------------
(***************************************************************************)
(* Proofs about DeferParkResume: an intent is resumed at most once on a    *)
(* signal, a duplicate yields to a holder of the token, the quota of a     *)
(* session is never exceeded, and resumption implements OnceOnly, for any  *)
(* finite sets of parks and deliveries, any intents, signals and caps, and *)
(* under every set of faults.                                              *)
(***************************************************************************)
EXTENDS DeferParkResume, FiniteSetTheorems, TLAPS

-------------------------------------------------------------------------------
(* The inductive invariant *)

\* Deliveries past SET NX that may still resume, or have resumed.
Holding == {"delete", "decrement", "resumed"}

\* The blob was written by a park that ran to its end.
BlobInv == blob # NoPark => parking[blob] = "parked"

\* A delivery that passed the checks read the blob of such a park, on the
\* signal it brings.
ReadInv ==
    \A d \in Deliveries :
        delivering[d] \in Live \cup {"resumed"} =>
            /\ seen[d] \in Parks
            /\ parking[seen[d]] = "parked"
            /\ awaits[seen[d]] = bears[d]

\* A holder's token is taken, and by nobody else.
TokenInv ==
    \A d \in Deliveries :
        delivering[d] \in Holding =>
            /\ TokenOf(d) \in tokens
            /\ \A e \in Deliveries :
                 delivering[e] \in Holding /\ TokenOf(e) = TokenOf(d) => e = d

\* Parks that were counted and will be discounted again.
RollingBack == {p \in Parks : parking[p] = "rollback"}

\* The counter covers the parks it admitted and those it still refuses, less
\* the resumptions; the quota bounds the first.
CountInv ==
    /\ Cardinality(Accepted) + Cardinality(RollingBack) - Cardinality(Resumed)
            <= count
    /\ Cardinality(Accepted) - Cardinality(Resumed) <= Quota

IndInv == TypeOK /\ BlobInv /\ ReadInv /\ TokenInv /\ CountInv

ParkStep(p) == Count(p) \/ RollBack(p) \/ Store(p) \/ ParkDies(p)
DeliveryStep(d) ==
    \/ Read(d) \/ Cycle(d) \/ TakeToken(d) \/ Delete(d) \/ Decrement(d)
    \/ DeliveryDies(d)

LEMMA NextIsStep ==
    ASSUME Next
    PROVE  \/ \E p \in Parks : ParkStep(p)
           \/ \E d \in Deliveries : DeliveryStep(d)
           \/ BlobExpires
BY DEF Next, ParkStep, DeliveryStep, ParkProceeds, DeliveryProceeds

-------------------------------------------------------------------------------
(* Typing, but for the counter *)

\* A park moves itself and nothing a delivery keeps.
LEMMA ParkStepTyped ==
    ASSUME TypeOK, NEW p \in Parks, ParkStep(p)
    PROVE  /\ UNCHANGED <<given, delivering, seen, cycles, tokens>>
           /\ parking' \in [Parks -> ParkPhases]
           /\ \A q \in Parks : parking[q] = "parked" => parking'[q] = "parked"
           /\ blob' \in Parks \cup {NoPark}
           /\ lost' \in BOOLEAN
<1> USE DEF TypeOK, Park, ParkPhases
<1>1. CASE Count(p)
  BY <1>1 DEF Count
<1>2. CASE RollBack(p)
  <2>1. lost' \in BOOLEAN
    BY <1>2, Zenon DEF RollBack
  <2> QED
    BY <1>2, <2>1 DEF RollBack
<1>3. CASE Store(p)
  BY <1>3 DEF Store
<1>4. CASE ParkDies(p)
  BY <1>4 DEF ParkDies
<1> QED
  BY <1>1, <1>2, <1>3, <1>4 DEF ParkStep

\* A delivery moves itself and no park.
LEMMA DeliveryStepTyped ==
    ASSUME TypeOK, ReadInv, NEW d \in Deliveries, DeliveryStep(d)
    PROVE  /\ UNCHANGED <<given, parking>>
           /\ delivering' \in
                [Deliveries -> {"idle", "crashed"} \cup Live \cup Answers]
           /\ seen' \in [Deliveries -> Parks \cup {NoPark}]
           /\ blob' \in Parks \cup {NoPark}
           /\ cycles' \in [Intents -> Nat]
           /\ tokens' \subseteq Tokens
           /\ lost' \in BOOLEAN
<1> USE DEF TypeOK, Deliver, Live, Answers
<1>1. CASE Read(d)
  BY <1>1 DEF Read, Resumable, Rejection
<1>2. CASE Cycle(d)
  <2>1. carries[seen[d]] \in Intents
    BY <1>2 DEF Cycle, ReadInv
  <2> QED
    BY <1>2, <2>1 DEF Cycle
<1>3. CASE TakeToken(d)
  <2>1. seen[d] \in Parks
    BY <1>3 DEF TakeToken, ReadInv
  <2>2. TokenOf(d) \in Tokens
    BY <2>1 DEF TokenOf, Tokens
  <2> QED
    BY <1>3, <2>2 DEF TakeToken, AfterToken
<1>4. CASE Delete(d)
  BY <1>4 DEF Delete
<1>5. CASE Decrement(d)
  <2>1. lost' \in BOOLEAN
    BY <1>5, Zenon DEF Decrement
  <2> QED
    BY <1>5, <2>1 DEF Decrement
<1>6. CASE DeliveryDies(d)
  BY <1>6 DEF DeliveryDies
<1> QED
  BY <1>1, <1>2, <1>3, <1>4, <1>5, <1>6 DEF DeliveryStep

-------------------------------------------------------------------------------
(* Blobs, reads and tokens *)

LEMMA BlobStep ==
    ASSUME IndInv, [Next]_vars
    PROVE  BlobInv'
<1> USE DEF IndInv, BlobInv
<1>1. ASSUME NEW p \in Parks, ParkStep(p) PROVE BlobInv'
  <2>1. CASE Store(p)
    BY <2>1 DEF Store, Park, TypeOK
  <2>2. CASE ~Store(p)
    <3>1. UNCHANGED blob
      BY <1>1, <2>2 DEF ParkStep, Count, RollBack, ParkDies
    <3> QED
      BY <1>1, <3>1, ParkStepTyped DEF TypeOK
  <2> QED
    BY <2>1, <2>2
<1>2. ASSUME NEW d \in Deliveries, DeliveryStep(d) PROVE BlobInv'
  <2>1. blob' \in {blob, NoPark}
    BY <1>2 DEF DeliveryStep, Read, Cycle, TakeToken, Delete, Decrement,
                DeliveryDies
  <2> QED
    BY <1>2, <2>1, DeliveryStepTyped
<1>3. CASE BlobExpires
  BY <1>3 DEF BlobExpires
<1>4. CASE UNCHANGED vars
  BY <1>4 DEF vars, given
<1> QED
  BY <1>1, <1>2, <1>3, <1>4, NextIsStep

\* A delivery keeps what it read, and one that begins reads the blob.
LEMMA ReadStep ==
    ASSUME IndInv, [Next]_vars
    PROVE  ReadInv'
<1> USE DEF IndInv
<1>1. ASSUME NEW p \in Parks, ParkStep(p) PROVE ReadInv'
  BY <1>1, ParkStepTyped DEF ReadInv, given
<1>2. ASSUME NEW d \in Deliveries, DeliveryStep(d) PROVE ReadInv'
  <2>1. UNCHANGED <<given, parking>>
    BY <1>2, DeliveryStepTyped
  <2>2. SUFFICES ASSUME NEW e \in Deliveries,
                        delivering'[e] \in Live \cup {"resumed"}
                 PROVE  /\ seen'[e] \in Parks
                        /\ parking[seen'[e]] = "parked"
                        /\ awaits[seen'[e]] = bears[e]
    BY <2>1 DEF ReadInv, given
  <2>3. CASE Read(d)
    <3>1. CASE e = d /\ Resumable(d)
      BY <2>3, <3>1 DEF Read, Resumable, BlobInv, TypeOK
    <3>2. CASE e = d /\ ~Resumable(d)
      BY <2>2, <2>3, <3>2 DEF Read, Rejection, Deliver, Live, TypeOK
    <3>3. CASE e # d
      BY <2>2, <2>3, <3>3 DEF Read, Deliver, ReadInv, TypeOK
    <3> QED
      BY <3>1, <3>2, <3>3
  <2>4. CASE ~Read(d)
    <3>1. /\ UNCHANGED seen
          /\ delivering[e] \in Live \cup {"resumed"}
      BY <1>2, <2>2, <2>4
         DEF DeliveryStep, Cycle, TakeToken, Delete, Decrement, DeliveryDies,
             Deliver, Live, TypeOK
    <3> QED
      BY <3>1 DEF ReadInv
  <2> QED
    BY <2>3, <2>4
<1>3. CASE BlobExpires
  BY <1>3 DEF BlobExpires, ReadInv, given
<1>4. CASE UNCHANGED vars
  BY <1>4 DEF vars, given, ReadInv
<1> QED
  BY <1>1, <1>2, <1>3, <1>4, NextIsStep

\* Only SET NX makes a holder, and only of a token that nobody holds.
LEMMA TokenStep ==
    ASSUME IndInv, [Next]_vars
    PROVE  TokenInv'
<1> USE DEF IndInv
<1>1. ASSUME NEW p \in Parks, ParkStep(p) PROVE TokenInv'
  BY <1>1, ParkStepTyped DEF TokenInv, TokenOf, given
<1>2. ASSUME NEW d \in Deliveries, DeliveryStep(d) PROVE TokenInv'
  <2>1. UNCHANGED <<given, parking>>
    BY <1>2, DeliveryStepTyped
  <2>2. CASE TakeToken(d)
    <3>1. /\ \A e \in Deliveries : TokenOf(e)' = TokenOf(e)
          /\ tokens' = tokens \cup {TokenOf(d)}
      BY <2>1, <2>2 DEF TakeToken, TokenOf, given
    <3>2. CASE Wins(d)
      <4>1. \A e \in Deliveries :
              delivering'[e] \in Holding => e = d \/ delivering[e] \in Holding
        BY <2>2 DEF TakeToken, Deliver, TypeOK
      <4> QED
        BY <3>1, <3>2, <4>1 DEF TokenInv, Wins
    <3>3. CASE ~Wins(d)
      <4>1. \A e \in Deliveries :
              delivering'[e] \in Holding => delivering[e] \in Holding
        BY <2>2, <3>3 DEF TakeToken, Deliver, AfterToken, Holding, TypeOK
      <4> QED
        BY <3>1, <4>1 DEF TokenInv
    <3> QED
      BY <3>2, <3>3
  <2>3. CASE ~TakeToken(d)
    <3>1. /\ UNCHANGED tokens
          /\ \A e \in Deliveries : delivering'[e] \in Holding =>
                delivering[e] \in Holding /\ seen'[e] = seen[e]
      BY <1>2, <2>3
         DEF DeliveryStep, Read, Rejection, Cycle, Delete, Decrement,
             DeliveryDies, Deliver, Holding, TypeOK
    <3>2. \A e \in Deliveries :
            delivering'[e] \in Holding => TokenOf(e)' = TokenOf(e)
      BY <2>1, <3>1 DEF TokenOf, given
    <3> QED
      BY <3>1, <3>2 DEF TokenInv
  <2> QED
    BY <2>2, <2>3
<1>3. CASE BlobExpires
  BY <1>3 DEF BlobExpires, TokenInv, TokenOf, given
<1>4. CASE UNCHANGED vars
  BY <1>4 DEF vars, given, TokenInv, TokenOf
<1> QED
  BY <1>1, <1>2, <1>3, <1>4, NextIsStep

-------------------------------------------------------------------------------
(* The books of a session *)

LEMMA Finiteness ==
    /\ IsFiniteSet(Accepted) /\ Cardinality(Accepted) \in Nat
    /\ IsFiniteSet(RollingBack) /\ Cardinality(RollingBack) \in Nat
    /\ IsFiniteSet(Resumed) /\ Cardinality(Resumed) \in Nat
<1>1. /\ IsFiniteSet(Parks) /\ IsFiniteSet(Deliveries)
      /\ Accepted \in SUBSET Parks /\ RollingBack \in SUBSET Parks
      /\ Resumed \in SUBSET Deliveries
  BY ConstantsAssumption DEF Accepted, RollingBack, Resumed
<1> QED
  BY <1>1, FS_Subset, FS_CardinalityType

\* Each resumption has a park of its own, which keeps its place.
LEMMA ResumedHavePlaces ==
    ASSUME ReadInv, TokenInv
    PROVE  Cardinality(Resumed) <= Cardinality(Accepted)
<1> DEFINE place == [d \in Resumed |-> seen[d]]
<1>1. \A d \in Resumed : seen[d] \in Accepted
  BY DEF ReadInv, Resumed, Accepted
<1>2. ASSUME NEW d \in Resumed, NEW e \in Resumed, seen[d] = seen[e]
      PROVE  d = e
  <2>1. TokenOf(d) = TokenOf(e)
    BY <1>2 DEF ReadInv, TokenOf, Resumed
  <2> QED
    BY <2>1 DEF TokenInv, Resumed, Holding
<1>3. place \in Injection(Resumed, Accepted)
  BY <1>1, <1>2 DEF Injection, IsInjective
<1> QED
  BY <1>3, Finiteness, FS_Injection

\* What a step enters in the books.
LEMMA BookStep ==
    ASSUME IndInv, [Next]_vars
    PROVE  \/ /\ Accepted' \in SUBSET Accepted
              /\ RollingBack' \in SUBSET RollingBack
              /\ UNCHANGED <<Resumed, count>>
           \/ \E p \in Parks \ Accepted :
                /\ Admits(count + 1)
                /\ Accepted' = Accepted \cup {p}
                /\ count' = count + 1
                /\ UNCHANGED <<RollingBack, Resumed>>
           \/ \E p \in Parks \ RollingBack :
                /\ RollingBack' = RollingBack \cup {p}
                /\ count' = count + 1
                /\ UNCHANGED <<Accepted, Resumed>>
           \/ \E p \in RollingBack :
                /\ RollingBack' = RollingBack \ {p}
                /\ count' \in {count - 1, count}
                /\ UNCHANGED <<Accepted, Resumed>>
           \/ \E d \in Deliveries \ Resumed :
                /\ Resumed' = Resumed \cup {d}
                /\ count' \in {count - 1, count}
                /\ UNCHANGED <<Accepted, RollingBack>>
<1> USE DEF IndInv, Accepted, RollingBack, Resumed
<1>1. ASSUME NEW p \in Parks, ParkStep(p), UNCHANGED Resumed
      PROVE  \/ /\ Accepted' \in SUBSET Accepted
                /\ RollingBack' \in SUBSET RollingBack
                /\ UNCHANGED count
             \/ /\ p \notin Accepted /\ Admits(count + 1)
                /\ Accepted' = Accepted \cup {p}
                /\ count' = count + 1
                /\ UNCHANGED RollingBack
             \/ /\ p \notin RollingBack
                /\ RollingBack' = RollingBack \cup {p}
                /\ count' = count + 1
                /\ UNCHANGED Accepted
             \/ /\ p \in RollingBack
                /\ RollingBack' = RollingBack \ {p}
                /\ count' \in {count - 1, count}
                /\ UNCHANGED Accepted
  <2> USE DEF Park, TypeOK
  <2>1. CASE Count(p)
    <3>1. CASE Admits(count + 1)
      BY <2>1, <3>1 DEF Count
    <3>2. CASE ~Admits(count + 1) /\ atomic
      BY <2>1, <3>2 DEF Count
    <3>3. CASE ~Admits(count + 1) /\ ~atomic
      BY <2>1, <3>3 DEF Count
    <3> QED
      BY <3>1, <3>2, <3>3
  <2>2. CASE RollBack(p)
    <3>1. count' \in {count - 1, count}
      BY <2>2 DEF RollBack
    <3>2. /\ p \in RollingBack /\ RollingBack' = RollingBack \ {p}
          /\ UNCHANGED Accepted
      BY <2>2 DEF RollBack
    <3> QED
      BY <3>1, <3>2
  <2>3. CASE Store(p)
    BY <2>3 DEF Store
  <2>4. CASE ParkDies(p)
    BY <2>4 DEF ParkDies
  <2> QED
    BY <1>1, <2>1, <2>2, <2>3, <2>4 DEF ParkStep
<1>2. ASSUME NEW p \in Parks, ParkStep(p)
      PROVE  UNCHANGED Resumed
  BY <1>2, ParkStepTyped
<1>3. ASSUME NEW d \in Deliveries, DeliveryStep(d)
      PROVE  /\ UNCHANGED <<Accepted, RollingBack>>
             /\ \/ UNCHANGED <<Resumed, count>>
                \/ /\ d \notin Resumed
                   /\ Resumed' = Resumed \cup {d}
                   /\ count' \in {count - 1, count}
  <2>1. UNCHANGED <<Accepted, RollingBack>>
    BY <1>3, DeliveryStepTyped
  <2>2. CASE Decrement(d)
    <3>1. count' \in {count - 1, count}
      BY <2>2 DEF Decrement
    <3>2. d \notin Resumed /\ Resumed' = Resumed \cup {d}
      BY <2>2 DEF Decrement, Deliver, TypeOK
    <3> QED
      BY <2>1, <3>1, <3>2
  <2>3. CASE ~Decrement(d)
    <3>1. UNCHANGED count
      BY <1>3, <2>3 DEF DeliveryStep, Read, Cycle, TakeToken, Delete,
                        DeliveryDies
    <3>2. \A e \in Deliveries :
            delivering'[e] = "resumed" <=> delivering[e] = "resumed"
      BY <1>3, <2>3
         DEF DeliveryStep, Read, Rejection, Cycle, TakeToken, AfterToken,
             Delete, DeliveryDies, Deliver, Live, TypeOK
    <3> QED
      BY <2>1, <3>1, <3>2
  <2> QED
    BY <2>2, <2>3
<1>4. CASE BlobExpires
  BY <1>4 DEF BlobExpires
<1>5. CASE UNCHANGED vars
  BY <1>5 DEF vars
<1> HIDE DEF Accepted, RollingBack, Resumed
<1> QED
  BY <1>1, <1>2, <1>3, <1>4, <1>5, NextIsStep
     DEF Accepted, RollingBack, Resumed

LEMMA CountStep ==
    ASSUME IndInv, [Next]_vars
    PROVE  count' \in Nat /\ CountInv'
<1> DEFINE acc == Cardinality(Accepted)
           rolling == Cardinality(RollingBack)
           res == Cardinality(Resumed)
<1>1. /\ acc \in Nat /\ rolling \in Nat /\ res \in Nat
      /\ acc' \in Nat /\ rolling' \in Nat /\ res' \in Nat
  <2>1. acc \in Nat /\ rolling \in Nat /\ res \in Nat
    BY Finiteness
  <2>2. /\ IsFiniteSet(Accepted)' /\ IsFiniteSet(RollingBack)'
        /\ IsFiniteSet(Resumed)'
    <3>1. /\ Accepted' \in SUBSET Parks /\ RollingBack' \in SUBSET Parks
          /\ Resumed' \in SUBSET Deliveries
      BY DEF Accepted, RollingBack, Resumed
    <3> QED
      BY <3>1, ConstantsAssumption, FS_Subset
  <2> QED
    BY <2>1, <2>2, FS_CardinalityType
<1>2. res' <= acc'
  <2>1. (ReadInv /\ TokenInv => res <= acc)'
    BY ResumedHavePlaces, PTL
  <2> QED
    BY <2>1, ReadStep, TokenStep
<1>3. count \in Nat /\ Quota \in Nat
  BY ConstantsAssumption DEF IndInv, TypeOK
<1>4. /\ acc + rolling - res <= count
      /\ acc - res <= Quota
  BY DEF IndInv, CountInv
<1>5. \/ acc' <= acc /\ rolling' <= rolling /\ res' = res /\ count' = count
      \/ /\ count + 1 <= Quota
         /\ acc' = acc + 1 /\ rolling' = rolling /\ res' = res
         /\ count' = count + 1
      \/ /\ acc' = acc /\ rolling' = rolling + 1 /\ res' = res
         /\ count' = count + 1
      \/ /\ acc' = acc /\ rolling' = rolling - 1 /\ res' = res
         /\ count' \in {count - 1, count}
      \/ /\ acc' = acc /\ rolling' = rolling /\ res' = res + 1
         /\ count' \in {count - 1, count}
  <2>1. ASSUME Accepted' \in SUBSET Accepted,
               RollingBack' \in SUBSET RollingBack
        PROVE  acc' <= acc /\ rolling' <= rolling
    BY <2>1, Finiteness, FS_Subset
  <2>2. ASSUME NEW p \in Parks \ Accepted, Accepted' = Accepted \cup {p}
        PROVE  acc' = acc + 1
    BY <2>2, Finiteness, FS_AddElement
  <2>3. ASSUME NEW p \in Parks \ RollingBack,
               RollingBack' = RollingBack \cup {p}
        PROVE  rolling' = rolling + 1
    BY <2>3, Finiteness, FS_AddElement
  <2>4. ASSUME NEW p \in RollingBack, RollingBack' = RollingBack \ {p}
        PROVE  rolling' = rolling - 1
    BY <2>4, Finiteness, FS_RemoveElement
  <2>5. ASSUME NEW d \in Deliveries \ Resumed, Resumed' = Resumed \cup {d}
        PROVE  res' = res + 1
    BY <2>5, Finiteness, FS_AddElement
  <2> QED
    BY BookStep, <2>1, <2>2, <2>3, <2>4, <2>5 DEF Admits
<1> HIDE DEF acc, rolling, res
<1>6. /\ count' \in Nat
      /\ acc' + rolling' - res' <= count'
      /\ acc' - res' <= Quota
  <2> DEFINE a == acc' b == rolling' c == res' n == count'
  <2> HIDE DEF a, b, c, n
  <2>1. /\ a \in Nat /\ b \in Nat /\ c \in Nat /\ c <= a
        /\ \/ a <= acc /\ b <= rolling /\ c = res /\ n = count
           \/ /\ count + 1 <= Quota
              /\ a = acc + 1 /\ b = rolling /\ c = res /\ n = count + 1
           \/ a = acc /\ b = rolling + 1 /\ c = res /\ n = count + 1
           \/ /\ a = acc /\ b = rolling - 1 /\ c = res
              /\ n \in {count - 1, count}
           \/ /\ a = acc /\ b = rolling /\ c = res + 1
              /\ n \in {count - 1, count}
    BY <1>1, <1>2, <1>5 DEF a, b, c, n
  <2>2. n \in Nat /\ a + b - c <= n /\ a - c <= Quota
    BY <1>1, <1>3, <1>4, <2>1
  <2> QED
    BY <2>2 DEF a, b, c, n
<1> QED
  BY <1>6 DEF CountInv, acc, rolling, res

-------------------------------------------------------------------------------
(* Theorems *)

LEMMA InitInv == Init => IndInv
<1> SUFFICES ASSUME Init PROVE IndInv
  OBVIOUS
<1>1. TypeOK
  BY Zenon DEF Init, TypeOK, ParkPhases, Tokens
<1>2. Accepted = {} /\ RollingBack = {} /\ Resumed = {}
  BY DEF Init, Accepted, RollingBack, Resumed
<1>3. CountInv
  BY <1>2, FS_EmptySet, ConstantsAssumption DEF Init, CountInv
<1> QED
  BY <1>1, <1>3 DEF Init, IndInv, BlobInv, ReadInv, TokenInv, Live, Holding

LEMMA TypeStep ==
    ASSUME IndInv, [Next]_vars
    PROVE  TypeOK'
<1>1. count' \in Nat
  BY CountStep
<1>2. ASSUME NEW p \in Parks, ParkStep(p) PROVE TypeOK'
  BY <1>1, <1>2, ParkStepTyped DEF IndInv, TypeOK, given
<1>3. ASSUME NEW d \in Deliveries, DeliveryStep(d) PROVE TypeOK'
  BY <1>1, <1>3, DeliveryStepTyped DEF IndInv, TypeOK, given
<1>4. CASE BlobExpires
  BY <1>1, <1>4 DEF BlobExpires, IndInv, TypeOK, given
<1>5. CASE UNCHANGED vars
  BY <1>1, <1>5 DEF vars, IndInv, TypeOK, given
<1> QED
  BY <1>2, <1>3, <1>4, <1>5, NextIsStep

LEMMA Inductive == Spec => []IndInv
<1>1. IndInv /\ [Next]_vars => IndInv'
  BY TypeStep, BlobStep, ReadStep, TokenStep, CountStep DEF IndInv
<1> QED
  BY <1>1, InitInv, PTL DEF Spec

\* Every variable keeps its type; the counter of the session, which is only
\* ever incremented and decremented, never falls below zero.
\* (parkDeferredIntent, resumeDeferredIntent)
THEOREM TypeCorrect == Spec => []TypeOK
<1>1. IndInv => TypeOK
  BY DEF IndInv
<1> QED
  BY <1>1, Inductive, PTL

\* However often and in whatever order signals are delivered, one delivery at
\* most resumes an intent on a signal.  (SET NX of the resume token)
THEOREM ResumedOnceHolds == Spec => []ResumedOnce
<1>1. IndInv => ResumedOnce
  BY DEF IndInv, TokenInv, ResumedOnce, Resumed, Holding
<1> QED
  BY <1>1, Inductive, PTL

\* A taken token was taken by somebody who holds it still or died since, and a
\* duplicate is suppressed by a token that was taken.
YieldInv ==
    /\ \A t \in tokens : \E d \in Deliveries :
          delivering[d] \in Holding \cup {"crashed"} /\ TokenOf(d) = t
    /\ \A d \in Deliveries :
          delivering[d] = "duplicate_resume_suppressed" => TokenOf(d) \in tokens

\* What a step of a delivery does to the holders and the suppressed.
LEMMA DeliveryYields ==
    ASSUME IndInv, NEW d \in Deliveries, DeliveryStep(d)
    PROVE  \A e \in Deliveries :
              /\ delivering[e] \in Holding \cup {"crashed"} =>
                    /\ delivering'[e] \in Holding \cup {"crashed"}
                    /\ TokenOf(e)' = TokenOf(e)
              /\ delivering'[e] = "duplicate_resume_suppressed" =>
                    /\ TokenOf(e)' = TokenOf(e)
                    /\ \/ delivering[e] = "duplicate_resume_suppressed"
                       \/ e = d /\ TakeToken(d) /\ ~Wins(d)
<1> USE DEF IndInv
<1>1. UNCHANGED given
  BY DeliveryStepTyped
<1>2. \A e \in Deliveries : seen'[e] = seen[e] => TokenOf(e)' = TokenOf(e)
  BY <1>1 DEF TokenOf, given
<1>3. CASE Read(d)
  <2>1. /\ delivering[d] = "idle"
        /\ delivering'[d] \in {"token", "cycle", "no_parked_envelope",
                               "signal_mismatch", "park_blob_refused"}
        /\ \A e \in Deliveries \ {d} :
              delivering'[e] = delivering[e] /\ seen'[e] = seen[e]
    BY <1>3 DEF Read, Rejection, Deliver, TypeOK
  <2> QED
    BY <1>2, <2>1 DEF Holding
<1>4. CASE TakeToken(d)
  <2>1. /\ UNCHANGED seen /\ delivering[d] = "token"
        /\ delivering'[d] = IF Wins(d) THEN "delete"
                            ELSE "duplicate_resume_suppressed"
        /\ \A e \in Deliveries \ {d} : delivering'[e] = delivering[e]
    BY <1>4 DEF TakeToken, AfterToken, Deliver, TypeOK
  <2> QED
    BY <1>2, <1>4, <2>1 DEF Holding
<1>5. CASE Cycle(d) \/ Delete(d) \/ Decrement(d) \/ DeliveryDies(d)
  <2>1. /\ UNCHANGED seen
        /\ \/ delivering[d] = "cycle"
              /\ delivering'[d] \in {"token", "cycle_cap_exceeded"}
           \/ delivering'[d] \in Holding \cup {"crashed"}
        /\ \A e \in Deliveries \ {d} : delivering'[e] = delivering[e]
    BY <1>5 DEF Cycle, Delete, Decrement, DeliveryDies, Deliver, Holding, TypeOK
  <2> QED
    BY <1>2, <2>1 DEF Holding
<1> QED
  BY <1>3, <1>4, <1>5 DEF DeliveryStep

LEMMA TokensGrow ==
    ASSUME IndInv, NEW d \in Deliveries, DeliveryStep(d)
    PROVE  \/ tokens' = tokens /\ ~TakeToken(d)
           \/ /\ TakeToken(d) /\ tokens' = tokens \cup {TokenOf(d)}
              /\ Wins(d) => delivering'[d] \in Holding /\ TokenOf(d)' = TokenOf(d)
BY DEF DeliveryStep, Read, Cycle, TakeToken, AfterToken, Delete, Decrement,
       DeliveryDies, Deliver, Holding, TokenOf, given, IndInv, TypeOK

LEMMA YieldStep ==
    ASSUME IndInv, YieldInv, [Next]_vars
    PROVE  YieldInv'
<1>1. ASSUME NEW p \in Parks, ParkStep(p) PROVE YieldInv'
  BY <1>1, ParkStepTyped DEF YieldInv, TokenOf, given, IndInv
<1>2. ASSUME NEW d \in Deliveries, DeliveryStep(d) PROVE YieldInv'
  <2>1. ASSUME NEW t \in tokens'
        PROVE  \E e \in Deliveries : /\ delivering'[e] \in Holding \cup {"crashed"}
                                     /\ TokenOf(e)' = t
    <3>1. CASE t \in tokens
      BY <1>2, <3>1, DeliveryYields DEF YieldInv
    <3>2. CASE t \notin tokens
      BY <1>2, <2>1, <3>2, TokensGrow DEF Wins
    <3> QED
      BY <3>1, <3>2
  <2>2. ASSUME NEW e \in Deliveries,
               delivering'[e] = "duplicate_resume_suppressed"
        PROVE  TokenOf(e)' \in tokens'
    <3>1. /\ TokenOf(e)' = TokenOf(e)
          /\ \/ delivering[e] = "duplicate_resume_suppressed"
             \/ e = d /\ TakeToken(d) /\ ~Wins(d)
      BY <1>2, <2>2, DeliveryYields
    <3>2. tokens \subseteq tokens'
      BY <1>2, TokensGrow
    <3> QED
      BY <3>1, <3>2 DEF YieldInv, Wins
  <2> QED
    BY <2>1, <2>2 DEF YieldInv
<1>3. CASE BlobExpires \/ UNCHANGED vars
  BY <1>3 DEF BlobExpires, vars, given, YieldInv, TokenOf
<1> QED
  BY <1>1, <1>2, <1>3, NextIsStep

\* A delivery is suppressed as a duplicate only in favour of another that can
\* still do nothing but resume the intent or die with its process: no signal is
\* lost between two deliveries.  (SET NX before DEL and DECR)
THEOREM YieldsToAHolder ==
    Spec => [](\A d \in Deliveries :
                  delivering[d] = "duplicate_resume_suppressed" =>
                      \E e \in Deliveries :
                          /\ delivering[e] \in Holding \cup {"crashed"}
                          /\ TokenOf(e) = TokenOf(d))
<1>1. Init => YieldInv
  BY DEF Init, YieldInv
<1>2. IndInv /\ YieldInv /\ [Next]_vars => YieldInv'
  BY YieldStep
<1>3. YieldInv =>
        \A d \in Deliveries :
            delivering[d] = "duplicate_resume_suppressed" =>
                \E e \in Deliveries :
                    /\ delivering[e] \in Holding \cup {"crashed"}
                    /\ TokenOf(e) = TokenOf(d)
  BY DEF YieldInv
<1> QED
  BY <1>1, <1>2, <1>3, Inductive, PTL DEF Spec

\* A session never has more parks pending than its quota, nor fewer than none,
\* and its counter covers them.  (the quota check; DECR after the token only)
THEOREM NoOverCommitHolds == Spec => []NoOverCommit
<1>1. IndInv => NoOverCommit
  <2> SUFFICES ASSUME IndInv PROVE NoOverCommit
    OBVIOUS
  <2>1. Cardinality(Resumed) <= Cardinality(Accepted)
    BY ResumedHavePlaces DEF IndInv
  <2> QED
    BY <2>1, Finiteness, ConstantsAssumption
       DEF IndInv, CountInv, NoOverCommit, TypeOK
<1> QED
  BY <1>1, Inductive, PTL

-------------------------------------------------------------------------------
(* The exact count *)

\* With the script, and as long as no DECR was lost, the counter is the number
\* of the parks it admitted, those of dead processes included, less the
\* resumptions.
ExactInv ==
    /\ atomic => RollingBack = {}
    /\ atomic /\ ~lost => count = Cardinality(Counted) - Cardinality(Resumed)

LEMMA CountedFinite ==
    IsFiniteSet(Counted) /\ Cardinality(Counted) \in Nat
<1>1. Counted \in SUBSET Parks
  BY DEF Counted
<1> QED
  BY <1>1, ConstantsAssumption, FS_Subset, FS_CardinalityType

\* With the script a park is admitted and counted, or refused and not counted.
LEMMA AtomicPark ==
    ASSUME IndInv, ExactInv, atomic, NEW p \in Parks, ParkStep(p)
    PROVE  /\ UNCHANGED <<atomic, lost, Resumed>>
           /\ RollingBack' = {}
           /\ \/ UNCHANGED <<Counted, count>>
              \/ /\ p \notin Counted
                 /\ Counted' = Counted \cup {p}
                 /\ count' = count + 1
<1> USE DEF IndInv, TypeOK, Park
<1>1. RollingBack = {}
  BY DEF ExactInv
<1>2. UNCHANGED <<atomic, Resumed>>
  BY ParkStepTyped DEF given, Resumed
<1>3. ~RollBack(p)
  BY <1>1 DEF RollBack, RollingBack
<1>4. CASE Count(p)
  <2>1. CASE Admits(count + 1)
    BY <1>1, <1>2, <1>4, <2>1 DEF Count, Counted, RollingBack
  <2>2. CASE ~Admits(count + 1)
    BY <1>1, <1>2, <1>4, <2>2 DEF Count, Counted, RollingBack
  <2> QED
    BY <2>1, <2>2
<1>5. CASE Store(p)
  BY <1>1, <1>2, <1>5 DEF Store, Counted, RollingBack
<1>6. CASE ParkDies(p)
  BY <1>1, <1>2, <1>6 DEF ParkDies, Counted, RollingBack
<1> QED
  BY <1>3, <1>4, <1>5, <1>6 DEF ParkStep

LEMMA DeliveryBooks ==
    ASSUME IndInv, NEW d \in Deliveries, DeliveryStep(d)
    PROVE  /\ UNCHANGED <<atomic, Counted, RollingBack>>
           /\ \/ UNCHANGED <<Resumed, count, lost>>
              \/ /\ d \notin Resumed
                 /\ Resumed' = Resumed \cup {d}
                 /\ \/ count' = count - 1 /\ UNCHANGED lost
                    \/ lost' = TRUE
<1> USE DEF IndInv, TypeOK, Deliver
<1>1. UNCHANGED <<atomic, Counted, RollingBack>>
  BY DeliveryStepTyped DEF given, Counted, RollingBack
<1>2. CASE Decrement(d)
  <2>1. (count' = count - 1 /\ UNCHANGED lost) \/ lost' = TRUE
    BY <1>2 DEF Decrement
  <2>2. d \notin Resumed /\ Resumed' = Resumed \cup {d}
    BY <1>2 DEF Decrement, Resumed
  <2> QED
    BY <1>1, <2>1, <2>2
<1>3. CASE ~Decrement(d)
  <2>1. UNCHANGED <<count, lost>>
    BY <1>3 DEF DeliveryStep, Read, Cycle, TakeToken, Delete, DeliveryDies
  <2>2. \A e \in Deliveries :
          delivering'[e] = "resumed" <=> delivering[e] = "resumed"
    BY <1>3
       DEF DeliveryStep, Read, Rejection, Cycle, TakeToken, AfterToken,
           Delete, DeliveryDies, Live
  <2> QED
    BY <1>1, <2>1, <2>2 DEF Resumed
<1> QED
  BY <1>2, <1>3

LEMMA Exact == Spec => []ExactInv
<1>1. Init => ExactInv
  <2> SUFFICES ASSUME Init PROVE ExactInv
    OBVIOUS
  <2>1. Counted = {} /\ RollingBack = {} /\ Resumed = {}
    BY DEF Init, Counted, RollingBack, Resumed
  <2> QED
    BY <2>1, FS_EmptySet DEF Init, ExactInv
<1>2. IndInv /\ ExactInv /\ [Next]_vars => ExactInv'
  <2> SUFFICES ASSUME IndInv, ExactInv, [Next]_vars, atomic'
               PROVE  /\ RollingBack' = {}
                      /\ ~lost' => count' = Cardinality(Counted)'
                                              - Cardinality(Resumed)'
    BY DEF ExactInv
  <2>1. ASSUME NEW p \in Parks, ParkStep(p) PROVE ExactInv'
    <3>1. atomic
      BY <2>1, ParkStepTyped DEF IndInv, given
    <3>2. /\ RollingBack' = {}
          /\ UNCHANGED <<atomic, lost>>
          /\ Cardinality(Resumed)' = Cardinality(Resumed)
          /\ \/ /\ Cardinality(Counted)' = Cardinality(Counted)
                /\ count' = count
             \/ /\ Cardinality(Counted)' = Cardinality(Counted) + 1
                /\ count' = count + 1
      BY <2>1, <3>1, AtomicPark, CountedFinite, FS_AddElement
    <3>3. /\ Cardinality(Counted) \in Nat /\ Cardinality(Resumed) \in Nat
          /\ ~lost => count = Cardinality(Counted) - Cardinality(Resumed)
      BY <3>1, CountedFinite, Finiteness DEF ExactInv
    <3> QED
      BY <3>2, <3>3 DEF ExactInv
  <2>2. ASSUME NEW d \in Deliveries, DeliveryStep(d) PROVE ExactInv'
    <3>1. atomic
      BY <2>2, DeliveryBooks
    <3>2. /\ RollingBack' = RollingBack
          /\ Cardinality(Counted)' = Cardinality(Counted)
          /\ \/ /\ UNCHANGED <<count, lost>>
                /\ Cardinality(Resumed)' = Cardinality(Resumed)
             \/ /\ count' = count - 1 /\ UNCHANGED lost
                /\ Cardinality(Resumed)' = Cardinality(Resumed) + 1
             \/ lost' = TRUE
      BY <2>2, DeliveryBooks, Finiteness, FS_AddElement
    <3>3. /\ Cardinality(Counted) \in Nat /\ Cardinality(Resumed) \in Nat
          /\ ~lost => count = Cardinality(Counted) - Cardinality(Resumed)
          /\ RollingBack = {}
      BY <3>1, CountedFinite, Finiteness DEF ExactInv
    <3> QED
      BY <3>2, <3>3 DEF ExactInv
  <2>3. CASE BlobExpires
    BY <2>3 DEF BlobExpires, ExactInv, given, Counted, RollingBack, Resumed
  <2>4. CASE UNCHANGED vars
    BY <2>4 DEF vars, ExactInv, given, Counted, RollingBack, Resumed
  <2> QED
    BY <2>1, <2>2, <2>3, <2>4, NextIsStep DEF ExactInv
<1> QED
  BY <1>1, <1>2, Inductive, PTL DEF Spec

\* With the script a park is refused only when the parks that nobody has resumed
\* use up the quota, unless a DECR was lost.  (evalIncrCheck)
THEOREM RefusedOnlyAtQuotaHolds == Spec => RefusedOnlyAtQuota
<1> DEFINE Discipline ==
        \A p \in Parks :
            atomic /\ ~lost /\ parking[p] = "idle" /\ parking'[p] = "refused" =>
                Cardinality(Counted) - Cardinality(Resumed) >= Quota
<1>1. IndInv /\ ExactInv /\ [Next]_vars => [Discipline]_vars
  <2> SUFFICES ASSUME IndInv, ExactInv, Next, NEW p \in Parks, atomic, ~lost,
                      parking[p] = "idle", parking'[p] = "refused"
               PROVE  Cardinality(Counted) - Cardinality(Resumed) >= Quota
    BY DEF vars
  <2>1. PICK q \in Parks : ParkStep(q)
    BY NextIsStep, DeliveryStepTyped DEF IndInv, BlobExpires
  <2>2. Count(p)
    BY <2>1 DEF ParkStep, Count, RollBack, Store, ParkDies, Park, IndInv, TypeOK
  <2>3. ~(count + 1 <= Quota)
    BY <2>2 DEF Count, Admits, Park, IndInv, TypeOK
  <2> QED
    BY <2>3, ConstantsAssumption DEF ExactInv, IndInv, TypeOK
<1> QED
  BY <1>1, Inductive, Exact, PTL DEF Spec, RefusedOnlyAtQuota

-------------------------------------------------------------------------------
(* The refinement *)

\* Resumption implements OnceOnly over the pairs of an intent and a signal: SET
\* NX acquires, the DECR performs, and nothing is handed back.
\* (resumeDeferredIntent)
THEOREM Refinement == Spec => ImplementsOnceOnly
<1>1. Init => Abstract!Init
  <2> SUFFICES ASSUME Init
               PROVE  /\ Held = [t \in Tokens |-> FALSE]
                      /\ By = [t \in Tokens |-> {}]
    BY DEF Abstract!Init
  <2> DEFINE taken(t) == t \in tokens
  <2>1. \A t \in Tokens : taken(t) \in BOOLEAN /\ ~taken(t)
    BY DEF Init
  <2>2. Held = [t \in Tokens |-> taken(t)]
    BY DEF Held
  <2>3. By = [t \in Tokens |-> {}]
    BY DEF Init, By, Resumed
  <2> HIDE DEF taken
  <2>4. \A t \in Tokens : taken(t) = FALSE
    BY <2>1
  <2> QED
    BY <2>2, <2>3, <2>4
<1>2. IndInv /\ [Next]_vars => [Abstract!Next]_<<Held, By>>
  <2> SUFFICES ASSUME IndInv, [Next]_vars
               PROVE  Abstract!Next \/ UNCHANGED <<Held, By>>
    OBVIOUS
  <2>1. ASSUME UNCHANGED <<given, seen, tokens>>, UNCHANGED Resumed
        PROVE  UNCHANGED <<Held, By>>
    BY <2>1 DEF Held, By, TokenOf, given
  <2>2. ASSUME NEW p \in Parks, ParkStep(p)
        PROVE  UNCHANGED <<Held, By>>
    BY <2>1, <2>2, ParkStepTyped DEF IndInv, Resumed
  <2>3. ASSUME NEW d \in Deliveries, DeliveryStep(d)
        PROVE  Abstract!Next \/ UNCHANGED <<Held, By>>
    <3>1. /\ UNCHANGED given
          /\ \A e \in Resumed : seen'[e] = seen[e]
      BY <2>3, DeliveryStepTyped
         DEF IndInv, TypeOK, DeliveryStep, Read, Cycle, TakeToken, Delete,
             Decrement, DeliveryDies, Deliver, Resumed
    <3>2. \A e \in Resumed : TokenOf(e)' = TokenOf(e)
      BY <3>1 DEF TokenOf, given
    <3>3. CASE TakeToken(d)
      <4> DEFINE t == TokenOf(d)
      <4>1. seen[d] \in Parks
        BY <3>3 DEF TakeToken, Deliver, IndInv, ReadInv, Live
      <4>2. t \in Tokens
        BY <4>1 DEF TokenOf, Tokens, IndInv, TypeOK
      <4>3. Resumed' = Resumed
        BY <3>3 DEF TakeToken, AfterToken, Deliver, Resumed, IndInv, TypeOK
      <4>4. UNCHANGED By
        BY <3>2, <4>3 DEF By
      <4>5. tokens' = tokens \cup {t}
        BY <3>3 DEF TakeToken
      <4>6. CASE t \in tokens
        BY <4>4, <4>5, <4>6 DEF Held
      <4>7. CASE t \notin tokens
        <5>1. By[t] = {}
          BY <4>2, <4>7 DEF By, Resumed, IndInv, TokenInv, Holding
        <5>2. Held' = [Held EXCEPT ![t] = TRUE]
          <6> DEFINE taken(u) == u \in tokens
                     takes(u) == u \in tokens'
          <6>1. /\ \A u \in Tokens : taken(u) \in BOOLEAN /\ takes(u) \in BOOLEAN
                /\ \A u \in Tokens : u # t => (takes(u) <=> taken(u))
            BY <4>5
          <6>2. takes(t) \in BOOLEAN /\ takes(t)
            BY <4>5
          <6>3. /\ Held = [u \in Tokens |-> taken(u)]
                /\ Held' = [u \in Tokens |-> takes(u)]
            BY DEF Held
          <6> HIDE DEF t, taken, takes
          <6> QED
            <7>1. \A u \in Tokens :
                    takes(u) = IF u = t THEN TRUE ELSE taken(u)
              BY <6>1, <6>2
            <7> QED
              BY <4>2, <6>3, <7>1
        <5>3. ~Held[t]
          BY <4>2, <4>7 DEF Held
        <5> QED
          BY <4>2, <4>4, <5>1, <5>2, <5>3 DEF Abstract!Next, Abstract!Acquire
      <4> QED
        BY <4>6, <4>7
    <3>4. CASE Decrement(d)
      <4> DEFINE t == TokenOf(d)
      <4>1. seen[d] \in Parks /\ delivering[d] = "decrement"
        BY <3>4 DEF Decrement, Deliver, IndInv, ReadInv, Live
      <4>2. t \in Tokens /\ TokenOf(d)' = t
        BY <3>1, <3>4, <4>1
           DEF Decrement, TokenOf, Tokens, IndInv, TypeOK, given
      <4>3. UNCHANGED Held
        BY <3>4 DEF Decrement, Held
      <4>4. Held[t]
        BY <4>1, <4>2 DEF Held, IndInv, TokenInv, Holding
      <4>5. Resumed' = Resumed \cup {d}
        BY <3>4 DEF Decrement, Deliver, Resumed, IndInv, TypeOK
      <4>6. By[t] = {}
        <5>1. \A e \in Resumed : TokenOf(e) # t
          BY <4>1 DEF Resumed, IndInv, TokenInv, Holding
        <5> QED
          BY <4>2, <5>1 DEF By
      <4>7. By' = [By EXCEPT ![t] = {d}]
        <5>1. \A u \in Tokens :
                {e \in Resumed' : TokenOf(e)' = u} =
                  IF u = t THEN {d} ELSE {e \in Resumed : TokenOf(e) = u}
          BY <3>2, <4>2, <4>5, <4>6 DEF By
        <5> QED
          BY <5>1 DEF By
      <4> QED
        BY <4>2, <4>3, <4>4, <4>6, <4>7 DEF Abstract!Next, Abstract!Perform
    <3>5. CASE ~TakeToken(d) /\ ~Decrement(d)
      <4>1. UNCHANGED tokens
        BY <2>3, <3>5 DEF DeliveryStep, Read, Cycle, Delete, DeliveryDies
      <4>2. \A e \in Deliveries :
              delivering'[e] = "resumed" <=> delivering[e] = "resumed"
        BY <2>3, <3>5
           DEF DeliveryStep, Read, Rejection, Cycle, Delete, DeliveryDies,
               Deliver, Live, IndInv, TypeOK
      <4>3. Resumed' = Resumed
        BY <4>2 DEF Resumed
      <4> QED
        BY <3>2, <4>1, <4>3 DEF Held, By
    <3> QED
      BY <3>3, <3>4, <3>5
  <2>4. CASE BlobExpires
    BY <2>1, <2>4 DEF BlobExpires, Resumed
  <2>5. CASE UNCHANGED vars
    BY <2>1, <2>5 DEF vars, Resumed
  <2> QED
    BY <2>2, <2>3, <2>4, <2>5, NextIsStep
<1> QED
  BY <1>1, <1>2, Inductive, PTL DEF Spec, ImplementsOnceOnly, Abstract!Spec
================================================================================
