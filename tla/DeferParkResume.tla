---------------------------- MODULE DeferParkResume ----------------------------
(***************************************************************************)
(* parkDeferredIntent and resumeDeferredIntent (@adjudicate/runtime) over   *)
(* the four Redis keys they share: the pending blob and the counter of one *)
(* session, the resume-cycle counter of an intent hash and the resume      *)
(* token of an intent hash and signal.                                     *)
(*                                                                         *)
(* Parks are calls made when a decision is DEFER; deliveries are calls     *)
(* made by a signal consumer, with duplicates and out of order.  One       *)
(* action is one Redis command with the code up to the next.  The 14 day   *)
(* counters and tokens outlive a run; only the blob, which lives as long   *)
(* as the signal's timeout, expires.                                       *)
(***************************************************************************)
EXTENDS Integers, FiniteSets

CONSTANTS
    Parks,        \* calls of parkDeferredIntent, all of one session
    Deliveries,   \* calls of resumeDeferredIntent, all of that session
    Intents,      \* intent hashes
    Signals,
    Unverifiable, \* parks whose blob fails the strict hash verification
    NoPark,       \* pending key: absent
    Quota,        \* quotaPerSession
    Caps,         \* values of maxResumeCycles; 0 disables it
    Faults        \* faults a run admits

FaultKinds == {"crash", "expiry", "swallowed"}

ASSUME ConstantsAssumption ==
    /\ IsFiniteSet(Parks) /\ IsFiniteSet(Deliveries)
    /\ Unverifiable \subseteq Parks
    /\ NoPark \notin Parks
    /\ Quota \in Nat \ {0}
    /\ Caps \subseteq Nat
    /\ Faults \subseteq FaultKinds

VARIABLES
    carries,    \* the intent hash each park call presents
    awaits,     \* the signal it parks on
    bears,      \* the signal each delivery brings
    atomic,     \* the client offers evalIncrCheck
    cap,        \* maxResumeCycles
    parking,    \* where each park call stands, or what it answered
    delivering, \* where each delivery stands, or what it answered
    seen,       \* the park whose blob a delivery read
    blob,       \* key defer:pending:<session>: the park that wrote it
    count,      \* key defer:count:<session>
    cycles,     \* keys defer:cycle:<hash>
    tokens,     \* keys defer:resumed:<sha(hash:signal)>
    lost        \* a failed DECR has been swallowed

given == <<carries, awaits, bears, atomic, cap>>
vars == <<given, parking, delivering, seen, blob, count, cycles, tokens, lost>>

Tokens == Intents \X Signals

ParkPhases == {"idle", "rollback", "store", "parked", "refused", "crashed"}
Live == {"cycle", "token", "delete", "decrement"}
Answers == {"resumed", "no_parked_envelope", "signal_mismatch",
            "park_blob_refused", "cycle_cap_exceeded",
            "duplicate_resume_suppressed"}

TypeOK ==
    /\ carries \in [Parks -> Intents]
    /\ awaits \in [Parks -> Signals]
    /\ bears \in [Deliveries -> Signals]
    /\ atomic \in BOOLEAN
    /\ cap \in Caps
    /\ parking \in [Parks -> ParkPhases]
    /\ delivering \in [Deliveries -> {"idle", "crashed"} \cup Live \cup Answers]
    /\ seen \in [Deliveries -> Parks \cup {NoPark}]
    /\ blob \in Parks \cup {NoPark}
    /\ count \in Nat
    /\ cycles \in [Intents -> Nat]
    /\ tokens \subseteq Tokens
    /\ lost \in BOOLEAN

Init ==
    /\ carries \in [Parks -> Intents]
    /\ awaits \in [Parks -> Signals]
    /\ bears \in [Deliveries -> Signals]
    /\ atomic \in BOOLEAN
    /\ cap \in Caps
    /\ parking = [p \in Parks |-> "idle"]
    /\ delivering = [d \in Deliveries |-> "idle"]
    /\ seen = [d \in Deliveries |-> NoPark]
    /\ blob = NoPark
    /\ count = 0
    /\ cycles = [i \in Intents |-> 0]
    /\ tokens = {}
    /\ lost = FALSE

Park(p, from, to) ==
    /\ parking[p] = from
    /\ parking' = [parking EXCEPT ![p] = to]

Deliver(d, from, to) ==
    /\ delivering[d] = from
    /\ delivering' = [delivering EXCEPT ![d] = to]

-------------------------------------------------------------------------------
(* parkDeferredIntent *)

\* The quota check admits the new count.
AdmitsOneMore(n) == n <= Quota + 1
AdmitsOneLess(n) == n < Quota
Admits(n) == n <= Quota

\* INCR (its EXPIRE refreshes a TTL) and the check of the answer; or both, and
\* the roll-back, in one script.
Count(p) ==
    /\ IF Admits(count + 1)
       THEN Park(p, "idle", "store") /\ count' = count + 1
       ELSE IF atomic
       THEN Park(p, "idle", "refused") /\ UNCHANGED count
       ELSE Park(p, "idle", "rollback") /\ count' = count + 1
    /\ UNCHANGED <<given, delivering, seen, blob, cycles, tokens, lost>>

\* A swallowed command failed: it had no effect and nobody is told.
Swallowed == "swallowed" \in Faults

\* DECR of a refused increment.
RollBack(p) ==
    /\ Park(p, "rollback", "refused")
    /\ \/ count' = count - 1 /\ UNCHANGED lost
       \/ Swallowed /\ lost' = TRUE /\ UNCHANGED count
    /\ UNCHANGED <<given, delivering, seen, blob, cycles, tokens>>

\* SET of the session's one pending key.
Store(p) ==
    /\ Park(p, "store", "parked")
    /\ blob' = p
    /\ UNCHANGED <<given, delivering, seen, count, cycles, tokens, lost>>

-------------------------------------------------------------------------------
(* resumeDeferredIntent *)

TokenOf(d) == <<carries[seen[d]], bears[d]>>

\* Why the blob a delivery read is not resumed.
Rejection(d) ==
    IF blob = NoPark THEN "no_parked_envelope"
    ELSE IF awaits[blob] # bears[d] THEN "signal_mismatch"
    ELSE "park_blob_refused"

Resumable(d) ==
    /\ blob # NoPark
    /\ awaits[blob] = bears[d]
    /\ blob \notin Unverifiable

\* GET of the pending key, and the checks of what it holds.
Read(d) ==
    /\ IF Resumable(d)
       THEN /\ Deliver(d, "idle", IF cap = 0 THEN "token" ELSE "cycle")
            /\ seen' = [seen EXCEPT ![d] = blob]
       ELSE /\ Deliver(d, "idle", Rejection(d))
            /\ UNCHANGED seen
    /\ UNCHANGED <<given, parking, blob, count, cycles, tokens, lost>>

\* INCR of the intent's cycle counter.
Cycle(d) ==
    LET i == carries[seen[d]]
    IN  /\ Deliver(d, "cycle",
                   IF cycles[i] < cap THEN "token" ELSE "cycle_cap_exceeded")
        /\ cycles' = [cycles EXCEPT ![i] = @ + 1]
        /\ UNCHANGED <<given, parking, seen, blob, count, tokens, lost>>

\* SET NX answers "OK" to the first delivery of the token.
CollisionIgnored(d) == TRUE
Wins(d) == TokenOf(d) \notin tokens

SuppressesAll(d) == "duplicate_resume_suppressed"
AfterToken(d) == IF Wins(d) THEN "delete" ELSE "duplicate_resume_suppressed"

\* SET NX of the resume token.
TakeToken(d) ==
    /\ Deliver(d, "token", AfterToken(d))
    /\ tokens' = tokens \cup {TokenOf(d)}
    /\ UNCHANGED <<given, parking, seen, blob, count, cycles, lost>>

\* DEL of the pending key, whatever it holds by now.
Delete(d) ==
    /\ Deliver(d, "delete", "decrement")
    /\ \/ blob' = NoPark
       \/ Swallowed /\ UNCHANGED blob
    /\ UNCHANGED <<given, parking, seen, count, cycles, tokens, lost>>

\* DECR of the session's counter, and the answer.
Decrement(d) ==
    /\ Deliver(d, "decrement", "resumed")
    /\ \/ count' = count - 1 /\ UNCHANGED lost
       \/ Swallowed /\ lost' = TRUE /\ UNCHANGED count
    /\ UNCHANGED <<given, parking, seen, blob, cycles, tokens>>

-------------------------------------------------------------------------------
(* Faults *)

\* The process dies, or a command whose failure is not swallowed throws
\* (after its effect or before it: the phase before or the phase after).
ParkDies(p) ==
    /\ "crash" \in Faults
    /\ \E phase \in {"rollback", "store"} : Park(p, phase, "crashed")
    /\ UNCHANGED <<given, delivering, seen, blob, count, cycles, tokens, lost>>

DeliveryDies(d) ==
    /\ "crash" \in Faults
    /\ \E phase \in Live : Deliver(d, phase, "crashed")
    /\ UNCHANGED <<given, parking, seen, blob, count, cycles, tokens, lost>>

\* The signal's timeout and its minute of grace have passed.
BlobExpires ==
    /\ "expiry" \in Faults
    /\ blob # NoPark
    /\ blob' = NoPark
    /\ UNCHANGED <<given, parking, delivering, seen, count, cycles, tokens, lost>>

-------------------------------------------------------------------------------
ParkProceeds(p) == RollBack(p) \/ Store(p)
DeliveryProceeds(d) == Cycle(d) \/ TakeToken(d) \/ Delete(d) \/ Decrement(d)

Next ==
    \/ \E p \in Parks : Count(p) \/ ParkProceeds(p) \/ ParkDies(p)
    \/ \E d \in Deliveries : Read(d) \/ DeliveryProceeds(d) \/ DeliveryDies(d)
    \/ BlobExpires

Spec == Init /\ [][Next]_vars

\* Calls that have begun run to their end; nobody is obliged to deliver.
Fairness ==
    /\ \A p \in Parks : WF_vars(ParkProceeds(p))
    /\ \A d \in Deliveries : WF_vars(DeliveryProceeds(d))

FairSpec == Spec /\ Fairness

-------------------------------------------------------------------------------
(* Properties *)

Resumed == {d \in Deliveries : delivering[d] = "resumed"}
Accepted == {p \in Parks : parking[p] \in {"store", "parked"}}
Counted == {p \in Parks : parking[p] \in {"store", "parked", "crashed"}}

\* However often a signal is delivered, at most one delivery resumes the intent
\* it releases.  (SET NX of the resume token)
ResumedOnce ==
    \A d1, d2 \in Resumed : TokenOf(d1) = TokenOf(d2) => d1 = d2

\* The session never has more accepted parks than its quota and the resumptions
\* allow, with or without the script: INCR gives every racing park a count of
\* its own.  A resumption gives back one place, a duplicate none, and the
\* counter never falls below the parks it stands for.  (the quota check, and
\* DECR after the token only)
NoOverCommit ==
    LET pending == Cardinality(Accepted) - Cardinality(Resumed)
    IN  /\ pending \in 0 .. Quota
        /\ pending <= count

\* With the script a park is refused only if its quota is used up by parks that
\* nobody has resumed, those of dead processes included, unless a DECR was
\* lost.  (evalIncrCheck)
RefusedOnlyAtQuota ==
    [][\A p \in Parks :
        atomic /\ ~lost /\ parking[p] = "idle" /\ parking'[p] = "refused" =>
            Cardinality(Counted) - Cardinality(Resumed) >= Quota]_vars

\* A delivery that passed the checks either resumes its intent or finds that
\* another one does: no delivery waits for one that gives up, except with its
\* process.
DeliverySettles ==
    \A d \in Deliveries, t \in Tokens :
        delivering[d] = "token" /\ TokenOf(d) = t ~>
            \E d2 \in Deliveries :
                delivering[d2] \in {"resumed", "crashed"} /\ TokenOf(d2) = t

\* The abstract promise: a token is held once taken, and its holder performs
\* the resumption.
Held == [t \in Tokens |-> t \in tokens]
By == [t \in Tokens |-> {d \in Resumed : TokenOf(d) = t}]

Abstract == INSTANCE OnceOnly
            WITH Hashes <- Tokens, Performers <- Deliveries,
                 held <- Held, by <- By

\* Resumption implements OnceOnly, over the pairs of an intent and a signal.
ImplementsOnceOnly == Abstract!Spec

-------------------------------------------------------------------------------
(* Statements of the repository that the code does not keep *)

\* "Maximum concurrently-parked envelopes per session": a park that was
\* accepted stays pending until it is resumed or its blob expires.
ParkedStaysPending ==
    \A p \in Parks :
        parking[p] = "parked" =>
            \/ blob = p
            \/ \E d \in Deliveries :
                seen[d] = p /\ delivering[d] \in {"decrement", "resumed"}

===============================================================================
