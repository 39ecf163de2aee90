---------------------------- MODULE ApprovalEngine ----------------------------
(***************************************************************************)
(* One approval: createApprovalEngine (@adjudicate/approval-engine) over   *)
(* the Redis registry and AdjudicatedAgent.confirm (adapter-core) over the *)
(* Redis confirmation store and the execution ledger.                      *)
(*                                                                         *)
(* Replicas share the three stores.  Within a replica the calls of         *)
(* resolve() for a token form a promise chain; between replicas nothing    *)
(* orders them.  One action is one command of a store, or one of the       *)
(* awaits of confirm(), with the code up to the next.  Calls are numbered  *)
(* by arrival; distinctApprovers has its default, true.                    *)
(***************************************************************************)
EXTENDS Naturals, FiniteSets

CONSTANTS
    MaxCalls, \* bound: how many calls of resolve() arrive
    Replicas,
    Approvers,
    Maker,    \* requestedBy, who may call resolve() like any approver
    Quorum,   \* minApprovals; 0: no quorum is configured
    FourEyes, \* the replicas whose engine has enforceSeparationOfDuty
    NoCall,   \* ledger key: absent
    NoRow,    \* registry key: absent
    Faults    \* faults a run admits

FaultKinds == {"crash", "expiry", "throws", "drift"}

Calls == 1..MaxCalls

ASSUME ConstantsAssumption ==
    /\ MaxCalls \in Nat
    /\ IsFiniteSet(Approvers)
    /\ Maker \in Approvers
    /\ Quorum \in Nat
    /\ FourEyes \subseteq Replicas
    /\ NoCall \notin Calls
    /\ Faults \subseteq FaultKinds

Statuses == {"pending", "approved", "declined", "expired"}
Row == [status : Statuses, approvals : SUBSET Approvers]

ASSUME NoRowAssumption == NoRow \notin Row

VARIABLES
    requested, \* where request() stands
    row,       \* the registry's projection of the request
    token,     \* the confirmation store holds the token
    ledger,    \* the call whose adjudication claimed the intent, or NoCall
    effects,   \* calls whose confirmation ran the executor
    arrived,   \* how many calls have arrived
    ask,       \* what each call asks, and where
    pc,        \* where each call stands, or what it answered
    seen,      \* the row it has read and is about to write back
    marks      \* the status it is about to give the row, or "pending"

vars == <<requested, row, token, ledger, effects, arrived, ask, pc, seen, marks>>

Ask == [at : Replicas, by : Approvers, accepted : BOOLEAN]

InFlight == {"vote", "take", "delete", "adjudicate", "execute", "mark", "set"}
Answers == {"waiting", "approved", "declined", "confirm_rejected",
            "unknown_token", "already_resolved", "self_approval_forbidden",
            "failed"}

\* Calls that died with their replica, before or after they passed the gates.
Dead == {"dropped", "crashed"}

TypeOK ==
    /\ requested \in {"idle", "delivered", "done"}
    /\ row \in Row \cup {NoRow}
    /\ token \in BOOLEAN
    /\ ledger \in Calls \cup {NoCall}
    /\ effects \subseteq Calls
    /\ arrived \in 0..MaxCalls
    /\ ask \in [1..arrived -> Ask]
    /\ pc \in [Calls -> {"idle", "queued"} \cup InFlight \cup Answers \cup Dead]
    /\ seen \in [Calls -> Row \cup {NoRow}]
    /\ marks \in [Calls -> Statuses]
    /\ \A c \in Calls : pc[c] \in {"vote", "set"} => seen[c] \in Row

Init ==
    /\ requested = "idle"
    /\ row = NoRow
    /\ token = TRUE
    /\ ledger = NoCall
    /\ effects = {}
    /\ arrived = 0
    /\ ask = <<>>
    /\ pc = [c \in Calls |-> "idle"]
    /\ seen = [c \in Calls |-> NoRow]
    /\ marks = [c \in Calls |-> "pending"]

Go(c, from, to) ==
    /\ pc[c] = from
    /\ pc' = [pc EXCEPT ![c] = to]

Throws == "throws" \in Faults

-------------------------------------------------------------------------------
(* request() *)

\* A channel takes the request, or all of them fail: it is recorded all the
\* same.  From here on its approvers may act.
Request ==
    /\ requested = "idle"
    /\ requested' = "delivered"
    /\ UNCHANGED <<row, token, ledger, effects, arrived, ask, pc, seen, marks>>

PutRequest ==
    /\ requested = "delivered"
    /\ requested' = "done"
    /\ row' = [status |-> "pending", approvals |-> {}]
    /\ UNCHANGED <<token, ledger, effects, arrived, ask, pc, seen, marks>>

-------------------------------------------------------------------------------
(* resolve() *)

\* A call joins its replica's chain.
Resolve(a) ==
    /\ requested # "idle"
    /\ arrived < MaxCalls
    /\ arrived' = arrived + 1
    /\ ask' = [c \in 1..arrived' |-> IF c = arrived' THEN a ELSE ask[c]]
    /\ Go(arrived', "idle", "queued")
    /\ UNCHANGED <<requested, row, token, ledger, effects, seen, marks>>

\* withTokenLock: the chain runs one call at a time, whether or not the one
\* before it threw.
Unlocked(c) == TRUE
WedgedByThrow(c) ==
    \A d \in 1..c - 1 :
        ask[d].at = ask[c].at => pc[d] \in {"waiting", "approved", "declined"}
Turn(c) ==
    \A d \in 1..c - 1 :
        ask[d].at = ask[c].at => pc[d] \in Answers \cup Dead

\* Separation of duty bars the proposer's own acceptance.
SelfApproval(c) ==
    ask[c].at \in FourEyes /\ ask[c].accepted /\ ask[c].by = Maker

\* registry.get, and the gates on what it holds.
StatusIgnored(c) == IF row = NoRow THEN "unknown_token" ELSE "vote"
AfterGates(c) ==
    IF row = NoRow THEN "unknown_token"
    ELSE IF row.status # "pending" THEN "already_resolved"
    ELSE IF SelfApproval(c) THEN "self_approval_forbidden"
    ELSE IF Quorum > 0 /\ ask[c].accepted THEN "vote"
    ELSE "take"

Enter(c) ==
    /\ pc[c] = "queued"
    /\ Turn(c)
    /\ Go(c, "queued", AfterGates(c))
    /\ seen' = [seen EXCEPT ![c] = IF AfterGates(c) = "vote" THEN row ELSE @]
    /\ UNCHANGED <<requested, row, token, ledger, effects, arrived, ask, marks>>

\* quorumMet: the proposer's vote is kept but not counted.
CountsMaker(approvals) == Cardinality(approvals) >= Quorum
QuorumMet(approvals) == Cardinality(approvals \ {Maker}) >= Quorum

\* registry.put of the row that was read, with one voter more.
Vote(c) ==
    LET approvals == seen[c].approvals \cup {ask[c].by}
    IN  /\ Go(c, "vote", IF QuorumMet(approvals) THEN "take" ELSE "waiting")
        /\ row' = [seen[c] EXCEPT !.approvals = approvals]
        /\ seen' = [seen EXCEPT ![c] = NoRow]
        /\ UNCHANGED <<requested, token, ledger, effects, arrived, ask, marks>>

\* resolveStateContext throws: nothing is resolved.
StateFails(c) ==
    /\ Throws
    /\ Go(c, "take", "failed")
    /\ UNCHANGED <<requested, row, token, ledger, effects, arrived, ask, seen,
                   marks>>

-------------------------------------------------------------------------------
(* confirm(): it ends in a turn, or throws and is taken for a rejected token *)

Outcome(c) == IF ask[c].accepted THEN "approved" ELSE "declined"

Confirmed(c, from, returned) ==
    /\ Go(c, from, "mark")
    /\ marks' = [marks EXCEPT ![c] = IF returned THEN Outcome(c) ELSE "expired"]

\* ConfirmationStore.take: GET; an absent token rejects the confirmation.
Take(c) ==
    /\ IF token
       THEN Go(c, "take", "delete") /\ UNCHANGED marks
       ELSE Confirmed(c, "take", FALSE)
    /\ UNCHANGED <<requested, row, token, ledger, effects, arrived, ask, seen>>

\* ... then DEL.  A decline returns without an adjudication.  So does a config
\* that drifted from its seal; a blob that cannot be read or verified throws.
KeepsToken == token
NoToken == FALSE

Delete(c) ==
    /\ pc[c] = "delete"
    /\ token' = NoToken
    /\ \/ ask[c].accepted /\ Go(c, "delete", "adjudicate") /\ UNCHANGED marks
       \/ ~ask[c].accepted /\ Confirmed(c, "delete", TRUE)
       \/ "drift" \in Faults /\ Confirmed(c, "delete", TRUE)
       \/ "drift" \in Faults /\ Confirmed(c, "delete", FALSE)
    /\ UNCHANGED <<requested, row, ledger, effects, arrived, ask, seen>>

\* What the provider answers after the decision: a turn, or it throws.
Provider(returned) == returned \/ Throws

\* adjudicateAndAudit: the confirmed intent claims its hash, or is suppressed,
\* or the fresh state refuses it.
ClaimIgnored == TRUE
Free == ledger = NoCall

Adjudicate(c) ==
    /\ \/ /\ Free
          /\ Go(c, "adjudicate", "execute")
          /\ ledger' = c
          /\ UNCHANGED marks
       \/ \E returned \in BOOLEAN :
            /\ Provider(returned)
            /\ Confirmed(c, "adjudicate", returned)
            /\ UNCHANGED ledger
    /\ UNCHANGED <<requested, row, token, effects, arrived, ask, seen>>

\* The executor runs and the loop goes on, or the audit emission throws first
\* and the claim is released.
Execute(c) ==
    /\ \/ \E returned \in BOOLEAN :
            /\ Provider(returned)
            /\ Confirmed(c, "execute", returned)
            /\ effects' = effects \cup {c}
            /\ UNCHANGED ledger
       \/ /\ Throws
          /\ Confirmed(c, "execute", FALSE)
          /\ ledger' = NoCall
          /\ UNCHANGED effects
    /\ UNCHANGED <<requested, row, token, arrived, ask, seen>>

-------------------------------------------------------------------------------
(* markResolved, and the answer *)

\* A throwing notifyResolved fails the call that resolved the request.
Answer(c, from) ==
    /\ \/ marks[c] = "expired" /\ Go(c, from, "confirm_rejected")
       \/ marks[c] # "expired" /\ Go(c, from, marks[c])
       \/ marks[c] # "expired" /\ Throws /\ Go(c, from, "failed")
    /\ marks' = [marks EXCEPT ![c] = "pending"]

\* GET: a row that is gone or resolved is left alone.
MarkGet(c) ==
    /\ IF row # NoRow /\ row.status = "pending"
       THEN /\ Go(c, "mark", "set")
            /\ seen' = [seen EXCEPT ![c] = row]
            /\ UNCHANGED marks
       ELSE Answer(c, "mark") /\ UNCHANGED seen
    /\ UNCHANGED <<requested, row, token, ledger, effects, arrived, ask>>

\* SET of the row that was read, with its new status.
Marked(c) == [seen[c] EXCEPT !.status = marks[c]]

MarkSet(c) ==
    /\ Answer(c, "set")
    /\ row' = Marked(c)
    /\ seen' = [seen EXCEPT ![c] = NoRow]
    /\ UNCHANGED <<requested, token, ledger, effects, arrived, ask>>

-------------------------------------------------------------------------------
(* Faults *)

\* A replica dies with its chain.
Crash(r) ==
    /\ "crash" \in Faults
    /\ \E c \in 1..arrived : ask[c].at = r /\ pc[c] \in InFlight
    /\ pc' = [c \in Calls |->
                IF c > arrived \/ ask[c].at # r THEN pc[c]
                ELSE IF pc[c] = "queued" THEN "dropped"
                ELSE IF pc[c] \in InFlight THEN "crashed"
                ELSE pc[c]]
    /\ seen' = [c \in Calls |-> IF pc'[c] = "crashed" THEN NoRow ELSE seen[c]]
    /\ marks' = [c \in Calls |-> IF pc'[c] = "crashed" THEN "pending"
                                 ELSE marks[c]]
    /\ UNCHANGED <<requested, row, token, ledger, effects, arrived, ask>>

\* The token expires.  The row, stored later and with every vote again, is
\* taken to outlive it.
Expire ==
    /\ "expiry" \in Faults
    /\ token
    /\ token' = FALSE
    /\ UNCHANGED <<requested, row, ledger, effects, arrived, ask, pc, seen,
                   marks>>

-------------------------------------------------------------------------------
Proceed(c) ==
    \/ Enter(c) \/ Vote(c) \/ Take(c) \/ Delete(c) \/ Adjudicate(c)
    \/ Execute(c) \/ MarkGet(c) \/ MarkSet(c)

Next ==
    \/ Request \/ PutRequest \/ Expire
    \/ \E a \in Ask : Resolve(a)
    \/ \E c \in Calls : Proceed(c) \/ StateFails(c)
    \/ \E r \in Replicas : Crash(r)

Spec == Init /\ [][Next]_vars

\* The stores, the provider and the executor answer or throw; nobody is
\* obliged to request or to resolve.
Fairness == \A c \in Calls : WF_vars(Proceed(c))

FairSpec == Spec /\ Fairness

-------------------------------------------------------------------------------
(* Properties *)

\* All calls came to one replica: the case withTokenLock is made for.
OneReplica == \A c, d \in 1..arrived : ask[c].at = ask[d].at

\* Those who voted for the request: their calls passed the gates.
Voters ==
    {ask[c].by : c \in {d \in 1..arrived :
        /\ ask[d].accepted
        /\ pc[d] \notin {"queued", "dropped", "unknown_token", "already_resolved",
                         "self_approval_forbidden"}}}

\* The effect of an approval has a quorum of distinct approvers behind it other
\* than the proposer, whatever votes race, are lost between replicas, or come
\* again; and a replica that separates duties never acts on the proposer's own
\* acceptance.  (quorumMet, the distinct approvals, the gate before them)
QuorumBehindEffect ==
    \A c \in effects :
        /\ Cardinality(Voters \ {Maker}) >= Quorum
        /\ ask[c].at \in FourEyes => ask[c].by # Maker

\* In one replica no vote is lost: between calls, every approver who was told to
\* wait is on the pending row.  (withTokenLock around the read-modify-write)
VotesKept ==
    /\ OneReplica
    /\ \A c \in Calls : pc[c] \notin InFlight
    /\ row # NoRow
    /\ row.status = "pending"
    => {ask[c].by : c \in {d \in Calls : pc[d] = "waiting"}}
            \subseteq row.approvals

\* In one replica a declined request never executes, before or after, although
\* take() is a GET and a DEL.  (the token is gone when the next call comes)
DeclineIsFinal ==
    OneReplica /\ (\E c \in Calls : pc[c] = "declined") =>
        effects = {} /\ \A c \in Calls : pc[c] # "execute"

\* In one replica a resolved row is never changed again.
\* (the status gate and the stale row that puts and marks write back)
ResolvedStays ==
    [][OneReplica' /\ row # NoRow /\ row.status # "pending" =>
        row' = row]_vars

\* Every call is answered: a call that throws does not wedge the chain.
\* (prev.then(fn, fn))
ResolveSettles ==
    \A c \in Calls : pc[c] = "queued" ~> pc[c] \in Answers \cup Dead

\* The abstract promise, for the one intent of the request.
Abstract == INSTANCE OnceOnly
            WITH Hashes <- {"intent"}, Performers <- Calls,
                 held <- [h \in {"intent"} |-> ledger # NoCall],
                 by <- [h \in {"intent"} |-> effects]

\* Two replicas that both took the token perform the intent once: the ledger
\* suppresses the later one.  (take's race and REPLAY_SUPPRESSED)
ImplementsOnceOnly == Abstract!Spec
===============================================================================
