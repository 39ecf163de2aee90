------------------------------ MODULE Remediation ------------------------------
(***************************************************************************)
(* The remediation orchestrator (@adjudicate/adjutant): handle() turns an  *)
(* operations signal into an adjudicated remediation, resolve() answers a  *)
(* proposal that waits for review.  Both adjudicate under the policy of    *)
(* the incident-response pack, over one execution ledger, one proposal     *)
(* store and one approval registry.                                        *)
(*                                                                         *)
(* Signals arrive again with their nonce, operators approve and decline at *)
(* once, and the incident changes meanwhile.  One action is the code       *)
(* between two awaits.  The token of a proposal is named after the call of *)
(* handle() that generated it; an envelope is its own intent hash.         *)
(***************************************************************************)
EXTENDS Integers, FiniteSets

CONSTANTS
    Handles,   \* calls of handle()
    Resolves,  \* calls of resolve()
    Signals,   \* the nonces of signals
    Radii,     \* the blast radii of signals
    MaxPasses, \* maxPasses
    NoCall,    \* no token
    Faults     \* faults a run admits

ASSUME ConstantsAssumption ==
    /\ Signals # {}
    /\ Radii \subseteq Int
    /\ MaxPasses \in Nat \ {0}
    /\ NoCall \notin Handles
    /\ Handles \cap Resolves = {}
    /\ Faults \subseteq {"throw"}

Calls == Handles \cup Resolves
Tokens == Handles \cup {NoCall}

VARIABLES
    shape,     \* disposition and radius of each signal
    brings,    \* the signal of each call of handle()
    ledgered,  \* a ledger is wired
    phase,     \* the await at which each call stands
    subject,   \* the envelope each call adjudicates
    snap,      \* the state each call adjudicates against
    pass,      \* rounds of the loop in handle()
    answer,    \* the last decision of each call
    token,     \* the token a call of resolve() brings
    accepted,  \* what the operator said
    ledger,    \* keys of the ledger
    proposals, \* proposal store, by nonce
    registry,  \* status of each token's row in the approval registry
    effects    \* the executor's runs: the call and the envelope

given == <<shape, brings, ledgered>>
local == <<subject, snap, pass, answer>>
bindings == <<token, accepted>>
stores == <<ledger, proposals, registry, effects>>
vars == <<given, phase, local, bindings, stores>>

-------------------------------------------------------------------------------
(* Envelopes and the incident policy *)

AutoCap == 5
ConfirmAt == 10
EscalateAt == 25

Shapes == [disposition : {"SAFE", "REVIEW", "MANUAL"}, radius : Radii]
\* The incident: over, or open with its dependencies up or one of them down.
Incidents == {"over", "open", "waiting"}

Kinds == {"remediate", "escalate"}
Envelopes == [nonce : Signals, kind : Kinds, trusted : BOOLEAN,
              radius : Radii \cup {AutoCap}]

\* SAFE remediations are untrusted; MANUAL ones escalate the incident.
Mint(s) == [nonce |-> s,
            kind |-> IF shape[s].disposition = "MANUAL"
                     THEN "escalate" ELSE "remediate",
            trusted |-> shape[s].disposition # "SAFE",
            radius |-> shape[s].radius]

Clamped(e) == [e EXCEPT !.radius = AutoCap]

\* Asking the operator before the clamp has been tried.
ConfirmsBeforeClamping(e, state) ==
    IF state = "over" THEN "REFUSE"
    ELSE IF e.kind = "escalate" THEN "EXECUTE"
    ELSE IF e.radius < 0 THEN "REFUSE"
    ELSE IF state = "waiting" THEN "DEFER"
    ELSE IF e.radius >= EscalateAt THEN "ESCALATE"
    ELSE IF e.radius >= ConfirmAt THEN "REQUEST_CONFIRMATION"
    ELSE IF ~e.trusted /\ e.radius > AutoCap THEN "REWRITE"
    ELSE "EXECUTE"

\* The guards of the policy, in their order.
Verdict(e, state) ==
    IF state = "over" THEN "REFUSE"
    ELSE IF e.kind = "escalate" THEN "EXECUTE"
    ELSE IF e.radius < 0 THEN "REFUSE"
    ELSE IF state = "waiting" THEN "DEFER"
    ELSE IF ~e.trusted /\ e.radius > AutoCap THEN "REWRITE"
    ELSE IF e.radius >= EscalateAt THEN "ESCALATE"
    ELSE IF e.radius >= ConfirmAt THEN "REQUEST_CONFIRMATION"
    ELSE "EXECUTE"

\* adjudicateAndAudit: a receipt turns a request for confirmation into EXECUTE,
\* and a rewrite stands if the clamped envelope passes the kernel itself.
Ruling(e, state, receipt) ==
    LET first == Verdict(e, state)
        second == Verdict(Clamped(e), state)
    IN  IF first = "REQUEST_CONFIRMATION" /\ receipt THEN "EXECUTE"
        ELSE IF first # "REWRITE" THEN first
        ELSE IF second = "EXECUTE" THEN "REWRITE"
        ELSE IF second = "REWRITE" THEN "REFUSE"
        ELSE second

\* The envelope a ruling allows to run, whose hash is claimed.
Claims(e, ruling) == IF ruling = "REWRITE" THEN Clamped(e) ELSE e
Grants(ruling) == ruling \in {"EXECUTE", "REWRITE"}

-------------------------------------------------------------------------------
(* State *)

NoProposal == [status |-> "none"]
Statuses == {"executed", "pending_review", "pending_escalation", "deferred",
             "refused", "declined"}
Proposals == [status : Statuses, token : Tokens, envelope : Envelopes]

Phases == {"idle", "fetch", "check", "record", "execute", "register", "propose",
           "mark", "row", "done", "unresolved", "rejected"}
Decisions == {"EXECUTE", "REWRITE", "REFUSE", "DEFER", "ESCALATE",
              "REQUEST_CONFIRMATION"}

AnEnvelope == CHOOSE e \in Envelopes : TRUE

TypeOK ==
    /\ shape \in [Signals -> Shapes]
    /\ brings \in [Handles -> Signals]
    /\ ledgered \in BOOLEAN
    /\ phase \in [Calls -> Phases]
    /\ subject \in [Calls -> Envelopes]
    /\ snap \in [Calls -> Incidents]
    /\ pass \in [Handles -> 0 .. MaxPasses]
    /\ answer \in [Calls -> Decisions]
    /\ token \in [Resolves -> Tokens]
    /\ accepted \in [Resolves -> BOOLEAN]
    /\ ledger \subseteq Envelopes
    /\ proposals \in [Signals -> Proposals \cup {NoProposal}]
    /\ registry \in [Handles -> {"absent", "pending", "approved", "declined"}]
    /\ effects \subseteq Calls \X Envelopes

Init ==
    /\ shape \in [Signals -> Shapes]
    /\ brings \in [Handles -> Signals]
    /\ ledgered \in BOOLEAN
    /\ phase = [c \in Calls |-> "idle"]
    /\ subject = [c \in Calls |-> AnEnvelope]
    /\ snap = [c \in Calls |-> "open"]
    /\ pass = [h \in Handles |-> 0]
    /\ answer = [c \in Calls |-> "REFUSE"]
    /\ token = [r \in Resolves |-> NoCall]
    /\ accepted = [r \in Resolves |-> FALSE]
    /\ ledger = {}
    /\ proposals = [s \in Signals |-> NoProposal]
    /\ registry = [h \in Handles |-> "absent"]
    /\ effects = {}

Goes(c, from, to) ==
    /\ phase[c] = from
    /\ phase' = [phase EXCEPT ![c] = to]

-------------------------------------------------------------------------------
(* The decision, for both calls *)

\* `await options.getState()`: the incident as it is by now, read once for all
\* rounds.  It changes with nobody's leave, so every read may answer anything.
Fetch(c) ==
    /\ \/ c \in Handles  /\ Goes(c, "idle", "check")
                         /\ subject' = [subject EXCEPT ![c] = Mint(brings[c])]
       \/ c \in Resolves /\ Goes(c, "fetch", "check") /\ UNCHANGED subject
    /\ \E now \in Incidents : snap' = [snap EXCEPT ![c] = now]
    /\ UNCHANGED <<given, pass, answer, bindings, stores>>

ProposesUnregistered(h, decision) ==
    IF decision = "REWRITE" THEN "check"
    ELSE IF decision = "EXECUTE" THEN "execute"
    ELSE "propose"

\* Where handle() goes with a decision.
HandleTurns(h, decision) ==
    IF decision = "REWRITE"
    THEN IF pass[h] + 1 < MaxPasses THEN "check" ELSE "propose"
    ELSE IF decision = "EXECUTE" THEN "execute"
    ELSE IF decision = "REQUEST_CONFIRMATION" THEN "register"
    ELSE "propose"

\* Where resolve() goes with a decision.
ResolveTurns(decision) == IF decision = "EXECUTE" THEN "execute" ELSE "mark"

Turns(c, decision) ==
    IF c \in Handles THEN HandleTurns(c, decision) ELSE ResolveTurns(decision)

\* adjudicateAndAudit answers; handle() goes on with the rewritten envelope.
Answered(c, from, decision) ==
    /\ Goes(c, from, Turns(c, decision))
    /\ answer' = [answer EXCEPT ![c] = decision]
    /\ IF c \in Handles /\ decision = "REWRITE"
       THEN /\ subject' = [subject EXCEPT ![c] = Clamped(@)]
            /\ pass' = [pass EXCEPT ![c] = @ + 1]
       ELSE UNCHANGED <<subject, pass>>

Rules(c) == Ruling(subject[c], snap[c], c \in Resolves)

\* checkLedger and the kernel: a hash in the ledger is refused as a replay, a
\* decision that grants nothing needs no claim.
Check(c) ==
    /\ IF ledgered /\ subject[c] \in ledger
       THEN Answered(c, "check", "REFUSE")
       ELSE IF ledgered /\ Grants(Rules(c))
       THEN Goes(c, "check", "record") /\ UNCHANGED <<subject, pass, answer>>
       ELSE Answered(c, "check", Rules(c))
    /\ UNCHANGED <<given, snap, bindings, stores>>

AlwaysFree(e) == TRUE
TakesExistsForAcquired(e) == e \in ledger

\* Whether SET NX finds the key free.
IsFree(e) == e \notin ledger

\* recordExecution, the claim of the bytes that are to run.
Record(c) ==
    LET e == Claims(subject[c], Rules(c))
    IN  /\ Answered(c, "record", IF IsFree(e) THEN Rules(c) ELSE "REFUSE")
        /\ ledger' = ledger \cup {e}
        /\ UNCHANGED <<given, snap, bindings, proposals, registry,
                       effects>>

\* executor.invokeIntent with the envelope that was granted.
Execute(c) ==
    /\ Goes(c, "execute", IF c \in Handles THEN "propose" ELSE "mark")
    /\ effects' = effects \cup {<<c, subject[c]>>}
    /\ UNCHANGED <<given, local, bindings, ledger, proposals,
                   registry>>

-------------------------------------------------------------------------------
(* handle(): recordProposal *)

\* registry.put comes before the proposal that names its token.
Register(h) ==
    /\ Goes(h, "register", "propose")
    /\ registry' = [registry EXCEPT ![h] = "pending"]
    /\ UNCHANGED <<given, local, bindings, ledger, proposals, effects>>

StatusOf(decision) ==
    CASE decision = "EXECUTE"              -> "executed"
      [] decision = "REQUEST_CONFIRMATION" -> "pending_review"
      [] decision = "ESCALATE"             -> "pending_escalation"
      [] decision = "DEFER"                -> "deferred"
      [] OTHER                             -> "refused"

\* proposalStore.put replaces whatever stands under the nonce.
Propose(h) ==
    /\ Goes(h, "propose", "done")
    /\ proposals' = [proposals EXCEPT ![brings[h]] =
           [status |-> StatusOf(answer[h]),
            token |-> IF answer[h] = "REQUEST_CONFIRMATION" THEN h ELSE NoCall,
            envelope |-> subject[h]]]
    /\ UNCHANGED <<given, local, bindings, ledger, registry, effects>>

-------------------------------------------------------------------------------
(* resolve() *)

\* A proposal that resolve() works on, found by its token.
Awaits(s, t) ==
    /\ proposals[s].status = "pending_review"
    /\ proposals[s].token = t

Settle(s, status) == proposals' = [proposals EXCEPT ![s].status = status]

\* getByToken and the status guard; a decline settles the proposal at once.
Look(r) ==
    /\ \E t \in Handles, yes \in BOOLEAN :
        /\ registry[t] # "absent"
        /\ token' = [token EXCEPT ![r] = t]
        /\ accepted' = [accepted EXCEPT ![r] = yes]
        /\ IF Awaits(brings[t], t)
           THEN /\ Goes(r, "idle", IF yes THEN "fetch" ELSE "row")
                /\ subject' = [subject EXCEPT ![r] =
                                   proposals[brings[t]].envelope]
                /\ IF yes THEN UNCHANGED proposals
                   ELSE Settle(brings[t], "declined")
           ELSE /\ Goes(r, "idle", "unresolved")
                /\ UNCHANGED <<subject, proposals>>
    /\ UNCHANGED <<given, snap, pass, answer, ledger, registry,
                   effects>>

\* proposalStore.markResolved, whatever the proposal has become.
Mark(r) ==
    /\ Goes(r, "mark", "row")
    /\ Settle(brings[token[r]],
              IF answer[r] = "EXECUTE" THEN "executed" ELSE "refused")
    /\ UNCHANGED <<given, local, bindings, ledger, registry, effects>>

Reply(r) == IF accepted[r] THEN "approved" ELSE "declined"

\* approvalRegistry.markResolved, whatever the row says.
MarkRow(r) ==
    /\ Goes(r, "row", "done")
    /\ registry' = [registry EXCEPT ![token[r]] = Reply(r)]
    /\ UNCHANGED <<given, local, bindings, ledger, proposals, effects>>

-------------------------------------------------------------------------------
(* Faults *)

\* An awaited call throws, before or after its effect: the call rejects.
Throws(c) ==
    /\ "throw" \in Faults
    /\ \/ \E at \in {"fetch", "check", "record", "register", "row"} :
              Goes(c, at, "rejected") /\ UNCHANGED <<ledger, registry, effects>>
       \/ /\ Goes(c, "record", "rejected")
          /\ ledger' = ledger \cup {Claims(subject[c], Rules(c))}
          /\ UNCHANGED <<registry, effects>>
       \/ /\ \/ /\ Goes(c, "register", "rejected")
                /\ registry' = [registry EXCEPT ![c] = "pending"]
             \/ /\ Goes(c, "row", "rejected")
                /\ registry' = [registry EXCEPT ![token[c]] = Reply(c)]
          /\ UNCHANGED <<ledger, effects>>
       \/ /\ Goes(c, "execute", "rejected")
          /\ effects' \in {effects, effects \cup {<<c, subject[c]>>}}
          /\ UNCHANGED <<ledger, registry>>
    /\ UNCHANGED <<given, local, bindings, proposals>>

-------------------------------------------------------------------------------
Decides(c) == Check(c) \/ Record(c) \/ Execute(c)
HandleProceeds(h) == Decides(h) \/ Register(h) \/ Propose(h)
ResolveProceeds(r) == Fetch(r) \/ Decides(r) \/ Mark(r) \/ MarkRow(r)

Next ==
    \/ \E h \in Handles : Fetch(h) \/ HandleProceeds(h) \/ Throws(h)
    \/ \E r \in Resolves : Look(r) \/ ResolveProceeds(r) \/ Throws(r)

Spec == Init /\ [][Next]_vars

\* Calls that have begun run to their end.
Fairness ==
    /\ \A h \in Handles : WF_vars(HandleProceeds(h))
    /\ \A r \in Resolves : WF_vars(ResolveProceeds(r))

FairSpec == Spec /\ Fairness

-------------------------------------------------------------------------------
(* Properties *)

\* However often a signal is handled and its proposal approved, a wired ledger
\* lets the executor run once for its nonce.  (deps.ledger, the clamp included)
OnePerNonce ==
    ledgered =>
        \A run1, run2 \in effects : run1[2].nonce = run2[2].nonce => run1 = run2

\* What runs unattended is within the cap, what needs a confirmation runs for
\* an operator who accepted that very proposal, and what must be escalated
\* never runs, on the way over the clamp, the queue and the second
\* adjudication.  (clampAutoRemediationScope, resolve's receipt)
BlastRadiusBounded ==
    \A c \in Calls, e \in Envelopes :
        <<c, e>> \in effects /\ e.kind = "remediate" =>
            /\ e.radius \in 0 .. EscalateAt - 1
            /\ ~e.trusted => e.radius <= AutoCap
            /\ e.radius >= ConfirmAt =>
                   /\ c \in Resolves
                   /\ accepted[c]
                   /\ e = Mint(brings[token[c]])

\* A proposal that waits for review can be found and answered: the registry
\* holds a pending row under its token, whatever was registered, replaced or
\* resolved meanwhile.  (registry.put before proposalStore.put, and the
\* opposite order in resolve)
PendingCanBeAnswered ==
    \A s \in Signals :
        proposals[s].status = "pending_review" =>
            /\ proposals[s].token # NoCall
            /\ registry[proposals[s].token] = "pending"

\* A claimed hash leads to its effect or to a call that rejects: no approval
\* and no signal is swallowed by the suppression of replays.  The claim of a
\* clamped envelope is the exception.  (ClampExecutes)
ClaimLeadsToRun ==
    \A s \in Signals :
        Mint(s) \in ledger ~>
            \E c \in Calls : <<c, Mint(s)>> \in effects \/ phase[c] = "rejected"

\* What the ledger promises, kept for a nonce by the calls that share it: the
\* effect of a nonce is its run, and it is held once an envelope of it is claimed,
\* clamped or not.  Without a ledger there is nothing to keep.  (deps.ledger)
Held == [s \in Signals |-> ledgered /\ \E e \in ledger : e.nonce = s]
By == [s \in Signals |->
          {c \in Calls : ledgered /\ \E e \in Envelopes :
                             e.nonce = s /\ <<c, e>> \in effects}]

Abstract == INSTANCE OnceOnly
            WITH Hashes <- Signals, Performers <- Calls, held <- Held, by <- By

\* However signals, clamps and approvals interleave, the calls that share a ledger
\* implement the at-most-once specification of a nonce.
ImplementsOnceOnly == Abstract!Spec

-------------------------------------------------------------------------------
(* A statement of the repository that the code does not keep *)

\* "a well-formed clamp REWRITEs once then EXECUTEs on the second pass".
ClampExecutes ==
    \A h \in Handles :
        phase[h] = "done" /\ pass[h] = 1 /\ MaxPasses > 1 =>
            answer[h] = "EXECUTE"
===============================================================================
