-------------------------------- MODULE Kernel ---------------------------------
(***************************************************************************)
(* The pure kernel of @adjudicate/core, adjudicate(), and the way the      *)
(* audited shell uses it for one intent: the waiver of a question by a     *)
(* confirmation receipt or a budget grant, then the second pass over what  *)
(* a guard rewrote.                                                        *)
(*                                                                         *)
(* The guards of a phase are the first answer their list gives.  They look *)
(* at the adopter's state, which changes between two calls, so that every  *)
(* call meets any answers.  Of an envelope the model keeps its taint, its  *)
(* origin, whether its version and hash are sound, and a name for its      *)
(* bytes.                                                                  *)
(***************************************************************************)
EXTENDS Taint

CONSTANTS
    Bytes,   \* contents of envelopes
    Levels,  \* taints a run enumerates
    Sources, \* origins a run enumerates
    Answers, \* answers of guards a run enumerates
    MaxCalls, \* bound on the adjudications of one intent
    Nothing  \* no envelope

Decisions == {"EXECUTE", "REFUSE", "DEFER", "ESCALATE", "REQUEST_CONFIRMATION",
              "REWRITE"}
AllAnswers == Decisions \cup {"none", "throw"}

ASSUME ConstantsAssumption ==
    /\ Levels \subseteq Taints
    /\ Sources \subseteq Origins
    /\ Answers \subseteq AllAnswers
    /\ MaxCalls \in Nat \ {0}

Envelopes == [bytes : Bytes, taint : Levels, origin : Sources, sound : BOOLEAN]

ASSUME NothingAssumption == Nothing \notin Envelopes

Order == <<"state", "auth", "business">>
Phases == {"state", "auth", "business"}

\* What the guards answer about one envelope, phase by phase.
Guards == [Phases -> Answers]

Policies == [minimum : Levels, uncontaminated : BOOLEAN,
             default : {"EXECUTE", "REFUSE"}]

-------------------------------------------------------------------------------
(* adjudicate() *)

\* The gate on a rewrite: the new envelope's hash, and its taint.
NeverRaises(rewritten, e) == FALSE
Raises(rewritten, e) == Rank[rewritten.taint] > Rank[e.taint]

\* A guard's answer, with a throw refused and a rewrite gated.
Gated(answer, e, rewritten) ==
    IF answer = "throw" THEN "REFUSE"
    ELSE IF answer # "REWRITE" THEN answer
    ELSE IF ~rewritten.sound \/ Raises(rewritten, e) THEN "REFUSE"
    ELSE "REWRITE"

IgnoresOrigin(e, policy) == CanPropose(e.taint, policy)
PassesTaint(e, policy) == CanProposeWithOrigin(e.taint, e.origin, policy)

\* The phases in their order; the first one that answers decides.
Adjudicate(e, guards, rewritten, policy, killed) ==
    IF killed \/ ~e.sound THEN "REFUSE"
    ELSE IF guards["state"] # "none"
    THEN Gated(guards["state"], e, rewritten)
    ELSE IF ~PassesTaint(e, policy) THEN "REFUSE"
    ELSE IF guards["auth"] # "none"
    THEN Gated(guards["auth"], e, rewritten)
    ELSE IF guards["business"] # "none"
    THEN Gated(guards["business"], e, rewritten)
    ELSE policy.default

-------------------------------------------------------------------------------
(* The shell's use of it *)

\* A receipt, or a grant, answers the kernel's question.
Waive(decision, waived) ==
    IF decision = "REQUEST_CONFIRMATION" /\ waived THEN "EXECUTE" ELSE decision

TrustsRewrite(rewritten, guards, policy, killed) == "REWRITE"

\* The second pass, over the rewritten envelope, with nothing to waive a
\* question of its own; a second rewrite is refused.
SecondPass(rewritten, guards, policy, killed) ==
    LET second == Adjudicate(rewritten, guards, rewritten, policy, killed)
    IN  IF second = "EXECUTE" THEN "REWRITE"
        ELSE IF second = "REWRITE" THEN "REFUSE"
        ELSE second

\* The decision of adjudicateAndAudit: guards about the envelope, and again
\* about the rewritten one.
Decide(e, guards, rewritten, again, policy, killed, waived) ==
    LET first == Waive(Adjudicate(e, guards, rewritten, policy, killed), waived)
    IN  IF first = "REWRITE"
        THEN SecondPass(rewritten, again, policy, killed)
        ELSE first

\* The envelope that runs.
Granted(decision, e, rewritten) ==
    IF decision = "EXECUTE" THEN e
    ELSE IF decision = "REWRITE" THEN rewritten
    ELSE Nothing

-------------------------------------------------------------------------------
(* The order of the phases, said once more *)

\* The i-th phase is the first whose guards answer, and its answer is x.
FirstAnswer(guards, i, x) ==
    /\ guards[Order[i]] = x
    /\ \A j \in 1 .. i - 1 : guards[Order[j]] = "none"

Silent(guards) == \A p \in Phases : guards[p] = "none"

-------------------------------------------------------------------------------
(* One intent: submitted, asked about, confirmed *)

VARIABLES
    policy,    \* taint policy of the kind, and the default
    submitted, \* the envelope
    killed,    \* the kill switch
    calls,     \* adjudications so far
    phase,     \* "new", "asked" or "closed"
    ran        \* the envelope that ran and what it was granted on

vars == <<policy, submitted, killed, calls, phase, ran>>

\* `ruled` says that a state guard answered about the submitted envelope.
Runs == [envelope : Envelopes, guards : Guards, killed : BOOLEAN,
         waived : BOOLEAN, ruled : BOOLEAN]

TypeOK ==
    /\ policy \in Policies
    /\ submitted \in Envelopes
    /\ killed \in BOOLEAN
    /\ calls \in 0 .. MaxCalls
    /\ phase \in {"new", "asked", "closed"}
    /\ ran \in Runs \cup {Nothing}

Init ==
    /\ policy \in Policies
    /\ submitted \in Envelopes
    /\ killed = FALSE
    /\ calls = 0
    /\ phase = "new"
    /\ ran = Nothing

\* What a call may meet besides the guards about the submitted envelope: if they
\* rewrite it, the rewritten envelope and the guards about that one.
Rewritings(guards) ==
    IF \E i \in 1 .. 3 : FirstAnswer(guards, i, "REWRITE")
    THEN Envelopes \X Guards
    ELSE {<<submitted, guards>>}

\* One call of adjudicateAndAudit, with or without a receipt or a grant.  A
\* question keeps the submitted envelope pending, whatever it is about.
Settle(guards, rewritten, again, waived) ==
    LET decision == Decide(submitted, guards, rewritten, again, policy, killed,
                           waived)
        runs == Granted(decision, submitted, rewritten)
    IN  /\ phase' = IF decision = "REQUEST_CONFIRMATION"
                    THEN "asked" ELSE "closed"
        /\ ran' = IF runs = Nothing THEN Nothing
                  ELSE [envelope |-> runs,
                        guards |-> IF decision = "EXECUTE"
                                   THEN guards ELSE again,
                        killed |-> killed,
                        waived |-> waived,
                        ruled |-> guards["state"] # "none"]
        /\ calls' = calls + 1
        /\ UNCHANGED <<policy, submitted, killed>>

Call(waived) ==
    \E guards \in Guards : \E pair \in Rewritings(guards) :
        Settle(guards, pair[1], pair[2], waived)

Submit == phase = "new" /\ Call(FALSE)

\* confirm() with a receipt, or the loop with a burnt grant, adjudicates the
\* pending envelope again.
Confirm == phase = "asked" /\ calls < MaxCalls /\ Call(TRUE)

\* The kill switch is thrown or released between two calls.
Toggle ==
    /\ phase # "closed"
    /\ killed' = ~killed
    /\ UNCHANGED <<policy, submitted, calls, phase, ran>>

Next == Submit \/ Confirm \/ Toggle

Spec == Init /\ [][Next]_vars

-------------------------------------------------------------------------------
(* Properties *)

\* A run had every right to: its own bytes were sound, the switch was off, the
\* first guard to answer about these very bytes said EXECUTE, or asked and was
\* waived, or all were silent and the default is EXECUTE; and unless that guard
\* was a state guard the bytes passed the taint gate.  Nothing runs on the
\* strength of an earlier pass, an answer that was overruled or a guard that
\* threw.  (the guard order, gateRewrite, the second pass, the waiver)
RunsAreAuthorised ==
    ran # Nothing =>
        /\ ran.envelope.sound
        /\ ~ran.killed
        /\ \/ \E i \in 1 .. 3 :
                /\ \/ FirstAnswer(ran.guards, i, "EXECUTE")
                   \/ /\ FirstAnswer(ran.guards, i, "REQUEST_CONFIRMATION")
                      /\ ran.waived
                      /\ ran.envelope = submitted
                /\ i > 1 => CanProposeWithOrigin(ran.envelope.taint,
                                                 ran.envelope.origin, policy)
           \/ /\ Silent(ran.guards)
              /\ policy.default = "EXECUTE"
              /\ CanProposeWithOrigin(ran.envelope.taint, ran.envelope.origin,
                                      policy)

\* What runs is trusted no more than what was submitted.  (gateRewrite)
NeverElevates ==
    ran # Nothing => Rank[ran.envelope.taint] <= Rank[submitted.taint]

\* A submission that fails the taint gate, by its level or by its origin, leads
\* to no run, not even of a rewritten envelope, unless a state guard took the
\* decision before the gate.  (canProposeWithOrigin before auth and business)
GateOnSubmission ==
    ran # Nothing /\ ~ran.ruled =>
        CanProposeWithOrigin(submitted.taint, submitted.origin, policy)
===============================================================================
