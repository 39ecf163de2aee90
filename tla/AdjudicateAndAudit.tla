-------------------------- MODULE AdjudicateAndAudit --------------------------
(***************************************************************************)
(* The impure shell around the kernel: adjudicateAndAudit (@adjudicate/    *)
(* core) over the Redis execution ledger (@adjudicate/audit), followed by  *)
(* the adapter's executor (adapter-core runExecute).                       *)
(*                                                                         *)
(* Calls are concurrent attempts, in any number of processes; two attempts *)
(* may present the same intent hash (a retry, a duplicate delivery, two    *)
(* replicas).  One action is the code between two awaits; the effect of a  *)
(* Redis command is the step that issues it.  A decision is any decision   *)
(* the pure kernel can return: the policy is the adopter's.                *)
(***************************************************************************)
CONSTANTS
    Calls,      \* attempts: invocations of adjudicateAndAudit
    Hashes,     \* intent hashes
    NoCall,     \* ledger entry: key absent
    HasRelease, \* the ledger exposes the optional release method
    Faults      \* faults a run admits: subset of FaultKinds

FaultKinds == {"ledger_io", "telemetry", "crash"}

ASSUME ConstantsAssumption ==
    /\ NoCall \notin Calls
    /\ HasRelease \in BOOLEAN
    /\ Faults \subseteq FaultKinds

VARIABLES
    pc,       \* where each attempt stands
    subject,  \* executedEnvelope.intentHash of each attempt
    verdict,  \* the attempt's decision, "NONE" before there is one
    acquired, \* ledgerAcquired
    threw,    \* sink.emit (or the signer) threw
    ledger,   \* key ledger:intent:<hash>: the attempt that wrote it, or NoCall
    rows,     \* audit records durably landed
    effects,  \* <<attempt, hash>> whose executor was invoked
    counted,  \* attempts whose rate-limit increment stands
    orphans   \* attempts whose stuck claim was reported to the metrics sink

vars == <<pc, subject, verdict, acquired, threw, ledger, rows, effects,
          counted, orphans>>

KernelDecisions ==
    {"EXECUTE", "REWRITE", "REQUEST_CONFIRMATION", "DEFER", "ESCALATE",
     "REFUSE"}

\* REPLAY_SUPPRESSED is a REFUSE with the code ledger_replay_suppressed.
Verdicts == KernelDecisions \cup {"REPLAY_SUPPRESSED"}

\* A REWRITE that is still the decision after step 2b was validated.
Executing == {"EXECUTE", "REWRITE"}

\* The phases of an attempt; the second set holds those that end it.
Running == {"check", "decide", "claim", "emit", "release",
            "finally", "returned"}
Ended == {"done", "rejected", "aborted", "crashed"}
Phases == {"idle"} \cup Running \cup Ended

Row == [call : Calls, hash : Hashes, verdict : Verdicts]

TypeOK ==
    /\ pc \in [Calls -> Phases]
    /\ subject \in [Calls -> Hashes]
    /\ verdict \in [Calls -> Verdicts \cup {"NONE"}]
    /\ acquired \in [Calls -> BOOLEAN]
    /\ threw \in [Calls -> BOOLEAN]
    /\ ledger \in [Hashes -> Calls \cup {NoCall}]
    /\ rows \subseteq Row
    /\ effects \subseteq Calls \X Hashes
    /\ counted \subseteq Calls
    /\ orphans \subseteq Calls

Init ==
    /\ pc = [c \in Calls |-> "idle"]
    /\ subject \in [Calls -> Hashes]
    /\ verdict = [c \in Calls |-> "NONE"]
    /\ acquired = [c \in Calls |-> FALSE]
    /\ threw = [c \in Calls |-> FALSE]
    /\ ledger = [h \in Hashes |-> NoCall]
    /\ rows = {}
    /\ effects = {}
    /\ counted = {}
    /\ orphans = {}

Go(c, from, to) ==
    /\ pc[c] = from
    /\ pc' = [pc EXCEPT ![c] = to]

Decide(c, v) == verdict' = [verdict EXCEPT ![c] = v]

-------------------------------------------------------------------------------
(* The attempt, await by await. *)

\* The tenant kill switch refuses before the kernel is asked.
KillVerdictMissing(killed) == "NONE"
KillVerdict(killed) == IF killed THEN "REFUSE" ELSE "NONE"

\* The adopter counts the request (checkRateLimit), then the tenant kill
\* switch is read.  A missing or throwing switch counts as active.
Begin(c, killed) ==
    /\ Go(c, "idle", IF killed THEN "emit" ELSE "check")
    /\ counted' = counted \cup {c}
    /\ Decide(c, KillVerdict(killed))
    /\ UNCHANGED <<subject, acquired, threw, ledger, rows, effects, orphans>>

\* ledger.checkLedger on the presented hash.
CheckLedger(c) ==
    /\ IF ledger[subject[c]] # NoCall
       THEN Go(c, "check", "emit") /\ Decide(c, "REPLAY_SUPPRESSED")
       ELSE Go(c, "check", "decide") /\ UNCHANGED verdict
    /\ UNCHANGED <<subject, acquired, threw, ledger, rows, effects, counted,
                   orphans>>

\* Steps 2a and 2a': a matching confirmation receipt or budget grant turns
\* REQUEST_CONFIRMATION, and nothing else, into EXECUTE.
Override(decision, granted) ==
    IF decision = "REQUEST_CONFIRMATION" /\ granted THEN "EXECUTE" ELSE decision

\* Step 2b: the decision a REWRITE becomes after its single second pass.
SecondPass(second) ==
    CASE second = "EXECUTE" -> "REWRITE"
      [] second = "REWRITE" -> "REFUSE"
      [] OTHER -> second

\* Steps 2-2b.  A rewritten envelope has a hash of its own, which no
\* checkLedger consulted.
Adjudicate(c, first, granted, second, rewritten) ==
    LET decision == Override(first, granted)
        final == IF decision = "REWRITE" THEN SecondPass(second) ELSE decision
    IN  /\ Go(c, "decide", IF final \in Executing THEN "claim" ELSE "emit")
        /\ Decide(c, final)
        /\ subject' = IF final = "REWRITE"
                      THEN [subject EXCEPT ![c] = rewritten] ELSE subject
        /\ UNCHANGED <<acquired, threw, ledger, rows, effects, counted, orphans>>

\* recordExecution answers "acquired" to the first writer of the key.
OutcomeIgnored(c) == TRUE
Acquires(c) == ledger[subject[c]] = NoCall

\* Step 3: recordExecution, SET NX on the executed hash.
Claim(c) ==
    /\ Go(c, "claim", "emit")
    /\ IF Acquires(c)
       THEN /\ ledger' = [ledger EXCEPT ![subject[c]] = c]
            /\ acquired' = [acquired EXCEPT ![c] = TRUE]
            /\ UNCHANGED verdict
       ELSE /\ Decide(c, "REPLAY_SUPPRESSED")
            /\ UNCHANGED <<ledger, acquired>>
    /\ UNCHANGED <<subject, threw, rows, effects, counted, orphans>>

\* The catch block releases only a key this attempt acquired.
ReleasesAnyKey(c, ok) == ~ok
ReleasesNoKey(c, ok) == FALSE
Releases(c, ok) == ~ok /\ acquired[c]

\* A failed emission is rethrown, never swallowed.
Swallows(ok) == FALSE
Rethrows(ok) == ~ok

\* Steps 4-6: metrics and learning events, then the record is built, signed and
\* emitted in the try block.  A throw does not say whether the record landed
\* (one of several sinks failed, the answer was lost).
Emit(c, landed, ok) ==
    /\ ok => landed
    /\ Go(c, "emit", IF Releases(c, ok) THEN "release" ELSE "finally")
    /\ threw' = [threw EXCEPT ![c] = Rethrows(ok)]
    /\ rows' = IF landed
               THEN rows \cup {[call |-> c, hash |-> subject[c],
                                verdict |-> verdict[c]]}
               ELSE rows
    /\ UNCHANGED <<subject, verdict, acquired, ledger, effects, counted, orphans>>

\* The ledger cannot release, or its release threw: the orphan is reported.
ReportsNothing(answered) == FALSE
Reports(answered) == ~(HasRelease /\ answered)

\* The catch block: DEL of the claimed key, or the orphan is reported.
Release(c, answered) ==
    /\ Go(c, "release", "finally")
    /\ orphans' = IF Reports(answered) THEN orphans \cup {c} ELSE orphans
    /\ \/ /\ HasRelease
          /\ ledger' = [ledger EXCEPT ![subject[c]] = NoCall]
       \/ /\ ~(HasRelease /\ answered)
          /\ UNCHANGED ledger
    /\ UNCHANGED <<subject, verdict, acquired, threw, rows, effects, counted>>

\* Only a decision that executes nothing gives its increment back.
RollsBackRewrites(c) == verdict[c] # "EXECUTE"
RollsBack(c) == verdict[c] \notin Executing

\* The finally block: every non-executing decision gives its increment back
\* (a failed rollback is swallowed); then the call returns or rethrows.
Finally(c, rolledBack) ==
    /\ Go(c, "finally", IF threw[c] THEN "rejected" ELSE "returned")
    /\ counted' = IF RollsBack(c) /\ rolledBack
                  THEN counted \ {c} ELSE counted
    /\ UNCHANGED <<subject, verdict, acquired, threw, ledger, rows, effects,
                   orphans>>

\* The adapter translates the decision.  EXECUTE and REWRITE reach the
\* executor unless the resource binding or the capability gate refuses; an
\* executor that throws has run, and leaves the key claimed.
Translate(c, gated) ==
    /\ Go(c, "returned", "done")
    /\ effects' = IF verdict[c] \in Executing /\ ~gated
                  THEN effects \cup {<<c, subject[c]>>} ELSE effects
    /\ UNCHANGED <<subject, verdict, acquired, threw, ledger, rows, counted,
                   orphans>>

-------------------------------------------------------------------------------
(* Faults *)

\* A ledger command throws: the call rejects before its try block.  A SET
\* whose answer is lost may have been applied.
LedgerUnavailable(c) ==
    /\ "ledger_io" \in Faults
    /\ \/ Go(c, "check", "aborted") /\ UNCHANGED ledger
       \/ /\ Go(c, "claim", "aborted")
          /\ \/ UNCHANGED ledger
             \/ /\ ledger[subject[c]] = NoCall
                /\ ledger' = [ledger EXCEPT ![subject[c]] = c]
    /\ UNCHANGED <<subject, verdict, acquired, threw, rows, effects, counted,
                   orphans>>

\* Steps 4-5: the metrics sink or the plan callback throws before the try block.
TelemetryThrows(c) ==
    /\ "telemetry" \in Faults
    /\ Go(c, "emit", "aborted")
    /\ UNCHANGED <<subject, verdict, acquired, threw, ledger, rows, effects,
                   counted, orphans>>

\* The process of the attempt dies.
Crash(c) ==
    /\ "crash" \in Faults
    /\ pc[c] \in Running
    /\ pc' = [pc EXCEPT ![c] = "crashed"]
    /\ UNCHANGED <<subject, verdict, acquired, threw, ledger, rows, effects,
                   counted, orphans>>

-------------------------------------------------------------------------------
Decides(c) ==
    \E first, second \in KernelDecisions, granted \in BOOLEAN,
       rewritten \in Hashes :
        Adjudicate(c, first, granted, second, rewritten)

\* The steps of an attempt that has begun and whose process lives.
Proceed(c) ==
    \/ CheckLedger(c)
    \/ Decides(c)
    \/ Claim(c)
    \/ \E landed, ok \in BOOLEAN : Emit(c, landed, ok)
    \/ \E answered \in BOOLEAN : Release(c, answered)
    \/ \E rolledBack \in BOOLEAN : Finally(c, rolledBack)
    \/ \E gated \in BOOLEAN : Translate(c, gated)

Fail(c) == LedgerUnavailable(c) \/ TelemetryThrows(c) \/ Crash(c)

Next ==
    \E c \in Calls :
        \/ \E killed \in BOOLEAN : Begin(c, killed)
        \/ Proceed(c)
        \/ Fail(c)

Spec == Init /\ [][Next]_vars

\* The event loop runs every continuation whose command was answered, and
\* the clients answer or throw.  Nothing obliges a caller to begin.
Fairness == \A c \in Calls : WF_vars(Proceed(c))

FairSpec == Spec /\ Fairness

-------------------------------------------------------------------------------
(* Properties *)

\* No intent hash has its side effect performed by two attempts, whatever
\* retries, races past checkLedger, rewrites onto the same hash, aborted emits
\* and crashes happen.  (EXECUTE-race fix, step 3, and the release in the catch)
AtMostOnce ==
    \A e1, e2 \in effects : e1[2] = e2[2] => e1 = e2

\* The executor only runs on bytes whose EXECUTE or REWRITE record is already
\* durable, and while the attempt's own claim protects their hash.  (the await
\* of sink.emit before the return; recordExecution on the executed hash)
EffectIsCovered ==
    \A e \in effects :
        /\ ledger[e[2]] = e[1]
        /\ \E r \in rows :
            r.call = e[1] /\ r.hash = e[2] /\ r.verdict \in Executing

\* The rate-limit counter never loses an attempt that ran its effect or still
\* may: only decisions that execute nothing give their increment back.  (the
\* finally block and its REWRITE carve-out)
CountedWhileItMayRun ==
    \A c \in Calls :
        pc[c] # "idle" /\ verdict[c] \in Executing \cup {"NONE"} => c \in counted

\* A call that failed in its audit emission and returned to its caller leaves
\* no key behind that suppresses the retry, unless the orphan was reported.
\* (the catch block)
NoSilentOrphan ==
    \A c \in Calls :
        pc[c] = "rejected" /\ ledger[subject[c]] = c => c \in orphans

\* A key disappears only by the hand of the attempt that wrote it, in its catch
\* block: a race loser never frees the winner's claim.  (ledgerAcquired)
OnlyOwnerReleases ==
    [][\A h \in Hashes :
        ledger'[h] # ledger[h] /\ ledger[h] # NoCall =>
            /\ pc[ledger[h]] = "release"
            /\ threw[ledger[h]]
            /\ ledger'[h] = NoCall]_vars

\* Once an attempt has claimed a key, the key is eventually used, freed or
\* reported, unless the process dies or its telemetry throws; and if the
\* capability gate refuses the effect the key stays claimed.
ClaimIsResolved ==
    \A c \in Calls :
        acquired[c] ~>
            \/ <<c, subject[c]>> \in effects
            \/ ledger[subject[c]] # c
            \/ c \in orphans
            \/ pc[c] \in {"done", "crashed", "aborted"}

\* The abstract promise: a hash is held while the ledger has its key, and was
\* performed by the attempts whose executor ran on it.
Held == [h \in Hashes |-> ledger[h] # NoCall]
By == [h \in Hashes |-> {c \in Calls : <<c, h>> \in effects}]

Abstract == INSTANCE OnceOnly WITH Performers <- Calls, held <- Held, by <- By

\* Every step of the protocol is a step of OnceOnly, or leaves it alone.
ImplementsOnceOnly == Abstract!Spec

-------------------------------------------------------------------------------
(* Statements of the repository that the code does not keep *)

\* "the audit emit below is the only path that propagates errors": no attempt
\* that held a claim ends in any other error.
OnlyEmitPropagates ==
    \A c \in Calls : acquired[c] => pc[c] # "aborted"

===============================================================================
