----------------------- MODULE AdjudicateAndAuditProofs -----------------------
(***************************************************************************)
(* Proofs about AdjudicateAndAudit, for any number of attempts and hashes: *)
(* its type invariant, its safety invariants, the release discipline, to   *)
(* whom a suppressed attempt yields, and that it implements OnceOnly.      *)
(***************************************************************************)
EXTENDS AdjudicateAndAudit, TLAPS

-------------------------------------------------------------------------------
(* The inductive invariant. *)

\* What is known of an attempt by the phase it is in.
PhaseInv ==
    \A c \in Calls :
        /\ pc[c] \in {"idle", "check", "decide", "claim"} => ~acquired[c]
        /\ pc[c] \in {"idle", "check", "decide", "claim", "emit"} => ~threw[c]
        /\ pc[c] \in {"idle", "check", "decide"} => verdict[c] = "NONE"
        /\ pc[c] = "claim" => verdict[c] \in Executing
        /\ pc[c] \in {"emit", "release", "finally", "returned", "done"} =>
            verdict[c] # "NONE"
        /\ pc[c] \in {"emit", "finally", "returned", "done"} =>
            (verdict[c] \in Executing => acquired[c])
        /\ pc[c] = "release" => threw[c] /\ acquired[c]
        /\ pc[c] \in {"returned", "done"} => ~threw[c]
        /\ pc[c] = "rejected" => threw[c]

\* The ledger key of a hash belongs to an attempt on that hash, and an attempt
\* keeps its key until its catch block has run.
ClaimInv ==
    /\ \A h \in Hashes, c \in Calls : ledger[h] = c =>
        subject[c] = h /\ (acquired[c] \/ pc[c] = "aborted")
    /\ \A c \in Calls : acquired[c] /\ (~threw[c] \/ pc[c] = "release") =>
        ledger[subject[c]] = c

\* An attempt on its way to the executor has its record.
RowInv ==
    \A c \in Calls :
        /\ pc[c] \in {"finally", "returned", "done"}
        /\ ~threw[c]
        => [call |-> c, hash |-> subject[c], verdict |-> verdict[c]] \in rows

\* Effects are those of finished, claiming attempts.
EffectInv ==
    \A c \in Calls, h \in Hashes : <<c, h>> \in effects =>
        /\ pc[c] = "done"
        /\ subject[c] = h
        /\ verdict[c] \in Executing

\* A failed attempt on its way out has freed its key or reported it.
OrphanInv ==
    \A c \in Calls :
        pc[c] \in {"finally", "rejected"} /\ threw[c] /\ ledger[subject[c]] = c
            => c \in orphans

IndInv ==
    /\ TypeOK
    /\ PhaseInv
    /\ ClaimInv
    /\ RowInv
    /\ EffectInv
    /\ OrphanInv
    /\ CountedWhileItMayRun

-------------------------------------------------------------------------------
(* The named disjuncts of Next, with the inputs of the attempt picked. *)

Step(c) ==
    \/ \E killed \in BOOLEAN : Begin(c, killed)
    \/ CheckLedger(c)
    \/ \E first, second \in KernelDecisions, granted \in BOOLEAN,
          rewritten \in Hashes :
        Adjudicate(c, first, granted, second, rewritten)
    \/ Claim(c)
    \/ \E landed, ok \in BOOLEAN : Emit(c, landed, ok)
    \/ \E answered \in BOOLEAN : Release(c, answered)
    \/ \E rolledBack \in BOOLEAN : Finally(c, rolledBack)
    \/ \E gated \in BOOLEAN : Translate(c, gated)
    \/ LedgerUnavailable(c)
    \/ TelemetryThrows(c)
    \/ Crash(c)

LEMMA NextIsStep ==
    ASSUME Next
    PROVE  \E c \in Calls : Step(c)
BY DEF Next, Step, Proceed, Fail, Decides

\* The decision step 2b settles on is one the kernel knows, and a REWRITE
\* survives only as a validated one.
LEMMA FinalDecision ==
    ASSUME NEW first \in KernelDecisions, NEW second \in KernelDecisions,
           NEW granted \in BOOLEAN
    PROVE  (IF Override(first, granted) = "REWRITE"
            THEN SecondPass(second) ELSE Override(first, granted))
               \in KernelDecisions
BY DEF Override, SecondPass, KernelDecisions

\* Every action keeps the types.
LEMMA TypeStep ==
    ASSUME TypeOK, PhaseInv, NEW c \in Calls, Step(c)
    PROVE  TypeOK'
<1> USE DEF TypeOK, Phases, Running, Ended, Verdicts, Go, Decide,
           KernelDecisions, Row, PhaseInv
<1>1. CASE \E killed \in BOOLEAN : Begin(c, killed)
  BY <1>1 DEF Begin, KillVerdict
<1>2. CASE CheckLedger(c)
  BY <1>2 DEF CheckLedger
<1>3. CASE \E first, second \in KernelDecisions, granted \in BOOLEAN,
                  rewritten \in Hashes :
                 Adjudicate(c, first, granted, second, rewritten)
  BY <1>3 DEF Adjudicate, Override, SecondPass, KernelDecisions
<1>4. CASE Claim(c)
  <2>1. subject[c] \in Hashes
    OBVIOUS
  <2>2. ledger' \in [Hashes -> Calls \cup {NoCall}]
    BY <1>4, <2>1 DEF Claim, Acquires
  <2>3. acquired' \in [Calls -> BOOLEAN] /\ verdict' \in [Calls -> Verdicts \cup {"NONE"}]
    BY <1>4 DEF Claim, Acquires
  <2> QED BY <1>4, <2>2, <2>3 DEF Claim, Acquires
<1>5. CASE \E landed, ok \in BOOLEAN : Emit(c, landed, ok)
  BY <1>5 DEF Emit, Releases, Rethrows
<1>6. CASE \E answered \in BOOLEAN : Release(c, answered)
  BY <1>6 DEF Release, Reports
<1>7. CASE \E rolledBack \in BOOLEAN : Finally(c, rolledBack)
  BY <1>7 DEF Finally, RollsBack
<1>8. CASE \E gated \in BOOLEAN : Translate(c, gated)
  BY <1>8 DEF Translate
<1>9. CASE LedgerUnavailable(c)
  BY <1>9 DEF LedgerUnavailable
<1>10. CASE TelemetryThrows(c)
  BY <1>10 DEF TelemetryThrows
<1>11. CASE Crash(c)
  BY <1>11 DEF Crash
<1> QED
  BY <1>1, <1>2, <1>3, <1>4, <1>5, <1>6, <1>7, <1>8, <1>9, <1>10, <1>11
     DEF Step

\* Every action keeps what the phase of an attempt says of it.
LEMMA PhaseStep ==
    ASSUME TypeOK, PhaseInv, NEW c \in Calls, Step(c)
    PROVE  PhaseInv'
<1> USE DEF TypeOK, Phases, Running, Ended, Verdicts, Executing, Go, Decide,
           PhaseInv
<1>1. CASE \E killed \in BOOLEAN : Begin(c, killed)
  BY <1>1 DEF Begin, KillVerdict
<1>2. CASE CheckLedger(c)
  BY <1>2 DEF CheckLedger
<1>3. CASE \E first, second \in KernelDecisions, granted \in BOOLEAN,
                  rewritten \in Hashes :
                 Adjudicate(c, first, granted, second, rewritten)
  BY <1>3 DEF Adjudicate, Override, SecondPass, KernelDecisions
<1>4. CASE Claim(c)
  BY <1>4 DEF Claim, Acquires
<1>5. CASE \E landed, ok \in BOOLEAN : Emit(c, landed, ok)
  BY <1>5 DEF Emit, Releases, Rethrows
<1>6. CASE \E answered \in BOOLEAN : Release(c, answered)
  BY <1>6 DEF Release, Reports
<1>7. CASE \E rolledBack \in BOOLEAN : Finally(c, rolledBack)
  BY <1>7 DEF Finally, RollsBack
<1>8. CASE \E gated \in BOOLEAN : Translate(c, gated)
  BY <1>8 DEF Translate
<1>9. CASE LedgerUnavailable(c)
  BY <1>9 DEF LedgerUnavailable
<1>10. CASE TelemetryThrows(c)
  BY <1>10 DEF TelemetryThrows
<1>11. CASE Crash(c)
  BY <1>11 DEF Crash
<1> QED
  BY <1>1, <1>2, <1>3, <1>4, <1>5, <1>6, <1>7, <1>8, <1>9, <1>10, <1>11
     DEF Step

\* Every action keeps keys and attempts in agreement.
LEMMA ClaimStep ==
    ASSUME TypeOK, PhaseInv, ClaimInv, NEW c \in Calls, Step(c)
    PROVE  ClaimInv'
<1> USE DEF TypeOK, Phases, Running, Ended, Verdicts, Executing, Go, Decide,
           PhaseInv, ClaimInv
<1>1. CASE \E killed \in BOOLEAN : Begin(c, killed)
  BY <1>1 DEF Begin, KillVerdict
<1>2. CASE CheckLedger(c)
  BY <1>2 DEF CheckLedger
<1>3. CASE \E first, second \in KernelDecisions, granted \in BOOLEAN,
                  rewritten \in Hashes :
                 Adjudicate(c, first, granted, second, rewritten)
  BY <1>3 DEF Adjudicate, Override, SecondPass, KernelDecisions
<1>4. CASE Claim(c)
  <2>1. subject[c] \in Hashes /\ subject' = subject /\ threw' = threw
    BY <1>4 DEF Claim, Acquires
  <2>2. CASE ledger[subject[c]] = NoCall
    <3>1. /\ ledger' = [ledger EXCEPT ![subject[c]] = c]
          /\ acquired' = [acquired EXCEPT ![c] = TRUE]
          /\ pc' = [pc EXCEPT ![c] = "emit"]
      BY <1>4, <2>2 DEF Claim, Acquires
    <3> QED BY <2>1, <2>2, <3>1, <1>4, ConstantsAssumption DEF Claim, Acquires
  <2>3. CASE ledger[subject[c]] # NoCall
    BY <1>4, <2>3 DEF Claim, Acquires
  <2> QED BY <2>2, <2>3
<1>5. CASE \E landed, ok \in BOOLEAN : Emit(c, landed, ok)
  BY <1>5 DEF Emit, Releases, Rethrows
<1>6. CASE \E answered \in BOOLEAN : Release(c, answered)
  <2>1. /\ subject' = subject /\ threw' = threw /\ acquired' = acquired
        /\ pc[c] = "release" /\ pc' = [pc EXCEPT ![c] = "finally"]
        /\ subject[c] \in Hashes /\ ledger[subject[c]] = c
    BY <1>6 DEF Release, Reports
  <2>2. CASE UNCHANGED ledger
    BY <2>1, <2>2
  <2>3. CASE ledger' = [ledger EXCEPT ![subject[c]] = NoCall]
    BY <2>1, <2>3, ConstantsAssumption
  <2> QED BY <1>6, <2>2, <2>3 DEF Release, Reports
<1>7. CASE \E rolledBack \in BOOLEAN : Finally(c, rolledBack)
  BY <1>7 DEF Finally, RollsBack
<1>8. CASE \E gated \in BOOLEAN : Translate(c, gated)
  BY <1>8 DEF Translate
<1>9. CASE LedgerUnavailable(c)
  <2>1. /\ subject' = subject /\ threw' = threw /\ acquired' = acquired
        /\ pc[c] \in {"check", "claim"} /\ pc' = [pc EXCEPT ![c] = "aborted"]
        /\ subject[c] \in Hashes
    BY <1>9 DEF LedgerUnavailable
  <2>2. CASE UNCHANGED ledger
    BY <2>1, <2>2
  <2>3. CASE /\ ledger[subject[c]] = NoCall
             /\ ledger' = [ledger EXCEPT ![subject[c]] = c]
    BY <2>1, <2>3, ConstantsAssumption
  <2> QED BY <1>9, <2>2, <2>3 DEF LedgerUnavailable
<1>10. CASE TelemetryThrows(c)
  BY <1>10 DEF TelemetryThrows
<1>11. CASE Crash(c)
  BY <1>11 DEF Crash
<1> QED
  BY <1>1, <1>2, <1>3, <1>4, <1>5, <1>6, <1>7, <1>8, <1>9, <1>10, <1>11
     DEF Step

\* An attempt reaches the executor only through a landed record.
LEMMA RowStep ==
    ASSUME TypeOK, PhaseInv, RowInv, NEW c \in Calls, Step(c)
    PROVE  RowInv'
<1> USE DEF TypeOK, Phases, Running, Ended, Verdicts, Executing, Go, Decide,
           PhaseInv, RowInv
<1>1. CASE \E killed \in BOOLEAN : Begin(c, killed)
  BY <1>1 DEF Begin, KillVerdict
<1>2. CASE CheckLedger(c)
  BY <1>2 DEF CheckLedger
<1>3. CASE \E first, second \in KernelDecisions, granted \in BOOLEAN,
                  rewritten \in Hashes :
                 Adjudicate(c, first, granted, second, rewritten)
  BY <1>3 DEF Adjudicate, Override, SecondPass, KernelDecisions
<1>4. CASE Claim(c)
  BY <1>4 DEF Claim, Acquires
<1>5. CASE \E landed, ok \in BOOLEAN : Emit(c, landed, ok)
  BY <1>5 DEF Emit, Releases, Rethrows
<1>6. CASE \E answered \in BOOLEAN : Release(c, answered)
  BY <1>6 DEF Release, Reports
<1>7. CASE \E rolledBack \in BOOLEAN : Finally(c, rolledBack)
  BY <1>7 DEF Finally, RollsBack
<1>8. CASE \E gated \in BOOLEAN : Translate(c, gated)
  BY <1>8 DEF Translate
<1>9. CASE LedgerUnavailable(c)
  BY <1>9 DEF LedgerUnavailable
<1>10. CASE TelemetryThrows(c)
  BY <1>10 DEF TelemetryThrows
<1>11. CASE Crash(c)
  BY <1>11 DEF Crash
<1> QED
  BY <1>1, <1>2, <1>3, <1>4, <1>5, <1>6, <1>7, <1>8, <1>9, <1>10, <1>11
     DEF Step

\* Effects stay those of finished attempts.
LEMMA EffectStep ==
    ASSUME TypeOK, PhaseInv, EffectInv, NEW c \in Calls, Step(c)
    PROVE  EffectInv'
<1> USE DEF TypeOK, Phases, Running, Ended, Verdicts, Executing, Go, Decide,
           PhaseInv, EffectInv
<1>1. CASE \E killed \in BOOLEAN : Begin(c, killed)
  BY <1>1 DEF Begin, KillVerdict
<1>2. CASE CheckLedger(c)
  BY <1>2 DEF CheckLedger
<1>3. CASE \E first, second \in KernelDecisions, granted \in BOOLEAN,
                  rewritten \in Hashes :
                 Adjudicate(c, first, granted, second, rewritten)
  BY <1>3 DEF Adjudicate, Override, SecondPass, KernelDecisions
<1>4. CASE Claim(c)
  BY <1>4 DEF Claim, Acquires
<1>5. CASE \E landed, ok \in BOOLEAN : Emit(c, landed, ok)
  BY <1>5 DEF Emit, Releases, Rethrows
<1>6. CASE \E answered \in BOOLEAN : Release(c, answered)
  BY <1>6 DEF Release, Reports
<1>7. CASE \E rolledBack \in BOOLEAN : Finally(c, rolledBack)
  BY <1>7 DEF Finally, RollsBack
<1>8. CASE \E gated \in BOOLEAN : Translate(c, gated)
  BY <1>8 DEF Translate
<1>9. CASE LedgerUnavailable(c)
  BY <1>9 DEF LedgerUnavailable
<1>10. CASE TelemetryThrows(c)
  BY <1>10 DEF TelemetryThrows
<1>11. CASE Crash(c)
  BY <1>11 DEF Crash
<1> QED
  BY <1>1, <1>2, <1>3, <1>4, <1>5, <1>6, <1>7, <1>8, <1>9, <1>10, <1>11
     DEF Step

\* A failed attempt leaves its catch block with its key freed or reported.
LEMMA OrphanStep ==
    ASSUME TypeOK, PhaseInv, ClaimInv, OrphanInv, NEW c \in Calls, Step(c)
    PROVE  OrphanInv'
<1> USE DEF TypeOK, Phases, Running, Ended, Verdicts, Executing, Go, Decide,
           PhaseInv, ClaimInv, OrphanInv
<1>1. CASE \E killed \in BOOLEAN : Begin(c, killed)
  BY <1>1 DEF Begin, KillVerdict
<1>2. CASE CheckLedger(c)
  BY <1>2 DEF CheckLedger
<1>3. CASE \E first, second \in KernelDecisions, granted \in BOOLEAN,
                  rewritten \in Hashes :
                 Adjudicate(c, first, granted, second, rewritten)
  BY <1>3 DEF Adjudicate, Override, SecondPass, KernelDecisions
<1>4. CASE Claim(c)
  BY <1>4 DEF Claim, Acquires
<1>5. CASE \E landed, ok \in BOOLEAN : Emit(c, landed, ok)
  BY <1>5 DEF Emit, Releases, Rethrows
<1>6. CASE \E answered \in BOOLEAN : Release(c, answered)
  <2>1. /\ subject' = subject /\ threw' = threw
        /\ pc[c] = "release" /\ pc' = [pc EXCEPT ![c] = "finally"]
        /\ subject[c] \in Hashes /\ ledger[subject[c]] = c
        /\ orphans \subseteq orphans'
    BY <1>6 DEF Release, Reports
  <2>2. CASE c \in orphans'
    <3>1. \A h \in Hashes : ledger'[h] = ledger[h] \/ ledger'[h] = NoCall
      BY <1>6 DEF Release, Reports
    <3> QED BY <2>1, <2>2, <3>1, ConstantsAssumption
  <2>3. CASE ledger' = [ledger EXCEPT ![subject[c]] = NoCall]
    BY <2>1, <2>3, ConstantsAssumption
  <2> QED BY <1>6, <2>2, <2>3 DEF Release, Reports
<1>7. CASE \E rolledBack \in BOOLEAN : Finally(c, rolledBack)
  BY <1>7 DEF Finally, RollsBack
<1>8. CASE \E gated \in BOOLEAN : Translate(c, gated)
  BY <1>8 DEF Translate
<1>9. CASE LedgerUnavailable(c)
  BY <1>9 DEF LedgerUnavailable
<1>10. CASE TelemetryThrows(c)
  BY <1>10 DEF TelemetryThrows
<1>11. CASE Crash(c)
  BY <1>11 DEF Crash
<1> QED
  BY <1>1, <1>2, <1>3, <1>4, <1>5, <1>6, <1>7, <1>8, <1>9, <1>10, <1>11
     DEF Step

\* Only decisions that execute nothing give their increment back.
LEMMA CountedStep ==
    ASSUME TypeOK, PhaseInv, CountedWhileItMayRun, NEW c \in Calls, Step(c)
    PROVE  CountedWhileItMayRun'
<1> USE DEF TypeOK, Phases, Running, Ended, Verdicts, Executing, Go, Decide,
           PhaseInv, CountedWhileItMayRun
<1>1. CASE \E killed \in BOOLEAN : Begin(c, killed)
  BY <1>1 DEF Begin, KillVerdict
<1>2. CASE CheckLedger(c)
  BY <1>2 DEF CheckLedger
<1>3. CASE \E first, second \in KernelDecisions, granted \in BOOLEAN,
                  rewritten \in Hashes :
                 Adjudicate(c, first, granted, second, rewritten)
  BY <1>3 DEF Adjudicate, Override, SecondPass, KernelDecisions
<1>4. CASE Claim(c)
  BY <1>4 DEF Claim, Acquires
<1>5. CASE \E landed, ok \in BOOLEAN : Emit(c, landed, ok)
  BY <1>5 DEF Emit, Releases, Rethrows
<1>6. CASE \E answered \in BOOLEAN : Release(c, answered)
  BY <1>6 DEF Release, Reports
<1>7. CASE \E rolledBack \in BOOLEAN : Finally(c, rolledBack)
  BY <1>7 DEF Finally, RollsBack
<1>8. CASE \E gated \in BOOLEAN : Translate(c, gated)
  BY <1>8 DEF Translate
<1>9. CASE LedgerUnavailable(c)
  BY <1>9 DEF LedgerUnavailable
<1>10. CASE TelemetryThrows(c)
  BY <1>10 DEF TelemetryThrows
<1>11. CASE Crash(c)
  BY <1>11 DEF Crash
<1> QED
  BY <1>1, <1>2, <1>3, <1>4, <1>5, <1>6, <1>7, <1>8, <1>9, <1>10, <1>11
     DEF Step

-------------------------------------------------------------------------------
(* The invariant holds in every behavior. *)

LEMMA InitInd == Init => IndInv
BY ConstantsAssumption
   DEF Init, IndInv, TypeOK, PhaseInv, ClaimInv, RowInv, EffectInv, OrphanInv,
       CountedWhileItMayRun, Phases, Executing

LEMMA NextInd == IndInv /\ [Next]_vars => IndInv'
<1> SUFFICES ASSUME IndInv, [Next]_vars PROVE IndInv'
  OBVIOUS
<1>1. CASE UNCHANGED vars
  BY <1>1 DEF vars, IndInv, TypeOK, PhaseInv, ClaimInv, RowInv, EffectInv,
              OrphanInv, CountedWhileItMayRun
<1>2. CASE Next
  <2>1. PICK c \in Calls : Step(c)
    BY <1>2, NextIsStep
  <2>2. TypeOK' /\ PhaseInv'
    BY <2>1, TypeStep, PhaseStep DEF IndInv
  <2>3. ClaimInv' /\ RowInv'
    BY <2>1, ClaimStep, RowStep DEF IndInv
  <2>4. EffectInv' /\ OrphanInv' /\ CountedWhileItMayRun'
    BY <2>1, EffectStep, OrphanStep, CountedStep DEF IndInv
  <2> QED BY <2>2, <2>3, <2>4 DEF IndInv
<1> QED BY <1>1, <1>2

LEMMA Inductive == Spec => []IndInv
BY InitInd, NextInd, PTL DEF Spec

\* Every variable keeps its type: TypeOK of the run safety, for every instance.
THEOREM TypeCorrect == Spec => []TypeOK
<1>1. IndInv => TypeOK
  BY DEF IndInv
<1> QED BY <1>1, Inductive, PTL

\* An attempt with an effect still owns the key of its hash.
LEMMA EffectOwnsKey ==
    ASSUME IndInv, NEW c \in Calls, NEW h \in Hashes, <<c, h>> \in effects
    PROVE  ledger[h] = c /\ pc[c] = "done"
BY DEF IndInv, EffectInv, PhaseInv, ClaimInv

\* The effect of an intent hash happens at most once (step 3 of
\* adjudicateAndAudit with SET NX, and a release only by the claimant whose
\* emit failed).
THEOREM AtMostOnceHolds == Spec => []AtMostOnce
<1>1. IndInv => AtMostOnce
  <2> SUFFICES ASSUME IndInv, NEW e1 \in effects, NEW e2 \in effects,
                      e1[2] = e2[2]
               PROVE  e1 = e2
    BY DEF AtMostOnce
  <2>1. PICK c \in Calls, h \in Hashes : e1 = <<c, h>>
    BY DEF IndInv, TypeOK
  <2>2. PICK d \in Calls : e2 = <<d, h>>
    BY <2>1 DEF IndInv, TypeOK
  <2>3. ledger[h] = c /\ ledger[h] = d
    BY <2>1, <2>2, EffectOwnsKey
  <2> QED BY <2>1, <2>2, <2>3
<1> QED BY <1>1, Inductive, PTL

\* The executor runs only on audited bytes, under the attempt's own claim (the
\* awaited emit precedes the return to the adapter).
THEOREM EffectIsCoveredHolds == Spec => []EffectIsCovered
<1>1. IndInv => EffectIsCovered
  <2> SUFFICES ASSUME IndInv, NEW e \in effects
               PROVE  /\ ledger[e[2]] = e[1]
                      /\ \E r \in rows : /\ r.call = e[1] /\ r.hash = e[2]
                                        /\ r.verdict \in Executing
    BY DEF EffectIsCovered
  <2>1. PICK c \in Calls, h \in Hashes : e = <<c, h>>
    BY DEF IndInv, TypeOK
  <2>2. /\ ledger[h] = c /\ subject[c] = h /\ verdict[c] \in Executing
        /\ [call |-> c, hash |-> subject[c], verdict |-> verdict[c]] \in rows
    BY <2>1, EffectOwnsKey DEF IndInv, EffectInv, RowInv, PhaseInv
  <2> QED BY <2>1, <2>2
<1> QED BY <1>1, Inductive, PTL

\* A call whose audit emission failed leaves no unreported key behind (the
\* catch block).
THEOREM NoSilentOrphanHolds == Spec => []NoSilentOrphan
<1>1. IndInv => NoSilentOrphan
  BY DEF IndInv, NoSilentOrphan, OrphanInv, PhaseInv
<1> QED BY <1>1, Inductive, PTL

\* The rate-limit counter keeps every attempt that executes (the finally block).
THEOREM CountedHolds == Spec => []CountedWhileItMayRun
<1>1. IndInv => CountedWhileItMayRun
  BY DEF IndInv
<1> QED BY <1>1, Inductive, PTL

-------------------------------------------------------------------------------
(* Whoever is suppressed yields to another. *)

\* An attempt wrote a key, or may have: a SET that was applied and whose answer
\* was lost aborts an attempt that was about to execute.
Claimed(d) == acquired[d] \/ (pc[d] = "aborted" /\ verdict[d] \in Executing)

\* Another attempt on the hash of c did so.
Preceded(c, d) == d # c /\ subject[d] = subject[c] /\ Claimed(d)

SuppressedInv ==
    /\ \A h \in Hashes, d \in Calls : ledger[h] = d => Claimed(d)
    /\ \A c \in Calls :
          verdict[c] = "REPLAY_SUPPRESSED" => \E d \in Calls : Preceded(c, d)

\* An attempt that finds a key is not its writer.
LEMMA KeyOfAnother ==
    ASSUME IndInv, SuppressedInv, NEW c \in Calls, pc[c] \in {"check", "claim"},
           ledger[subject[c]] # NoCall
    PROVE  \E d \in Calls : Preceded(c, d)
<1>1. ledger[subject[c]] \in Calls
  BY DEF IndInv, TypeOK
<1> QED
  BY <1>1 DEF IndInv, PhaseInv, ClaimInv, TypeOK, SuppressedInv, Preceded, Claimed

\* Who has claimed has claimed for good, and for the hash he has then.
LEMMA ClaimedStays ==
    ASSUME IndInv, NEW c \in Calls, Step(c), NEW d \in Calls, Claimed(d)
    PROVE  Claimed(d)' /\ subject'[d] = subject[d]
<1> USE DEF IndInv, TypeOK, PhaseInv, Go, Decide
<1>1. pc[d] # "decide" /\ pc[d] # "idle"
  BY DEF Claimed
<1>2. acquired[d] => acquired'[d]
  BY DEF Step, Begin, CheckLedger, Adjudicate, Claim, Emit, Release, Finally,
         Translate, LedgerUnavailable, TelemetryThrows, Crash
<1>3. subject'[d] = subject[d]
  BY <1>1 DEF Step, Begin, CheckLedger, Adjudicate, Claim, Emit, Release, Finally,
              Translate, LedgerUnavailable, TelemetryThrows, Crash
<1>4. pc[d] = "aborted" => pc'[d] = "aborted" /\ verdict'[d] = verdict[d]
  BY DEF Step, Begin, CheckLedger, Adjudicate, Claim, Emit, Release, Finally,
         Translate, LedgerUnavailable, TelemetryThrows, Crash, Running
<1> QED
  BY <1>2, <1>3, <1>4 DEF Claimed

\* A key is written by whoever claims it.
LEMMA OwnersClaimed ==
    ASSUME IndInv, SuppressedInv, NEW c \in Calls, Step(c),
           NEW h \in Hashes, NEW d \in Calls, ledger'[h] = d
    PROVE  Claimed(d)'
<1> USE DEF IndInv, TypeOK
<1>1. CASE ledger[h] = d
  BY <1>1, ClaimedStays DEF SuppressedInv
<1>2. CASE ledger[h] # d
  <2>1. NoCall \notin Calls
    BY ConstantsAssumption
  <2>2. \/ d = c /\ acquired'[c]
        \/ d = c /\ pc[c] = "claim" /\ pc'[c] = "aborted" /\ verdict' = verdict
    BY <1>2, <2>1
       DEF Step, Begin, CheckLedger, Adjudicate, Claim, Emit, Release, Finally,
           Translate, LedgerUnavailable, TelemetryThrows, Crash, Go
  <2> QED
    BY <2>2 DEF Claimed, PhaseInv
<1> QED
  BY <1>1, <1>2

LEMMA SuppressedStep ==
    ASSUME IndInv, SuppressedInv, NEW c \in Calls, Step(c)
    PROVE  SuppressedInv'
<1> SUFFICES ASSUME NEW b \in Calls, verdict'[b] = "REPLAY_SUPPRESSED"
             PROVE  \E d \in Calls : Preceded(b, d)'
  BY OwnersClaimed DEF SuppressedInv
<1>1. \/ verdict[b] = "REPLAY_SUPPRESSED"
      \/ /\ b = c /\ pc[c] \in {"check", "claim"}
         /\ ledger[subject[c]] # NoCall
  <2> USE DEF IndInv, TypeOK, Go, Decide
  <2>1. CASE \E first, second \in KernelDecisions, granted \in BOOLEAN,
                rewritten \in Hashes :
               Adjudicate(c, first, granted, second, rewritten)
    <3>1. PICK v \in KernelDecisions : verdict' = [verdict EXCEPT ![c] = v]
      BY <2>1, FinalDecision DEF Adjudicate
    <3> QED
      BY <3>1 DEF KernelDecisions
  <2>2. CASE \E killed \in BOOLEAN : Begin(c, killed)
    BY <2>2 DEF Begin, KillVerdict
  <2>3. CASE CheckLedger(c) \/ Claim(c)
    BY <2>3 DEF CheckLedger, Claim, Acquires
  <2>4. CASE \/ \E landed, ok \in BOOLEAN : Emit(c, landed, ok)
             \/ \E answered \in BOOLEAN : Release(c, answered)
             \/ \E rolledBack \in BOOLEAN : Finally(c, rolledBack)
             \/ \E gated \in BOOLEAN : Translate(c, gated)
             \/ LedgerUnavailable(c) \/ TelemetryThrows(c) \/ Crash(c)
    BY <2>4 DEF Emit, Release, Finally, Translate, LedgerUnavailable,
                TelemetryThrows, Crash
  <2> QED
    BY <2>1, <2>2, <2>3, <2>4 DEF Step
<1>2. PICK d \in Calls : Preceded(b, d)
  BY <1>1, KeyOfAnother DEF SuppressedInv
<1>3. pc[b] # "decide"
  BY <1>1 DEF IndInv, PhaseInv
<1>4. subject'[b] = subject[b]
  BY <1>3 DEF Step, Begin, CheckLedger, Adjudicate, Claim, Emit, Release, Finally,
              Translate, LedgerUnavailable, TelemetryThrows, Crash, Go, IndInv,
              TypeOK
<1> QED
  BY <1>2, <1>4, ClaimedStays DEF Preceded

\* An attempt is told that its hash was processed only because another attempt
\* on that very hash, the rewritten one included, claimed it or was cut off while
\* claiming it: no attempt is suppressed by itself or for another hash.
\* (checkLedger, and the outcome of recordExecution)
THEOREM SuppressedByAnother ==
    Spec => [](\A c \in Calls : verdict[c] = "REPLAY_SUPPRESSED" =>
                  \E d \in Calls \ {c} :
                      subject[d] = subject[c] /\ Claimed(d))
<1>1. Init => SuppressedInv
  BY ConstantsAssumption DEF Init, SuppressedInv
<1>2. IndInv /\ SuppressedInv /\ [Next]_vars => SuppressedInv'
  <2> SUFFICES ASSUME IndInv, SuppressedInv, [Next]_vars
               PROVE  SuppressedInv'
    OBVIOUS
  <2>1. CASE UNCHANGED vars
    BY <2>1 DEF vars, SuppressedInv, Preceded, Claimed
  <2>2. CASE Next
    BY <2>2, NextIsStep, SuppressedStep
  <2> QED
    BY <2>1, <2>2
<1>3. SuppressedInv =>
        \A c \in Calls : verdict[c] = "REPLAY_SUPPRESSED" =>
            \E d \in Calls \ {c} :
                subject[d] = subject[c] /\ Claimed(d)
  BY DEF SuppressedInv, Preceded
<1> QED
  BY <1>1, <1>2, <1>3, Inductive, PTL DEF Spec

-------------------------------------------------------------------------------
(* What a step may do to the ledger and the effects, and the two results about *)
(* steps that follow from it.                                                  *)

\* A step leaves the ledger and the effects alone, takes a free key, gives back
\* the key of a failed attempt, or performs the effect of a held hash.
LEMMA LedgerStep ==
    ASSUME IndInv, NEW c \in Calls, Step(c)
    PROVE  \/ UNCHANGED <<ledger, effects>>
           \/ \E h \in Hashes :
                /\ ledger[h] = NoCall
                /\ ledger' = [ledger EXCEPT ![h] = c]
                /\ UNCHANGED effects
           \/ \E h \in Hashes :
                /\ ledger[h] = c /\ pc[c] = "release" /\ threw[c]
                /\ ledger' = [ledger EXCEPT ![h] = NoCall]
                /\ UNCHANGED effects
           \/ \E h \in Hashes :
                /\ ledger[h] = c /\ pc[c] = "returned"
                /\ effects' = effects \cup {<<c, h>>}
                /\ UNCHANGED ledger
<1> USE DEF IndInv, TypeOK, Go, Decide
<1>1. subject[c] \in Hashes
  OBVIOUS
<1>2. CASE \E killed \in BOOLEAN : Begin(c, killed)
  BY <1>2 DEF Begin, KillVerdict
<1>3. CASE CheckLedger(c)
  BY <1>3 DEF CheckLedger
<1>4. CASE \E first, second \in KernelDecisions, granted \in BOOLEAN,
              rewritten \in Hashes :
             Adjudicate(c, first, granted, second, rewritten)
  BY <1>4 DEF Adjudicate
<1>5. CASE Claim(c)
  BY <1>1, <1>5 DEF Claim, Acquires
<1>6. CASE \E landed, ok \in BOOLEAN : Emit(c, landed, ok)
  BY <1>6 DEF Emit, Releases, Rethrows
<1>7. CASE \E answered \in BOOLEAN : Release(c, answered)
  <2>1. /\ pc[c] = "release" /\ threw[c] /\ ledger[subject[c]] = c
        /\ UNCHANGED effects
    BY <1>7 DEF Release, Reports, PhaseInv, ClaimInv
  <2>2. \/ ledger' = [ledger EXCEPT ![subject[c]] = NoCall]
        \/ UNCHANGED ledger
    BY <1>7 DEF Release, Reports
  <2> QED BY <1>1, <2>1, <2>2
<1>8. CASE \E rolledBack \in BOOLEAN : Finally(c, rolledBack)
  BY <1>8 DEF Finally, RollsBack
<1>9. CASE \E gated \in BOOLEAN : Translate(c, gated)
  <2>1. pc[c] = "returned" /\ UNCHANGED ledger
    BY <1>9 DEF Translate
  <2>2. CASE verdict[c] \in Executing
    <3>1. ledger[subject[c]] = c
      BY <2>1, <2>2 DEF PhaseInv, ClaimInv
    <3>2. effects' = effects \cup {<<c, subject[c]>>} \/ UNCHANGED effects
      BY <1>9 DEF Translate
    <3> QED BY <1>1, <2>1, <3>1, <3>2
  <2>3. CASE verdict[c] \notin Executing
    BY <1>9, <2>1, <2>3 DEF Translate
  <2> QED BY <2>2, <2>3
<1>10. CASE LedgerUnavailable(c)
  BY <1>1, <1>10 DEF LedgerUnavailable
<1>11. CASE TelemetryThrows(c)
  BY <1>11 DEF TelemetryThrows
<1>12. CASE Crash(c)
  BY <1>12 DEF Crash
<1> QED
  BY <1>2, <1>3, <1>4, <1>5, <1>6, <1>7, <1>8, <1>9, <1>10, <1>11, <1>12
     DEF Step

\* A key disappears only in the catch block of the attempt that wrote it.
THEOREM OnlyOwnerReleasesHolds == Spec => OnlyOwnerReleases
<1> DEFINE Discipline ==
      \A h \in Hashes :
        ledger'[h] # ledger[h] /\ ledger[h] # NoCall =>
            /\ pc[ledger[h]] = "release"
            /\ threw[ledger[h]]
            /\ ledger'[h] = NoCall
<1>1. IndInv /\ [Next]_vars => [Discipline]_vars
  <2> SUFFICES ASSUME IndInv, Next PROVE Discipline
    BY DEF vars
  <2>1. PICK c \in Calls : Step(c)
    BY NextIsStep
  <2> QED BY <2>1, LedgerStep, ConstantsAssumption DEF IndInv, TypeOK
<1> QED BY <1>1, Inductive, PTL DEF Spec, OnlyOwnerReleases

\* adjudicateAndAudit over the ledger implements the abstract promise.
THEOREM Refinement == Spec => ImplementsOnceOnly
<1>1. Init => Abstract!Init
  BY DEF Init, Abstract!Init, Held, By
<1>2. IndInv /\ [Next]_vars => [Abstract!Next]_<<Held, By>>
  <2> SUFFICES ASSUME IndInv, [Next]_vars
               PROVE  Abstract!Next \/ UNCHANGED <<Held, By>>
    OBVIOUS
  <2>1. CASE UNCHANGED vars
    BY <2>1 DEF vars, Held, By
  <2>2. CASE Next
    <3>1. PICK c \in Calls : Step(c)
      BY <2>2, NextIsStep
    <3>2. CASE UNCHANGED <<ledger, effects>>
      BY <3>2 DEF Held, By
    <3>3. ASSUME NEW h \in Hashes, ledger[h] = NoCall, UNCHANGED effects,
                 ledger' = [ledger EXCEPT ![h] = c]
          PROVE  Abstract!Acquire(h)
      <4>1. \A d \in Calls : <<d, h>> \notin effects
        BY <3>3, EffectOwnsKey, ConstantsAssumption
      <4> QED
        BY <3>3, <4>1, ConstantsAssumption
           DEF Abstract!Acquire, Held, By, IndInv, TypeOK
    <3>4. ASSUME NEW h \in Hashes, ledger[h] = c, pc[c] = "release",
                 UNCHANGED effects, ledger' = [ledger EXCEPT ![h] = NoCall]
          PROVE  Abstract!GiveBack(h)
      <4>1. \A d \in Calls : <<d, h>> \notin effects
        BY <3>4, EffectOwnsKey
      <4> QED
        BY <3>4, <4>1, ConstantsAssumption
           DEF Abstract!GiveBack, Held, By, IndInv, TypeOK
    <3>5. ASSUME NEW h \in Hashes, ledger[h] = c, pc[c] = "returned",
                 effects' = effects \cup {<<c, h>>}, UNCHANGED ledger
          PROVE  Abstract!Perform(h, c)
      <4>1. \A d \in Calls : <<d, h>> \notin effects
        BY <3>5, EffectOwnsKey
      <4>2. By[h] = {} /\ By' = [By EXCEPT ![h] = {c}]
        BY <3>5, <4>1 DEF By
      <4>3. Held[h] /\ UNCHANGED Held
        BY <3>5, ConstantsAssumption DEF Held
      <4> QED
        BY <4>2, <4>3 DEF Abstract!Perform
    <3> QED
      BY <3>1, <3>2, <3>3, <3>4, <3>5, LedgerStep DEF Abstract!Next
  <2> QED BY <2>1, <2>2
<1> QED
  BY <1>1, <1>2, Inductive, PTL DEF Spec, ImplementsOnceOnly, Abstract!Spec

===============================================================================
