------------------------------ MODULE KernelProofs ------------------------------
(***************************************************************************)
(* Proofs about Taint and Kernel: the laws of the lattice, what a decision *)
(* of adjudicate() says about the envelope it is about, and the properties *)
(* of the run of one intent, for every set of contents, levels, origins    *)
(* and answers of guards and for any number of calls.                      *)
(***************************************************************************)
EXTENDS Kernel, TLAPS

-------------------------------------------------------------------------------
(* The lattice *)

\* The meet is the greatest lower bound of two levels.  (mergeTaint)
THEOREM MeetIsGreatestLowerBound ==
    ASSUME NEW a \in Taints, NEW b \in Taints
    PROVE  /\ MergeTaint(a, b) \in Taints
           /\ Rank[MergeTaint(a, b)] <= Rank[a]
           /\ Rank[MergeTaint(a, b)] <= Rank[b]
           /\ \A c \in Taints : Rank[c] <= Rank[a] /\ Rank[c] <= Rank[b] =>
                  Rank[c] <= Rank[MergeTaint(a, b)]
BY DEF MergeTaint, Taints, Rank

\* Levels of equal rank are equal, so that the meet commutes.  (mergeTaint)
THEOREM MeetCommutes ==
    ASSUME NEW a \in Taints, NEW b \in Taints
    PROVE  MergeTaint(a, b) = MergeTaint(b, a)
BY DEF MergeTaint, Taints, Rank

\* What a contaminated session mints passes only gates that it would have
\* passed clean.  (applySessionContamination, canPropose)
THEOREM ContaminationAddsFriction ==
    ASSUME NEW declared \in Taints, NEW flag \in Flags,
           NEW gate \in TaintPolicies,
           CanPropose(ApplySessionContamination(declared, flag), gate)
    PROVE  CanPropose(declared, gate)
<1>1. CASE flag = NoFlag
  BY <1>1 DEF ApplySessionContamination
<1>2. CASE flag \in [taint : Taints] /\ flag # NoFlag
  <2>1. /\ Rank[MergeTaint(declared, flag.taint)] <= Rank[declared]
        /\ MergeTaint(declared, flag.taint) \in Taints
    BY <1>2, MeetIsGreatestLowerBound
  <2>2. /\ Rank[declared] \in Int
        /\ Rank[MergeTaint(declared, flag.taint)] \in Int
        /\ Rank[gate.minimum] \in Int
    BY <2>1 DEF Rank, Taints, TaintPolicies
  <2> QED
    BY <1>2, <2>1, <2>2 DEF ApplySessionContamination, CanPropose
<1> QED
  BY <1>1, <1>2 DEF Flags

-------------------------------------------------------------------------------
(* adjudicate() *)

\* The envelope passes the taint gate.
Gates(e, pol) == CanProposeWithOrigin(e.taint, e.origin, pol)

LEMMA OrderIsPhases ==
    /\ Order[1] = "state" /\ Order[2] = "auth" /\ Order[3] = "business"
    /\ {"state", "auth", "business"} = Phases
BY DEF Order, Phases

\* The first guard that answers, by cases.
LEMMA FirstAnswers ==
    ASSUME NEW guards \in Guards, NEW x
    PROVE  /\ guards["state"] = x => FirstAnswer(guards, 1, x)
           /\ guards["state"] = "none" /\ guards["auth"] = x =>
                  FirstAnswer(guards, 2, x)
           /\ /\ guards["state"] = "none" /\ guards["auth"] = "none"
              /\ guards["business"] = x
              => FirstAnswer(guards, 3, x)
BY OrderIsPhases DEF FirstAnswer

LEMMA ExecuteSays ==
    ASSUME NEW e \in Envelopes, NEW guards \in Guards,
           NEW rewritten \in Envelopes, NEW pol \in Policies,
           NEW switch \in BOOLEAN,
           Adjudicate(e, guards, rewritten, pol, switch) = "EXECUTE"
    PROVE  /\ e.sound /\ ~switch
           /\ \/ \E i \in 1 .. 3 :
                    /\ FirstAnswer(guards, i, "EXECUTE")
                    /\ i > 1 => Gates(e, pol)
              \/ /\ Silent(guards)
                 /\ pol.default = "EXECUTE"
                 /\ Gates(e, pol)
           /\ guards["state"] = "none" => Gates(e, pol)
<1>1. e.sound /\ ~switch
  BY DEF Adjudicate
<1>2. CASE guards["state"] # "none"
  <2>1. guards["state"] = "EXECUTE"
    BY <1>1, <1>2 DEF Adjudicate, Gated
  <2> QED
    BY <1>1, <1>2, <2>1, FirstAnswers
<1>3. CASE guards["state"] = "none"
  <2>1. Gates(e, pol)
    BY <1>1, <1>3 DEF Adjudicate, Gates, PassesTaint
  <2>2. CASE guards["auth"] # "none"
    <3>1. guards["auth"] = "EXECUTE"
      BY <1>1, <1>3, <2>1, <2>2 DEF Adjudicate, Gated, Gates, PassesTaint
    <3> QED
      BY <1>1, <1>3, <2>1, <3>1, FirstAnswers
  <2>3. CASE guards["auth"] = "none" /\ guards["business"] # "none"
    <3>1. guards["business"] = "EXECUTE"
      BY <1>1, <1>3, <2>1, <2>3 DEF Adjudicate, Gated, Gates, PassesTaint
    <3> QED
      BY <1>1, <1>3, <2>1, <2>3, <3>1, FirstAnswers
  <2>4. CASE guards["auth"] = "none" /\ guards["business"] = "none"
    <3>1. pol.default = "EXECUTE"
      BY <1>1, <1>3, <2>1, <2>4 DEF Adjudicate, Gates, PassesTaint
    <3>2. Silent(guards)
      BY <1>3, <2>4 DEF Silent, Phases
    <3> QED
      BY <1>1, <1>3, <2>1, <3>1, <3>2
  <2> QED
    BY <2>2, <2>3, <2>4
<1> QED
  BY <1>2, <1>3

\* A question or a rewrite comes from the first guard that answers.
LEMMA GuardSays ==
    ASSUME NEW e \in Envelopes, NEW guards \in Guards,
           NEW rewritten \in Envelopes, NEW pol \in Policies,
           NEW switch \in BOOLEAN,
           NEW x \in {"REQUEST_CONFIRMATION", "REWRITE"},
           Adjudicate(e, guards, rewritten, pol, switch) = x
    PROVE  /\ e.sound /\ ~switch
           /\ \E i \in 1 .. 3 :
                  /\ FirstAnswer(guards, i, x)
                  /\ i > 1 => Gates(e, pol)
           /\ guards["state"] = "none" => Gates(e, pol)
           /\ x = "REWRITE" => rewritten.sound /\ ~Raises(rewritten, e)
<1>1. e.sound /\ ~switch
  BY DEF Adjudicate
<1>2. CASE guards["state"] # "none"
  <2>1. /\ guards["state"] = x
        /\ x = "REWRITE" => rewritten.sound /\ ~Raises(rewritten, e)
    BY <1>1, <1>2 DEF Adjudicate, Gated
  <2> QED
    BY <1>1, <1>2, <2>1, FirstAnswers
<1>3. CASE guards["state"] = "none"
  <2>1. Gates(e, pol)
    BY <1>1, <1>3 DEF Adjudicate, Gates, PassesTaint
  <2>2. CASE guards["auth"] # "none"
    <3>1. /\ guards["auth"] = x
          /\ x = "REWRITE" => rewritten.sound /\ ~Raises(rewritten, e)
      BY <1>1, <1>3, <2>1, <2>2 DEF Adjudicate, Gated, Gates, PassesTaint
    <3> QED
      BY <1>1, <1>3, <2>1, <3>1, FirstAnswers
  <2>3. CASE guards["auth"] = "none" /\ guards["business"] # "none"
    <3>1. /\ guards["business"] = x
          /\ x = "REWRITE" => rewritten.sound /\ ~Raises(rewritten, e)
      BY <1>1, <1>3, <2>1, <2>3 DEF Adjudicate, Gated, Gates, PassesTaint
    <3> QED
      BY <1>1, <1>3, <2>1, <2>3, <3>1, FirstAnswers
  <2>4. CASE guards["auth"] = "none" /\ guards["business"] = "none"
    BY <1>1, <1>3, <2>1, <2>4 DEF Adjudicate, Gates, PassesTaint, Policies
  <2> QED
    BY <2>2, <2>3, <2>4
<1> QED
  BY <1>2, <1>3

-------------------------------------------------------------------------------
(* The shell's decision *)

\* The guards and the default let these bytes run.
LetsRun(e, guards, pol, waived) ==
    \/ \E i \in 1 .. 3 :
          /\ \/ FirstAnswer(guards, i, "EXECUTE")
             \/ FirstAnswer(guards, i, "REQUEST_CONFIRMATION") /\ waived
          /\ i > 1 => Gates(e, pol)
    \/ /\ Silent(guards)
       /\ pol.default = "EXECUTE"
       /\ Gates(e, pol)

\* Ranks are numbers, so that what is not above is below.
LEMMA RanksCompare ==
    ASSUME NEW e \in Envelopes, NEW rewritten \in Envelopes
    PROVE  ~Raises(rewritten, e) => Rank[rewritten.taint] <= Rank[e.taint]
<1>1. e.taint \in Taints /\ rewritten.taint \in Taints
  BY ConstantsAssumption DEF Envelopes
<1>2. Rank[e.taint] \in Int /\ Rank[rewritten.taint] \in Int
  BY <1>1 DEF Rank, Taints
<1> QED
  BY <1>2 DEF Raises

LEMMA DecisionSays ==
    ASSUME NEW e \in Envelopes, NEW guards \in Guards,
           NEW rewritten \in Envelopes, NEW again \in Guards,
           NEW pol \in Policies, NEW switch \in BOOLEAN,
           NEW waived \in BOOLEAN,
           NEW decision,
           decision = Decide(e, guards, rewritten, again, pol, switch, waived)
    PROVE  /\ decision \in {"EXECUTE", "REWRITE"} =>
                  /\ ~switch
                  /\ guards["state"] = "none" => Gates(e, pol)
           /\ decision = "EXECUTE" =>
                  e.sound /\ LetsRun(e, guards, pol, waived)
           /\ decision = "REWRITE" =>
                  /\ rewritten.sound
                  /\ LetsRun(rewritten, again, pol, FALSE)
                  /\ Rank[rewritten.taint] <= Rank[e.taint]
<1> DEFINE answer == Adjudicate(e, guards, rewritten, pol, switch)
           second == Adjudicate(rewritten, again, rewritten, pol, switch)
<1> HIDE DEF answer, second
<1>1. CASE decision = "EXECUTE"
  <2>1. answer = "EXECUTE" \/ (answer = "REQUEST_CONFIRMATION" /\ waived)
    BY <1>1 DEF Decide, Waive, SecondPass, answer, second
  <2>2. CASE answer = "EXECUTE"
    BY <1>1, <2>2, ExecuteSays DEF LetsRun, answer
  <2>3. CASE answer = "REQUEST_CONFIRMATION" /\ waived
    BY <1>1, <2>3, GuardSays DEF LetsRun, answer
  <2> QED
    BY <2>1, <2>2, <2>3
<1>2. CASE decision = "REWRITE"
  <2>1. answer = "REWRITE" /\ second = "EXECUTE"
    BY <1>2 DEF Decide, Waive, SecondPass, answer, second
  <2>2. /\ ~switch /\ ~Raises(rewritten, e)
        /\ guards["state"] = "none" => Gates(e, pol)
    BY <2>1, GuardSays DEF answer
  <2>3. rewritten.sound /\ LetsRun(rewritten, again, pol, FALSE)
    BY <2>1, ExecuteSays DEF LetsRun, second
  <2> QED
    BY <1>2, <2>2, <2>3, RanksCompare
<1> QED
  BY <1>1, <1>2

-------------------------------------------------------------------------------
(* One intent *)

\* The type invariant, and the count of calls of an intent not yet submitted,
\* without which the bound on the calls would not be inductive.
TypeInv ==
    /\ TypeOK
    /\ phase = "new" => calls = 0

\* What is on the record of the run: the three properties at once.
RunIsRight ==
    /\ RunsAreAuthorised
    /\ NeverElevates
    /\ GateOnSubmission

\* What a call meets is typed.
LEMMA CallSettles ==
    ASSUME TypeOK, NEW waived \in BOOLEAN, Call(waived)
    PROVE  \E guards \in Guards, rewritten \in Envelopes, again \in Guards :
               Settle(guards, rewritten, again, waived)
<1>1. PICK guards \in Guards :
          \E pair \in Rewritings(guards) :
              Settle(guards, pair[1], pair[2], waived)
  BY DEF Call
<1>2. PICK pair \in Rewritings(guards) :
          Settle(guards, pair[1], pair[2], waived)
  BY <1>1
<1>3. submitted \in Envelopes
  BY DEF TypeOK
<1>4. pair[1] \in Envelopes /\ pair[2] \in Guards
  BY <1>2, <1>3 DEF Rewritings
<1> QED
  BY <1>2, <1>4

LEMMA SettleTyped ==
    ASSUME TypeOK, calls < MaxCalls, NEW waived \in BOOLEAN,
           NEW guards \in Guards, NEW rewritten \in Envelopes,
           NEW again \in Guards, Settle(guards, rewritten, again, waived)
    PROVE  TypeInv'
<1> DEFINE decision == Decide(submitted, guards, rewritten, again, policy,
                              killed, waived)
           runs == Granted(decision, submitted, rewritten)
<1>1. /\ submitted \in Envelopes /\ policy \in Policies
      /\ killed \in BOOLEAN /\ calls \in 0 .. MaxCalls
  BY DEF TypeOK
<1>2. runs \in Envelopes \cup {Nothing}
  <2> HIDE DEF decision
  <2> QED
    BY <1>1 DEF Granted
<1>3. /\ runs = Nothing => ran' = Nothing
      /\ runs # Nothing =>
             ran' = [envelope |-> runs,
                     guards |-> IF decision = "EXECUTE" THEN guards ELSE again,
                     killed |-> killed,
                     waived |-> waived,
                     ruled |-> guards["state"] # "none"]
  BY DEF Settle
<1>4. ran' \in Runs \cup {Nothing}
  <2> DEFINE fate == guards["state"] # "none"
             answers == IF decision = "EXECUTE" THEN guards ELSE again
  <2>1. fate \in BOOLEAN /\ answers \in Guards
    OBVIOUS
  <2>2. /\ runs = Nothing => ran' = Nothing
        /\ runs # Nothing =>
               ran' = [envelope |-> runs, guards |-> answers,
                       killed |-> killed, waived |-> waived, ruled |-> fate]
    BY <1>3, Zenon
  <2> HIDE DEF decision, runs, fate, answers
  <2>3. CASE runs = Nothing
    BY <2>2, <2>3
  <2>4. CASE runs # Nothing
    BY <1>1, <1>2, <2>1, <2>2, <2>4 DEF Runs
  <2> QED
    BY <2>3, <2>4
<1>5. calls' \in 0 .. MaxCalls
  BY <1>1, ConstantsAssumption DEF Settle
<1>6. phase' \in {"asked", "closed"}
  BY DEF Settle
<1>7. UNCHANGED <<policy, submitted, killed>>
  BY DEF Settle
<1> QED
  BY <1>1, <1>4, <1>5, <1>6, <1>7 DEF TypeInv, TypeOK

LEMMA SettleIsRight ==
    ASSUME TypeOK, NEW waived \in BOOLEAN,
           NEW guards \in Guards, NEW rewritten \in Envelopes,
           NEW again \in Guards, Settle(guards, rewritten, again, waived)
    PROVE  RunIsRight'
<1> DEFINE decision == Decide(submitted, guards, rewritten, again, policy,
                              killed, waived)
           fate == guards["state"] # "none"
           Record(e, answers) ==
               [envelope |-> e, guards |-> answers, killed |-> killed,
                waived |-> waived, ruled |-> fate]
<1>1. /\ submitted \in Envelopes /\ policy \in Policies
      /\ killed \in BOOLEAN
  BY DEF TypeOK
<1>2. /\ decision \in {"EXECUTE", "REWRITE"} =>
             /\ ~killed
             /\ guards["state"] = "none" => Gates(submitted, policy)
      /\ decision = "EXECUTE" =>
             submitted.sound /\ LetsRun(submitted, guards, policy, waived)
      /\ decision = "REWRITE" =>
             /\ rewritten.sound
             /\ LetsRun(rewritten, again, policy, FALSE)
             /\ Rank[rewritten.taint] <= Rank[submitted.taint]
  BY <1>1, DecisionSays
<1>3. policy' = policy /\ submitted' = submitted
  BY DEF Settle
<1>4. /\ decision = "EXECUTE" => ran' = Record(submitted, guards)
      /\ decision = "REWRITE" => ran' = Record(rewritten, again)
      /\ decision \notin {"EXECUTE", "REWRITE"} => ran' = Nothing
  BY <1>1, NothingAssumption DEF Settle, Granted
<1>5. fate \in BOOLEAN /\ (~fate => guards["state"] = "none")
  OBVIOUS
<1> HIDE DEF decision, fate
<1>6. CASE decision = "EXECUTE"
  <2>1. RunsAreAuthorised'
    BY <1>2, <1>3, <1>4, <1>6 DEF RunsAreAuthorised, LetsRun, Gates
  <2>2. NeverElevates'
    <3>1. submitted.taint \in Taints
      BY <1>1, ConstantsAssumption DEF Envelopes
    <3>2. Rank[submitted.taint] \in Int
      BY <3>1 DEF Rank, Taints
    <3> QED
      BY <1>3, <1>4, <1>6, <3>2 DEF NeverElevates
  <2>3. GateOnSubmission'
    BY <1>2, <1>3, <1>4, <1>5, <1>6 DEF GateOnSubmission, Gates
  <2> QED
    BY <2>1, <2>2, <2>3 DEF RunIsRight
<1>7. CASE decision = "REWRITE"
  <2>1. RunsAreAuthorised'
    BY <1>2, <1>3, <1>4, <1>7 DEF RunsAreAuthorised, LetsRun, Gates
  <2>2. NeverElevates'
    BY <1>2, <1>3, <1>4, <1>7 DEF NeverElevates
  <2>3. GateOnSubmission'
    BY <1>2, <1>3, <1>4, <1>5, <1>7 DEF GateOnSubmission, Gates
  <2> QED
    BY <2>1, <2>2, <2>3 DEF RunIsRight
<1>8. CASE decision \notin {"EXECUTE", "REWRITE"}
  BY <1>4, <1>8 DEF RunIsRight, RunsAreAuthorised, NeverElevates,
                    GateOnSubmission
<1> QED
  BY <1>6, <1>7, <1>8

LEMMA CallTyped ==
    ASSUME TypeOK, calls < MaxCalls, NEW waived \in BOOLEAN, Call(waived)
    PROVE  TypeInv'
BY CallSettles, SettleTyped

LEMMA CallIsRight ==
    ASSUME TypeOK, NEW waived \in BOOLEAN, Call(waived)
    PROVE  RunIsRight'
BY CallSettles, SettleIsRight

\* The switch touches none of the records.
LEMMA UntouchedRun ==
    ASSUME RunIsRight, UNCHANGED <<policy, submitted, ran>>
    PROVE  RunIsRight'
BY DEF RunIsRight, RunsAreAuthorised, NeverElevates, GateOnSubmission

LEMMA TypeInductive == Spec => []TypeInv
<1>1. Init => TypeInv
  <2>1. 0 \in 0 .. MaxCalls
    BY ConstantsAssumption
  <2> QED
    BY <2>1, Zenon DEF Init, TypeInv, TypeOK
<1>2. TypeInv /\ [Next]_vars => TypeInv'
  <2> SUFFICES ASSUME TypeInv, [Next]_vars
               PROVE  TypeInv'
    OBVIOUS
  <2>1. CASE Submit
    <3>1. calls < MaxCalls
      BY <2>1, ConstantsAssumption DEF Submit, TypeInv
    <3> QED
      BY <2>1, <3>1, CallTyped DEF Submit, TypeInv
  <2>2. CASE Confirm
    BY <2>2, CallTyped DEF Confirm, TypeInv
  <2>3. CASE Toggle
    BY <2>3 DEF Toggle, TypeInv, TypeOK
  <2>4. CASE UNCHANGED vars
    BY <2>4 DEF vars, TypeInv, TypeOK
  <2> QED
    BY <2>1, <2>2, <2>3, <2>4 DEF Next
<1> QED
  BY <1>1, <1>2, PTL DEF Spec

\* Every variable keeps its type.  (adjudicate, adjudicateAndAudit)
THEOREM TypeCorrect == Spec => []TypeOK
<1>1. TypeInv => TypeOK
  BY DEF TypeInv
<1> QED
  BY <1>1, TypeInductive, PTL

\* Whatever the guards answer, whenever the switch is thrown and however often
\* the intent is asked about, the record of the run is right.  (adjudicate, the
\* second pass and the waiver of adjudicateAndAudit)
LEMMA RunIsAlwaysRight == Spec => []RunIsRight
<1>1. Init => RunIsRight
  BY DEF Init, RunIsRight, RunsAreAuthorised, NeverElevates, GateOnSubmission
<1>2. RunIsRight /\ TypeInv /\ [Next]_vars => RunIsRight'
  <2> SUFFICES ASSUME RunIsRight, TypeInv, [Next]_vars
               PROVE  RunIsRight'
    OBVIOUS
  <2>1. CASE Submit
    BY <2>1, CallIsRight DEF Submit, TypeInv
  <2>2. CASE Confirm
    BY <2>2, CallIsRight DEF Confirm, TypeInv
  <2>3. CASE Toggle
    BY <2>3, UntouchedRun DEF Toggle
  <2>4. CASE UNCHANGED vars
    BY <2>4, UntouchedRun DEF vars
  <2> QED
    BY <2>1, <2>2, <2>3, <2>4 DEF Next
<1> QED
  BY <1>1, <1>2, TypeInductive, PTL DEF Spec

\* What runs was authorised as it stands: by the first guard that answered
\* about these very bytes, or by the default.  (the order of the guards,
\* gateRewrite, the second pass, the waiver)
THEOREM RunsAreAuthorisedHolds == Spec => []RunsAreAuthorised
<1>1. RunIsRight => RunsAreAuthorised
  BY DEF RunIsRight
<1> QED
  BY <1>1, RunIsAlwaysRight, PTL

\* No rewrite, and no chain of calls, makes an intent more trusted than it was
\* submitted.  (gateRewrite)
THEOREM NeverElevatesHolds == Spec => []NeverElevates
<1>1. RunIsRight => NeverElevates
  BY DEF RunIsRight
<1> QED
  BY <1>1, RunIsAlwaysRight, PTL

\* What runs without the word of a state guard stems from a submission that
\* passed the taint gate.  (canProposeWithOrigin)
THEOREM GateOnSubmissionHolds == Spec => []GateOnSubmission
<1>1. RunIsRight => GateOnSubmission
  BY DEF RunIsRight
<1> QED
  BY <1>1, RunIsAlwaysRight, PTL
================================================================================
