--------------------------- MODULE RemediationProofs ---------------------------
(***************************************************************************)
(* Proofs about Remediation: a nonce runs once behind a ledger, what runs  *)
(* is within its radius, a proposal that waits can be answered, the calls  *)
(* implement OnceOnly and each comes to its end; for any signals, radii,   *)
(* numbers of calls and of passes, with and without calls that throw.      *)
(***************************************************************************)
EXTENDS Remediation, TLAPS

-------------------------------------------------------------------------------
(* The policy *)

\* The envelopes a signal can lead to.
From(s) == {Mint(s), Clamped(Mint(s))}

LEMMA Minted ==
    ASSUME shape \in [Signals -> Shapes], NEW s \in Signals
    PROVE  /\ From(s) \subseteq Envelopes
           /\ \A e \in From(s) : e.nonce = s /\ Clamped(e) \in From(s)
<1>1. shape[s] \in Shapes
  OBVIOUS
<1>2. shape[s].radius \in Radii
  BY <1>1 DEF Shapes
<1>3. Mint(s) \in Envelopes /\ Mint(s).nonce = s
  BY <1>2 DEF Mint, Envelopes, Kinds
<1>4. \A e \in Envelopes : Clamped(e) \in Envelopes /\ Clamped(e).nonce = e.nonce
  BY DEF Clamped, Envelopes
<1>5. Clamped(Clamped(Mint(s))) = Clamped(Mint(s))
  BY <1>3 DEF Clamped, Envelopes
<1> QED
  BY <1>3, <1>4, <1>5 DEF From

LEMMA GivenStays ==
    ASSUME UNCHANGED given
    PROVE  \A s \in Signals : Mint(s)' = Mint(s) /\ From(s)' = From(s)
BY DEF given, From, Mint, Clamped

\* What the policy lets run: within the cap unless somebody was asked, and never
\* what must be escalated.
LEMMA RulingBounds ==
    ASSUME NEW e \in Envelopes, NEW state, NEW receipt \in BOOLEAN
    PROVE  /\ Ruling(e, state, receipt) \in Decisions
           /\ Ruling(e, state, receipt) = "EXECUTE" /\ e.kind = "remediate" =>
                /\ e.radius \in 0 .. EscalateAt - 1
                /\ ~e.trusted => e.radius <= AutoCap
                /\ e.radius >= ConfirmAt => receipt
<1> DEFINE first == Verdict(e, state)
           second == Verdict(Clamped(e), state)
<1>1. e.radius \in Int
  <2>1. e.radius \in Radii \/ e.radius = AutoCap
    BY DEF Envelopes
  <2>2. Radii \subseteq Int
    BY ConstantsAssumption
  <2>3. CASE e.radius \in Radii
    BY <2>2, <2>3, Zenon
  <2>4. CASE e.radius = AutoCap
    BY <2>4 DEF AutoCap
  <2> QED
    BY <2>1, <2>3, <2>4
<1>2. /\ first \in Decisions /\ second \in Decisions
      /\ first = "EXECUTE" /\ e.kind = "remediate" =>
            e.radius >= 0 /\ e.radius < ConfirmAt
            /\ (~e.trusted => e.radius <= AutoCap)
      /\ first = "REQUEST_CONFIRMATION" =>
            e.radius >= 0 /\ e.radius < EscalateAt
            /\ (~e.trusted => e.radius <= AutoCap)
  BY <1>1 DEF Verdict, Decisions, AutoCap, ConfirmAt, EscalateAt
<1>3. Ruling(e, state, receipt) =
        IF first = "REQUEST_CONFIRMATION" /\ receipt THEN "EXECUTE"
        ELSE IF first # "REWRITE" THEN first
        ELSE IF second = "EXECUTE" THEN "REWRITE"
        ELSE IF second = "REWRITE" THEN "REFUSE"
        ELSE second
  BY DEF Ruling
<1> HIDE DEF first, second
<1>4. Ruling(e, state, receipt) \in Decisions
  BY <1>2, <1>3 DEF Decisions
<1>5. ASSUME Ruling(e, state, receipt) = "EXECUTE"
      PROVE  first = "EXECUTE" \/ (first = "REQUEST_CONFIRMATION" /\ receipt)
  BY <1>3, <1>5
<1> QED
  BY <1>1, <1>2, <1>4, <1>5 DEF AutoCap, ConfirmAt, EscalateAt

-------------------------------------------------------------------------------
(* The invariant *)

\* The call has taken up its signal, or a token.
Active(c) ==
    phase[c] \notin (IF c \in Handles THEN {"idle"} ELSE {"idle", "unresolved"})

\* A call adjudicates an envelope of its signal; so does every proposal.
SubjectInv ==
    /\ \A h \in Handles : Active(h) => subject[h] \in From(brings[h])
    /\ \A s \in Signals :
           proposals[s] # NoProposal => proposals[s].envelope \in From(s)
    /\ \A r \in Resolves : Active(r) =>
           /\ token[r] \in Handles
           /\ subject[r] \in From(brings[token[r]])
           /\ proposals[brings[token[r]]] # NoProposal
    /\ \A r \in Resolves :
           phase[r] \in {"fetch", "check", "record", "execute", "mark"} =>
               accepted[r]

\* Who is about to execute has the ruling for it.
RulingInv ==
    \A c \in Calls :
        phase[c] = "execute" => answer[c] = "EXECUTE" /\ Rules(c) = "EXECUTE"

\* A round has passes left, and handle() has no row to mark.
PassInv ==
    \A h \in Handles :
        /\ phase[h] \in {"idle", "check", "record"} => pass[h] < MaxPasses
        /\ phase[h] # "row"

BaseInv == TypeOK /\ SubjectInv /\ RulingInv /\ PassInv

Bounded(c, e) ==
    e.kind = "remediate" =>
        /\ e.radius \in 0 .. EscalateAt - 1
        /\ ~e.trusted => e.radius <= AutoCap
        /\ e.radius >= ConfirmAt =>
               /\ c \in Resolves
               /\ accepted[c]
               /\ e = Mint(brings[token[c]])

BoundedInv ==
    \A c \in Calls, e \in Envelopes :
        <<c, e>> \in effects => phase[c] # "idle" /\ Bounded(c, e)

\* A clamped envelope has been claimed before anybody adjudicates it again.
ClampedInv ==
    /\ \A c \in Calls :
           Active(c) => subject[c] = Mint(subject[c].nonce) \/ subject[c] \in ledger
    /\ \A s \in Signals : proposals[s] # NoProposal =>
           proposals[s].envelope = Mint(s) \/ proposals[s].envelope \in ledger

\* The executor has run for the call, or is about to.
Ran(c, e) == (phase[c] = "execute" /\ subject[c] = e) \/ <<c, e>> \in effects

\* Whoever ran had claimed the envelope of the signal, and nobody else has.
OnceInv ==
    /\ \A c \in Calls : phase[c] = "record" => subject[c] = Mint(subject[c].nonce)
    /\ \A c \in Calls, e \in Envelopes :
           Ran(c, e) => e = Mint(e.nonce) /\ e \in ledger
    /\ \A c, d \in Calls, e \in Envelopes : Ran(c, e) /\ Ran(d, e) => c = d

\* A proposal that waits has a pending row, which its call registered; the row
\* is marked only when the proposal has been settled.
PendingInv ==
    /\ \A s \in Signals : proposals[s].status = "pending_review" =>
           /\ proposals[s].token \in Handles
           /\ brings[proposals[s].token] = s
           /\ phase[proposals[s].token] = "done"
           /\ registry[proposals[s].token] = "pending"
    /\ \A h \in Handles :
           phase[h] = "propose" /\ answer[h] = "REQUEST_CONFIRMATION" =>
               registry[h] = "pending"
    /\ \A r \in Resolves : Active(r) =>
           /\ phase[token[r]] = "done"
           /\ phase[r] = "row" => ~Awaits(brings[token[r]], token[r])

-------------------------------------------------------------------------------
(* The steps *)

HandleStep(h) == Fetch(h) \/ HandleProceeds(h) \/ Throws(h)
ResolveStep(r) == Look(r) \/ ResolveProceeds(r) \/ Throws(r)

Step(c) ==
    \/ c \in Handles /\ HandleStep(c)
    \/ c \in Resolves /\ ResolveStep(c)

LEMMA NextIsStep ==
    ASSUME Next
    PROVE  \E c \in Calls : Step(c)
BY DEF Next, Step, HandleStep, ResolveStep, Calls

\* The steps of a call, by what they are.
LEMMA StepCases ==
    ASSUME NEW c \in Calls, Step(c)
    PROVE  \/ Fetch(c) \/ Check(c) \/ Record(c) \/ Execute(c) \/ Throws(c)
           \/ c \in Handles /\ (Register(c) \/ Propose(c))
           \/ c \in Resolves /\ (Look(c) \/ Mark(c) \/ MarkRow(c))
BY DEF Step, HandleStep, ResolveStep, HandleProceeds, ResolveProceeds, Decides

\* Where a call stands before and after a step, and that the others stay.
LEMMA StepPhases ==
    ASSUME TypeOK, NEW c \in Calls, Step(c)
    PROVE  \E from \in Phases \ {"done", "unresolved", "rejected"},
              to \in Phases \ {"idle"} :
               Goes(c, from, to)
<1> USE DEF TypeOK
<1>1. CASE Fetch(c)
  <2>1. \E from \in {"idle", "fetch"} : Goes(c, from, "check")
    BY <1>1 DEF Fetch
  <2> QED
    BY <2>1 DEF Phases
<1>2. ASSUME NEW from \in {"check", "record"}, NEW decision, Answered(c, from, decision)
      PROVE  \E to \in Phases \ {"idle"} : Goes(c, from, to)
  BY <1>2 DEF Answered, Turns, HandleTurns, ResolveTurns, Phases
<1>3. CASE Check(c)
  <2>1. \/ \E decision : Answered(c, "check", decision)
        \/ Goes(c, "check", "record")
    BY <1>3 DEF Check
  <2> QED
    BY <1>2, <2>1 DEF Phases
<1>4. CASE Record(c)
  <2>1. \E decision : Answered(c, "record", decision)
    BY <1>4 DEF Record
  <2> QED
    BY <1>2, <2>1 DEF Phases
<1>5. CASE Execute(c)
  <2>1. \E to \in {"propose", "mark"} : Goes(c, "execute", to)
    BY <1>5 DEF Execute
  <2> QED
    BY <2>1 DEF Phases
<1>6. CASE Throws(c)
  <2>1. \E from \in {"fetch", "check", "record", "register", "row", "execute"} :
          Goes(c, from, "rejected")
    BY <1>6 DEF Throws
  <2> QED
    BY <2>1 DEF Phases
<1>7. CASE c \in Handles /\ (Register(c) \/ Propose(c))
  <2>1. Goes(c, "register", "propose") \/ Goes(c, "propose", "done")
    BY <1>7 DEF Register, Propose
  <2> QED
    BY <2>1 DEF Phases
<1>8. CASE c \in Resolves /\ Look(c)
  <2>1. \E to \in {"fetch", "row", "unresolved"} : Goes(c, "idle", to)
    BY <1>8 DEF Look
  <2> QED
    BY <2>1 DEF Phases
<1>9. CASE c \in Resolves /\ (Mark(c) \/ MarkRow(c))
  <2>1. Goes(c, "mark", "row") \/ Goes(c, "row", "done")
    BY <1>9 DEF Mark, MarkRow
  <2> QED
    BY <2>1 DEF Phases
<1> QED
  BY <1>1, <1>3, <1>4, <1>5, <1>6, <1>7, <1>8, <1>9, StepCases

LEMMA StepIsLocal ==
    ASSUME TypeOK, NEW c \in Calls, Step(c)
    PROVE  /\ UNCHANGED given
           /\ phase' \in [Calls -> Phases] /\ phase'[c] # "idle"
           /\ phase[c] \notin {"done", "unresolved", "rejected"}
           /\ \A d \in Calls \ {c} :
                /\ phase'[d] = phase[d] /\ subject'[d] = subject[d]
                /\ snap'[d] = snap[d] /\ answer'[d] = answer[d]
           /\ \A r \in Resolves :
                r # c \/ phase[c] # "idle" =>
                    token'[r] = token[r] /\ accepted'[r] = accepted[r]
<1> USE DEF TypeOK, Calls
<1>1. PICK from \in Phases \ {"done", "unresolved", "rejected"},
           to \in Phases \ {"idle"} : Goes(c, from, to)
  BY StepPhases
<1>2. /\ phase' \in [Calls -> Phases] /\ phase'[c] # "idle"
      /\ phase[c] \notin {"done", "unresolved", "rejected"}
      /\ \A d \in Calls \ {c} : phase'[d] = phase[d]
  BY <1>1 DEF Goes
<1>3. UNCHANGED given
  BY StepCases DEF Fetch, Check, Record, Execute, Throws, Register, Propose, Look,
     Mark, MarkRow, Settle, given
<1>4. \A d \in Calls \ {c} :
        subject'[d] = subject[d] /\ snap'[d] = snap[d] /\ answer'[d] = answer[d]
  <2>1. ASSUME NEW at, NEW decision, Answered(c, at, decision)
        PROVE  \A d \in Calls \ {c} :
                   subject'[d] = subject[d] /\ answer'[d] = answer[d]
    BY <2>1 DEF Answered
  <2>2. CASE Check(c) \/ Record(c)
    BY <2>1, <2>2 DEF Check, Record
  <2>3. CASE Fetch(c) \/ Execute(c) \/ Throws(c)
    BY <2>3 DEF Fetch, Execute, Throws, local
  <2>4. CASE c \in Handles /\ (Register(c) \/ Propose(c))
    BY <2>4 DEF Register, Propose, local
  <2>5. CASE c \in Resolves /\ (Look(c) \/ Mark(c) \/ MarkRow(c))
    BY <2>5 DEF Look, Mark, MarkRow, local
  <2> QED
    BY <2>2, <2>3, <2>4, <2>5, StepCases
<1>5. \A r \in Resolves :
        r # c \/ phase[c] # "idle" =>
            token'[r] = token[r] /\ accepted'[r] = accepted[r]
  BY StepCases DEF Fetch, Check, Record, Execute, Throws, Register, Propose, Look,
     Mark, MarkRow, bindings, Goes
<1> QED
  BY <1>2, <1>3, <1>4, <1>5

\* What a decision leaves of the call that got it.
LEMMA DecisionMade ==
    ASSUME TypeOK, PassInv, NEW c \in Calls, NEW from \in {"check", "record"},
           NEW decision \in Decisions, Answered(c, from, decision)
    PROVE  /\ phase[c] = from /\ phase'[c] = Turns(c, decision)
           /\ answer' \in [Calls -> Decisions] /\ answer'[c] = decision
           /\ subject' \in [Calls -> Envelopes]
           /\ \/ subject'[c] = subject[c] /\ ~(c \in Handles /\ decision = "REWRITE")
              \/ subject'[c] = Clamped(subject[c]) /\ c \in Handles /\ decision = "REWRITE"
           /\ pass' \in [Handles -> 0 .. MaxPasses]
           /\ c \in Handles /\ phase'[c] = "check" => pass'[c] < MaxPasses
           /\ \A h \in Handles \ {c} : pass'[h] = pass[h]
           /\ phase'[c] \notin {"idle", "fetch", "record", "row", "done", "unresolved"}
           /\ phase'[c] = "execute" => decision = "EXECUTE"
           /\ phase'[c] = "propose" => decision # "REQUEST_CONFIRMATION"
           /\ phase'[c] = "register" => decision = "REQUEST_CONFIRMATION"
<1>1. /\ phase[c] = from /\ phase'[c] = Turns(c, decision)
      /\ answer' = [answer EXCEPT ![c] = decision]
      /\ IF c \in Handles /\ decision = "REWRITE"
         THEN /\ subject' = [subject EXCEPT ![c] = Clamped(subject[c])]
              /\ pass' = [pass EXCEPT ![c] = pass[c] + 1]
         ELSE UNCHANGED <<subject, pass>>
  BY DEF Answered, Goes, TypeOK
<1>2. answer' \in [Calls -> Decisions] /\ answer'[c] = decision
  BY <1>1 DEF TypeOK
<1>3. \A e \in Envelopes : Clamped(e) \in Envelopes
  BY DEF Clamped, Envelopes
<1>4. /\ subject' \in [Calls -> Envelopes]
      /\ \/ subject'[c] = subject[c] /\ ~(c \in Handles /\ decision = "REWRITE")
         \/ subject'[c] = Clamped(subject[c]) /\ c \in Handles /\ decision = "REWRITE"
  BY <1>1, <1>3 DEF TypeOK
<1>5. MaxPasses \in Nat /\ (c \in Handles => pass[c] \in 0 .. MaxPasses /\ pass[c] < MaxPasses)
  BY <1>1, ConstantsAssumption DEF TypeOK, PassInv
<1>6. /\ pass' \in [Handles -> 0 .. MaxPasses]
      /\ c \in Handles /\ decision = "REWRITE" => pass'[c] = pass[c] + 1
      /\ \A h \in Handles \ {c} : pass'[h] = pass[h]
  BY <1>1, <1>5 DEF TypeOK
<1>7. /\ c \in Handles /\ phase'[c] = "check" =>
            decision = "REWRITE" /\ pass[c] + 1 < MaxPasses
      /\ phase'[c] \notin {"idle", "fetch", "record", "row", "done", "unresolved"}
      /\ phase'[c] = "execute" => decision = "EXECUTE"
      /\ phase'[c] = "propose" => decision # "REQUEST_CONFIRMATION"
      /\ phase'[c] = "register" => decision = "REQUEST_CONFIRMATION"
  BY <1>1 DEF Turns, HandleTurns, ResolveTurns
<1> QED
  BY <1>1, <1>2, <1>4, <1>6, <1>7

\* The ruling about the envelope at hand is a decision.
LEMMA RulesDecide ==
    ASSUME TypeOK, NEW c \in Calls
    PROVE  /\ Rules(c) \in Decisions
           /\ Grants(Rules(c)) => Claims(subject[c], Rules(c)) \in Envelopes
<1>1. subject[c] \in Envelopes /\ (c \in Resolves) \in BOOLEAN
  BY DEF TypeOK
<1>2. Rules(c) \in Decisions
  BY <1>1, RulingBounds DEF Rules
<1>3. Clamped(subject[c]) \in Envelopes
  BY <1>1 DEF Clamped, Envelopes
<1> QED
  BY <1>1, <1>2, <1>3 DEF Claims

\* The deciding steps: to which decision, or on to the ledger.
LEMMA DecidingStep ==
    ASSUME TypeOK, PassInv, NEW c \in Calls, Check(c) \/ Record(c)
    PROVE  /\ UNCHANGED <<snap, token, accepted, proposals, registry, effects>>
           /\ \/ /\ phase[c] = "check" /\ phase'[c] = "record"
                 /\ UNCHANGED <<subject, pass, answer, ledger>>
                 /\ ledgered /\ subject[c] \notin ledger
              \/ \E from \in {"check", "record"}, decision \in {"REFUSE", Rules(c)} :
                    /\ Answered(c, from, decision)
                    /\ decision \in Decisions
                    /\ from = "check" => UNCHANGED ledger
                    /\ from = "check" /\ Grants(decision) => ~ledgered
                    /\ from = "record" =>
                         /\ ledger' = ledger \cup {Claims(subject[c], Rules(c))}
                         /\ decision # "REFUSE" =>
                                Claims(subject[c], Rules(c)) \notin ledger
<1>1. "REFUSE" \in Decisions /\ Rules(c) \in Decisions
  BY RulesDecide DEF Decisions
<1>2. CASE Check(c)
  <2>1. UNCHANGED <<snap, token, accepted, ledger, proposals, registry, effects>>
    BY <1>2 DEF Check, bindings, stores
  <2>2. CASE ledgered /\ subject[c] \in ledger
    <3>1. Answered(c, "check", "REFUSE")
      BY <1>2, <2>2 DEF Check
    <3> QED
      BY <1>1, <2>1, <3>1 DEF Grants
  <2>3. CASE /\ ~(ledgered /\ subject[c] \in ledger)
             /\ ledgered /\ Grants(Rules(c))
    <3>1. Goes(c, "check", "record") /\ UNCHANGED <<subject, pass, answer>>
      BY <1>2, <2>3 DEF Check
    <3> QED
      BY <2>1, <2>3, <3>1 DEF Goes, TypeOK
  <2>4. CASE /\ ~(ledgered /\ subject[c] \in ledger)
             /\ ~(ledgered /\ Grants(Rules(c)))
    <3>1. Answered(c, "check", Rules(c))
      BY <1>2, <2>4 DEF Check
    <3> QED
      BY <1>1, <2>1, <2>4, <3>1
  <2> QED
    BY <2>2, <2>3, <2>4
<1>3. CASE Record(c)
  <2> DEFINE e == Claims(subject[c], Rules(c))
  <2>1. /\ Answered(c, "record", IF e \notin ledger THEN Rules(c) ELSE "REFUSE")
        /\ ledger' = ledger \cup {e}
        /\ UNCHANGED <<snap, token, accepted, proposals, registry, effects>>
    BY <1>3 DEF Record, IsFree, bindings
  <2> QED
    BY <1>1, <2>1
<1> QED
  BY <1>2, <1>3

\* The other steps, by what they change of the call and of the stores.
LEMMA OtherStep ==
    ASSUME BaseInv, NEW c \in Calls, Step(c), ~Check(c), ~Record(c)
    PROVE  /\ UNCHANGED <<pass, answer>>
           /\ subject' \in [Calls -> Envelopes]
           /\ snap' \in [Calls -> Incidents]
           /\ ledger \subseteq ledger' /\ ledger' \subseteq Envelopes
           /\ effects \subseteq effects'
           /\ effects' \subseteq effects \cup {<<c, subject[c]>>}
           /\ effects' # effects => phase[c] = "execute"
           /\ ~Fetch(c) /\ ~Look(c) => subject'[c] = subject[c] /\ snap'[c] = snap[c]
           /\ phase'[c] \notin {"record", "execute", "register"}
<1> USE DEF BaseInv, TypeOK, Calls
<1>1. CASE Fetch(c)
  <2>1. /\ UNCHANGED <<pass, answer, ledger, effects>>
        /\ phase'[c] = "check"
        /\ \E now \in Incidents : snap' = [snap EXCEPT ![c] = now]
        /\ c \in Handles =>
             \/ subject' = [subject EXCEPT ![c] = Mint(brings[c])]
             \/ subject' = subject
        /\ c \notin Handles => UNCHANGED subject
    BY <1>1 DEF Fetch, Goes, stores
  <2>2. c \in Handles => Mint(brings[c]) \in Envelopes
    BY Minted DEF From
  <2> QED
    BY <1>1, <2>1, <2>2
<1>2. CASE Execute(c)
  BY <1>2 DEF Execute, Goes, local
<1>3. CASE Throws(c)
  <2>1. phase'[c] = "rejected" /\ UNCHANGED <<pass, answer, subject, snap>>
    BY <1>3 DEF Throws, Goes, local
  <2>2. /\ ledger \subseteq ledger' /\ ledger' \subseteq Envelopes
        /\ effects \subseteq effects'
        /\ effects' \subseteq effects \cup {<<c, subject[c]>>}
        /\ effects' # effects => phase[c] = "execute"
    <3>1. Claims(subject[c], Rules(c)) \in Envelopes
      <4>1. Clamped(subject[c]) \in Envelopes
        BY DEF Clamped, Envelopes
      <4> QED
        BY <4>1 DEF Claims
    <3> QED
      BY <1>3, <3>1 DEF Throws, Goes
  <2> QED
    BY <2>1, <2>2
<1>4. CASE c \in Handles /\ (Register(c) \/ Propose(c))
  BY <1>4 DEF Register, Propose, Goes, local
<1>5. CASE c \in Resolves /\ Look(c)
  <2>1. PICK t \in Handles, yes \in BOOLEAN :
          /\ IF Awaits(brings[t], t)
             THEN /\ Goes(c, "idle", IF yes THEN "fetch" ELSE "row")
                  /\ subject' = [subject EXCEPT ![c] = proposals[brings[t]].envelope]
             ELSE Goes(c, "idle", "unresolved") /\ UNCHANGED subject
    BY <1>5 DEF Look
  <2>2. Awaits(brings[t], t) => proposals[brings[t]].envelope \in Envelopes
    <3> SUFFICES ASSUME Awaits(brings[t], t)
                 PROVE  proposals[brings[t]].envelope \in Envelopes
      OBVIOUS
    <3>1. proposals[brings[t]] \in Proposals
      BY DEF Awaits, NoProposal
    <3> QED
      BY <3>1 DEF Proposals
  <2>3. subject' \in [Calls -> Envelopes]
    BY <2>1, <2>2
  <2>4. UNCHANGED <<pass, answer, snap, ledger, effects>>
    BY <1>5 DEF Look
  <2> QED
    BY <1>5, <2>1, <2>3, <2>4 DEF Goes
<1>6. CASE c \in Resolves /\ (Mark(c) \/ MarkRow(c))
  BY <1>6 DEF Mark, MarkRow, Settle, Goes, local
<1> QED
  BY <1>1, <1>2, <1>3, <1>4, <1>5, <1>6, StepCases

\* Who is about to execute stays ruled; the passes are counted.
LEMMA RulingStep ==
    ASSUME BaseInv, NEW c \in Calls, Step(c)
    PROVE  RulingInv' /\ PassInv'
<1> USE DEF BaseInv
<1>1. \A d \in Calls \ {c} :
        /\ phase'[d] = phase[d] /\ answer'[d] = answer[d]
        /\ Rules(d)' = Rules(d)
  BY StepIsLocal DEF Rules
<1>2. CASE Check(c) \/ Record(c)
  <2>1. CASE phase'[c] = "record" /\ phase[c] = "check" /\ UNCHANGED pass
    BY <1>1, <2>1 DEF RulingInv, PassInv, Calls
  <2>2. ASSUME NEW from \in {"check", "record"}, NEW decision \in {"REFUSE", Rules(c)},
               Answered(c, from, decision), decision \in Decisions, snap' = snap
        PROVE  RulingInv' /\ PassInv'
    <3>1. phase'[c] = "execute" =>
            answer'[c] = "EXECUTE" /\ Rules(c)' = "EXECUTE"
      <4> SUFFICES ASSUME phase'[c] = "execute"
                   PROVE  answer'[c] = "EXECUTE" /\ Rules(c)' = "EXECUTE"
        OBVIOUS
      <4>1. decision = "EXECUTE" /\ answer'[c] = decision /\ subject'[c] = subject[c]
        BY <2>2, DecisionMade
      <4> QED
        BY <2>2, <4>1 DEF Rules
    <3>2. PassInv'
      BY <1>1, <2>2, DecisionMade DEF PassInv, Calls
    <3> QED
      BY <1>1, <3>1, <3>2 DEF RulingInv
  <2> QED
    BY <1>2, <2>1, <2>2, DecidingStep
<1>3. CASE ~Check(c) /\ ~Record(c)
  <2>1. UNCHANGED pass /\ phase'[c] # "execute"
    BY <1>3, OtherStep
  <2>2. c \in Handles =>
          /\ phase'[c] \in {"idle", "check", "record"} => phase[c] = "idle"
          /\ phase'[c] # "row"
    BY <1>3, StepCases, ConstantsAssumption
       DEF Fetch, Execute, Throws, Register, Propose, Goes, Calls, TypeOK
  <2> QED
    BY <1>1, <2>1, <2>2 DEF RulingInv, PassInv, Calls
<1> QED
  BY <1>2, <1>3

\* Proposals are written by handle(), and their status by resolve().
LEMMA ProposalsWritten ==
    ASSUME BaseInv, NEW c \in Calls, Step(c)
    PROVE  /\ proposals' \in [Signals -> Proposals \cup {NoProposal}]
           /\ \A s \in Signals :
                \/ proposals'[s] = proposals[s]
                \/ /\ c \in Handles /\ brings[c] = s /\ Propose(c)
                   /\ proposals'[s] \in Proposals
                   /\ proposals'[s].envelope = subject[c]
                   /\ proposals'[s].token \in {c, NoCall}
                   /\ proposals'[s].status = "pending_review" <=>
                        answer[c] = "REQUEST_CONFIRMATION"
                   /\ answer[c] = "REQUEST_CONFIRMATION" =>
                        proposals'[s].token = c
                \/ /\ c \in Resolves /\ (Look(c) \/ Mark(c))
                   /\ proposals[s] \in Proposals /\ proposals'[s] \in Proposals
                   /\ proposals'[s].envelope = proposals[s].envelope
                   /\ proposals'[s].token = proposals[s].token
                   /\ proposals'[s].status # "pending_review"
<1> USE DEF BaseInv, TypeOK, Calls
<1>1. CASE c \in Handles /\ Propose(c)
  <2> DEFINE new == [status |-> StatusOf(answer[c]),
                     token |-> IF answer[c] = "REQUEST_CONFIRMATION" THEN c ELSE NoCall,
                     envelope |-> subject[c]]
  <2>1. proposals' = [proposals EXCEPT ![brings[c]] = new]
    BY <1>1 DEF Propose
  <2>2. /\ StatusOf(answer[c]) \in Statuses
        /\ StatusOf(answer[c]) = "pending_review" <=>
             answer[c] = "REQUEST_CONFIRMATION"
    BY DEF StatusOf, Decisions, Statuses
  <2>3. new \in Proposals
    BY <1>1, <2>2 DEF Proposals, Tokens
  <2>4. brings[c] \in Signals
    BY <1>1
  <2> QED
    BY <1>1, <2>1, <2>2, <2>3, <2>4
<1>2. ASSUME NEW s \in Signals, NEW status \in Statuses \ {"pending_review"},
             proposals[s] # NoProposal, Settle(s, status)
      PROVE  /\ proposals' \in [Signals -> Proposals \cup {NoProposal}]
             /\ proposals[s] \in Proposals /\ proposals'[s] \in Proposals
             /\ proposals'[s].envelope = proposals[s].envelope
             /\ proposals'[s].token = proposals[s].token
             /\ proposals'[s].status # "pending_review"
             /\ \A o \in Signals \ {s} : proposals'[o] = proposals[o]
  <2>1. proposals[s] \in Proposals
    BY <1>2
  <2>2. proposals' = [proposals EXCEPT ![s] = [proposals[s] EXCEPT !.status = status]]
    BY <1>2 DEF Settle
  <2>3. [proposals[s] EXCEPT !.status = status] \in Proposals
    BY <2>1 DEF Proposals
  <2> QED
    BY <2>1, <2>2, <2>3 DEF Proposals
<1>3. CASE c \in Resolves /\ Look(c)
  <2>1. PICK t \in Handles, yes \in BOOLEAN :
          \/ proposals' = proposals
          \/ Awaits(brings[t], t) /\ Settle(brings[t], "declined")
    BY <1>3 DEF Look
  <2>2. CASE Awaits(brings[t], t) /\ Settle(brings[t], "declined")
    <3>1. proposals[brings[t]] # NoProposal /\ brings[t] \in Signals
      BY <2>2 DEF Awaits, NoProposal
    <3> QED
      BY <1>2, <1>3, <2>2, <3>1 DEF Statuses
  <2> QED
    BY <2>1, <2>2
<1>4. CASE c \in Resolves /\ Mark(c)
  <2>1. /\ phase[c] = "mark"
        /\ \E status \in {"executed", "refused"} : Settle(brings[token[c]], status)
    BY <1>4 DEF Mark, Goes
  <2>2. c \notin Handles
    BY <1>4, ConstantsAssumption
  <2>3. proposals[brings[token[c]]] # NoProposal /\ brings[token[c]] \in Signals
    BY <1>4, <2>1, <2>2 DEF SubjectInv, Active
  <2> QED
    BY <1>2, <1>4, <2>1, <2>3 DEF Statuses
<1>5. CASE /\ ~(c \in Handles /\ Propose(c))
           /\ ~(c \in Resolves /\ (Look(c) \/ Mark(c)))
  <2>1. UNCHANGED proposals
    BY <1>5, StepCases DEF Fetch, Check, Record, Execute, Throws, Register, MarkRow,
       stores
  <2> QED
    BY <2>1
<1> QED
  BY <1>1, <1>3, <1>4, <1>5

\* The registry is written by the call that registers, and by resolve().
LEMMA RegistryWritten ==
    ASSUME BaseInv, NEW c \in Calls, Step(c)
    PROVE  /\ registry' \in [Handles -> {"absent", "pending", "approved", "declined"}]
           /\ \A h \in Handles :
                \/ registry'[h] = registry[h]
                \/ c = h /\ registry'[h] = "pending"
                \/ c \in Resolves /\ phase[c] = "row" /\ token[c] = h
           /\ c \in Handles /\ Register(c) => registry'[c] = "pending"
<1> USE DEF BaseInv, TypeOK, Calls
<1> Reply(c) \in {"approved", "declined"}
  BY DEF Reply
<1>1. CASE c \in Handles /\ Register(c)
  BY <1>1 DEF Register
<1>2. CASE c \in Resolves /\ MarkRow(c)
  BY <1>2, ConstantsAssumption DEF MarkRow, Goes
<1>3. CASE Throws(c)
  <2>1. \/ UNCHANGED registry
        \/ phase[c] = "register" /\ registry' = [registry EXCEPT ![c] = "pending"]
        \/ /\ phase[c] = "row"
           /\ registry' = [registry EXCEPT ![token[c]] = Reply(c)]
    BY <1>3 DEF Throws, Goes
  <2>2. phase'[c] = "rejected"
    BY <1>3 DEF Throws, Goes
  <2>3. c \in Handles => phase[c] # "row" /\ ~Register(c)
    BY <2>2 DEF Register, Goes, PassInv
  <2> QED
    BY <2>1, <2>3
<1>4. CASE ~(c \in Handles /\ Register(c)) /\ ~(c \in Resolves /\ MarkRow(c)) /\ ~Throws(c)
  <2>1. UNCHANGED registry
    BY <1>4, StepCases DEF Fetch, Check, Record, Execute, Propose, Look, Mark, stores
  <2> QED
    BY <1>4, <2>1
<1> QED
  BY <1>1, <1>2, <1>3, <1>4

LEMMA TypeStep ==
    ASSUME BaseInv, NEW c \in Calls, Step(c)
    PROVE  TypeOK'
<1> USE DEF BaseInv
<1>1. /\ answer' \in [Calls -> Decisions] /\ pass' \in [Handles -> 0 .. MaxPasses]
      /\ subject' \in [Calls -> Envelopes] /\ snap' \in [Calls -> Incidents]
      /\ ledger' \subseteq Envelopes /\ effects' \subseteq Calls \X Envelopes
  <2>1. CASE Check(c) \/ Record(c)
    <3>1. UNCHANGED <<snap, effects>>
      BY <2>1, DecidingStep
    <3>2. /\ answer' \in [Calls -> Decisions]
          /\ pass' \in [Handles -> 0 .. MaxPasses]
          /\ subject' \in [Calls -> Envelopes]
      <4>1. CASE UNCHANGED <<subject, pass, answer>>
        BY <4>1 DEF TypeOK
      <4>2. CASE \E from \in {"check", "record"}, decision \in Decisions :
                    Answered(c, from, decision)
        BY <4>2, DecisionMade
      <4> QED
        BY <2>1, <4>1, <4>2, DecidingStep
    <3>3. ledger' \subseteq Envelopes
      <4>1. Claims(subject[c], Rules(c)) \in Envelopes
        <5>1. subject[c] \in Envelopes /\ Clamped(subject[c]) \in Envelopes
          BY DEF TypeOK, Clamped, Envelopes
        <5> QED
          BY <5>1 DEF Claims
      <4>2. ledger' \subseteq ledger \cup {Claims(subject[c], Rules(c))}
        BY <2>1 DEF Check, Record, stores
      <4> QED
        BY <4>1, <4>2 DEF TypeOK
    <3> QED
      BY <3>1, <3>2, <3>3 DEF TypeOK
  <2>2. CASE ~Check(c) /\ ~Record(c)
    <3>1. <<c, subject[c]>> \in Calls \X Envelopes
      BY DEF TypeOK
    <3> QED
      BY <2>2, <3>1, OtherStep DEF TypeOK
  <2> QED
    BY <2>1, <2>2
<1>2. token' \in [Resolves -> Tokens] /\ accepted' \in [Resolves -> BOOLEAN]
  <2>1. CASE c \in Resolves /\ Look(c)
    BY <2>1 DEF Look, TypeOK, Tokens
  <2>2. CASE ~(c \in Resolves /\ Look(c))
    <3>1. UNCHANGED <<token, accepted>>
      BY <2>2, StepCases DEF Fetch, Check, Record, Execute, Throws, Register, Propose,
         Mark, MarkRow, bindings
    <3> QED
      BY <3>1 DEF TypeOK
  <2> QED
    BY <2>1, <2>2
<1> QED
  BY <1>1, <1>2, StepIsLocal, ProposalsWritten, RegistryWritten DEF TypeOK, given

\* What a call of resolve() finds.
LEMMA LookFinds ==
    ASSUME BaseInv, NEW r \in Resolves, Look(r)
    PROVE  /\ phase[r] = "idle" /\ phase'[r] \in {"fetch", "row", "unresolved"}
           /\ phase'[r] # "unresolved" =>
                /\ token'[r] \in Handles
                /\ Awaits(brings[token'[r]], token'[r])
                /\ subject'[r] = proposals[brings[token'[r]]].envelope
           /\ phase'[r] = "fetch" => accepted'[r]
           /\ phase'[r] = "row" => Settle(brings[token'[r]], "declined")
<1> USE DEF BaseInv, TypeOK, Calls
<1>1. PICK t \in Handles, yes \in BOOLEAN :
        /\ token' = [token EXCEPT ![r] = t]
        /\ accepted' = [accepted EXCEPT ![r] = yes]
        /\ IF Awaits(brings[t], t)
           THEN /\ Goes(r, "idle", IF yes THEN "fetch" ELSE "row")
                /\ subject' = [subject EXCEPT ![r] =
                                   proposals[brings[t]].envelope]
                /\ IF yes THEN UNCHANGED proposals
                   ELSE Settle(brings[t], "declined")
           ELSE /\ Goes(r, "idle", "unresolved")
                /\ UNCHANGED <<subject, proposals>>
  BY DEF Look
<1>2. token'[r] = t /\ accepted'[r] = yes
  BY <1>1
<1>3. CASE Awaits(brings[t], t) /\ yes
  BY <1>1, <1>2, <1>3 DEF Goes
<1>4. CASE Awaits(brings[t], t) /\ ~yes
  BY <1>1, <1>2, <1>4 DEF Goes
<1>5. CASE ~Awaits(brings[t], t)
  BY <1>1, <1>2, <1>5 DEF Goes
<1> QED
  BY <1>3, <1>4, <1>5

\* The envelope of a call changes only by the clamp, which has been claimed.
LEMMA SubjectStays ==
    ASSUME BaseInv, NEW c \in Calls, Step(c), Active(c)
    PROVE  \/ subject'[c] = subject[c]
           \/ /\ c \in Handles
              /\ subject'[c] = Clamped(subject[c])
              /\ ledgered => Clamped(subject[c]) \in ledger'
<1> USE DEF BaseInv
<1>1. CASE Check(c) \/ Record(c)
  <2>1. CASE UNCHANGED subject
    BY <2>1
  <2>2. ASSUME NEW from \in {"check", "record"}, NEW decision \in {"REFUSE", Rules(c)},
               Answered(c, from, decision), decision \in Decisions,
               from = "check" /\ Grants(decision) => ~ledgered,
               from = "record" =>
                   ledger' = ledger \cup {Claims(subject[c], Rules(c))}
        PROVE  \/ subject'[c] = subject[c]
               \/ /\ c \in Handles
                  /\ subject'[c] = Clamped(subject[c])
                  /\ ledgered => Clamped(subject[c]) \in ledger'
    <3>1. CASE c \in Handles /\ decision = "REWRITE"
      <4>1. subject'[c] = Clamped(subject[c])
        BY <2>2, <3>1, DecisionMade
      <4>2. ledgered => from = "record" /\ Rules(c) = "REWRITE"
        BY <2>2, <3>1 DEF Grants
      <4> QED
        BY <2>2, <3>1, <4>1, <4>2 DEF Claims
    <3>2. CASE ~(c \in Handles /\ decision = "REWRITE")
      BY <2>2, <3>2, DecisionMade
    <3> QED
      BY <3>1, <3>2
  <2> QED
    BY <1>1, <2>1, <2>2, DecidingStep
<1>2. CASE ~Check(c) /\ ~Record(c)
  <2>1. CASE Fetch(c)
    BY <2>1, ConstantsAssumption DEF Fetch, Goes, Active, Calls
  <2>2. CASE Look(c)
    <3>1. phase[c] = "idle"
      BY <2>2 DEF Look, Goes
    <3> QED
      BY <3>1 DEF Active
  <2> QED
    BY <1>2, <2>1, <2>2, OtherStep
<1> QED
  BY <1>1, <1>2

\* A call that takes up its signal, or a token, takes its envelope.
LEMMA SubjectTaken ==
    ASSUME BaseInv, NEW c \in Calls, Step(c), ~Active(c), Active(c)'
    PROVE  \/ c \in Handles /\ subject'[c] = Mint(brings[c])
           \/ /\ c \in Resolves /\ c \notin Handles /\ Look(c)
              /\ phase'[c] # "unresolved"
<1> USE DEF BaseInv, TypeOK
<1>1. phase[c] = "idle"
  BY StepIsLocal DEF Active
<1>2. CASE c \in Handles
  <2>1. Fetch(c)
    BY <1>1, <1>2, StepCases, ConstantsAssumption
       DEF Check, Record, Answered, Execute, Throws, Register, Propose, Goes, Calls
  <2> QED
    BY <1>1, <1>2, <2>1, ConstantsAssumption DEF Fetch, Goes
<1>3. CASE c \notin Handles
  <2>1. Look(c)
    BY <1>1, <1>3, StepCases
       DEF Check, Record, Answered, Execute, Throws, Fetch, Mark, MarkRow, Goes, Calls
  <2> QED
    BY <1>3, <2>1 DEF Active, Calls
<1> QED
  BY <1>2, <1>3

LEMMA SubjectStep ==
    ASSUME BaseInv, NEW c \in Calls, Step(c)
    PROVE  SubjectInv'
<1> USE DEF BaseInv
<1>1. /\ UNCHANGED given
      /\ \A s \in Signals : Mint(s)' = Mint(s) /\ From(s)' = From(s)
      /\ \A s \in Signals : Mint(s) \in From(s)
                            /\ \A e \in From(s) : Clamped(e) \in From(s)
      /\ \A h \in Handles : brings'[h] = brings[h] /\ brings[h] \in Signals
  BY StepIsLocal, GivenStays, Minted DEF TypeOK, given, From
<1>2. \A d \in Calls \ {c} :
        /\ Active(d)' = Active(d) /\ subject'[d] = subject[d]
        /\ phase'[d] = phase[d]
        /\ d \in Resolves => token'[d] = token[d] /\ accepted'[d] = accepted[d]
  BY StepIsLocal DEF Active
<1>3. \A s \in Signals :
        proposals'[s] # NoProposal =>
            \/ proposals[s] # NoProposal /\ proposals'[s].envelope = proposals[s].envelope
            \/ /\ c \in Handles /\ brings[c] = s /\ Active(c)
               /\ proposals'[s].envelope = subject[c]
  <2>1. NoProposal \notin Proposals
    BY DEF NoProposal, Proposals, Statuses
  <2>2. c \in Handles /\ Propose(c) => Active(c)
    BY DEF Propose, Goes, Active
  <2> QED
    BY <2>1, <2>2, ProposalsWritten
<1>4. \A s \in Signals : proposals[s] # NoProposal => proposals'[s] # NoProposal
  BY ProposalsWritten DEF NoProposal, Proposals, Statuses
<1>5. ASSUME NEW h \in Handles, Active(h)'
      PROVE  subject'[h] \in From(brings[h])'
  <2>1. CASE h # c
    BY <1>1, <1>2, <1>5, <2>1 DEF SubjectInv, Calls
  <2>2. CASE h = c /\ Active(c)
    <3>1. subject[c] \in From(brings[c])
      BY <2>2 DEF SubjectInv
    <3> QED
      BY <1>1, <2>2, <3>1, SubjectStays
  <2>3. CASE h = c /\ ~Active(c)
    BY <1>1, <1>5, <2>3, SubjectTaken
  <2> QED
    BY <2>1, <2>2, <2>3
<1>6. ASSUME NEW s \in Signals, proposals'[s] # NoProposal
      PROVE  proposals'[s].envelope \in From(s)'
  BY <1>1, <1>3, <1>6 DEF SubjectInv
<1>7. ASSUME NEW r \in Resolves, Active(r)'
      PROVE  /\ token'[r] \in Handles
             /\ subject'[r] \in From(brings[token[r]])'
             /\ proposals'[brings'[token'[r]]] # NoProposal
  <2> r \in Calls /\ r \notin Handles
    BY ConstantsAssumption DEF Calls
  <2>1. CASE r # c \/ Active(r)
    <3>1. Active(r) /\ token'[r] = token[r] /\ subject'[r] = subject[r]
      <4>1. CASE r # c
        BY <1>2, <1>7, <4>1
      <4>2. CASE r = c /\ Active(c)
        <5>1. phase[c] # "idle"
          BY <4>2 DEF Active
        <5> QED
          BY <4>2, <5>1, SubjectStays, StepIsLocal
      <4> QED
        BY <2>1, <4>1, <4>2
    <3>2. /\ token[r] \in Handles /\ subject[r] \in From(brings[token[r]])
          /\ proposals[brings[token[r]]] # NoProposal
      BY <3>1 DEF SubjectInv
    <3> QED
      BY <1>1, <1>4, <3>1, <3>2
  <2>2. CASE r = c /\ ~Active(c)
    <3>1. Look(c) /\ phase'[c] # "unresolved"
      BY <1>7, <2>2, SubjectTaken
    <3>2. /\ token'[c] \in Handles /\ Awaits(brings[token'[c]], token'[c])
          /\ subject'[c] = proposals[brings[token'[c]]].envelope
      BY <2>2, <3>1, LookFinds
    <3>3. proposals[brings[token'[c]]] # NoProposal
      BY <3>2 DEF Awaits, NoProposal
    <3>4. subject'[c] \in From(brings[token'[c]])
      BY <1>1, <3>2, <3>3 DEF SubjectInv
    <3> QED
      BY <1>1, <1>4, <2>2, <3>2, <3>3, <3>4
  <2> QED
    BY <2>1, <2>2
<1>8. ASSUME NEW r \in Resolves,
             phase'[r] \in {"fetch", "check", "record", "execute", "mark"}
      PROVE  accepted'[r]
  <2>1. CASE r # c
    BY <1>2, <1>8, <2>1 DEF SubjectInv, Calls
  <2>2. CASE r = c
    <3>1. CASE Look(c)
      BY <1>8, <2>2, <3>1, LookFinds
    <3>2. CASE ~Look(c)
      <4>1. phase[c] \in {"fetch", "check", "record", "execute"}
        BY <1>8, <2>2, <3>2, StepCases, ConstantsAssumption
           DEF Fetch, Check, Record, Answered, Execute, Throws, Mark, MarkRow, Goes,
               TypeOK
      <4>2. accepted'[c] = accepted[c]
        BY <2>2, <4>1, StepIsLocal
      <4> QED
        BY <2>2, <4>1, <4>2 DEF SubjectInv
    <3> QED
      BY <3>1, <3>2
  <2> QED
    BY <2>1, <2>2
<1> QED
  BY <1>5, <1>6, <1>7, <1>8 DEF SubjectInv

LEMMA BaseStep ==
    ASSUME BaseInv, [Next]_vars
    PROVE  BaseInv'
<1>1. CASE Next
  BY <1>1, NextIsStep, TypeStep, SubjectStep, RulingStep DEF BaseInv
<1>2. CASE UNCHANGED vars
  BY <1>2 DEF vars, given, local, bindings, stores, BaseInv, TypeOK, SubjectInv,
     RulingInv, PassInv, Active, Rules, From, Mint
<1> QED
  BY <1>1, <1>2

LEMMA BaseInductive == Spec => []BaseInv
<1>1. Init => BaseInv
  <2> SUFFICES ASSUME Init PROVE BaseInv
    OBVIOUS
  <2>1. CASE Signals # {}
    <3>1. Envelopes # {}
      <4>1. PICK s \in Signals : TRUE
        BY <2>1
      <4>2. [nonce |-> s, kind |-> "remediate", trusted |-> TRUE,
             radius |-> AutoCap] \in Envelopes
        BY DEF Envelopes, Kinds
      <4> QED
        BY <4>2
    <3>2. AnEnvelope \in Envelopes
      BY <3>1 DEF AnEnvelope
    <3>3. TypeOK
      BY <3>2, ConstantsAssumption
         DEF Init, TypeOK, Phases, Incidents, Decisions, Tokens
    <3>4. SubjectInv /\ RulingInv /\ PassInv
      BY ConstantsAssumption DEF Init, SubjectInv, RulingInv, PassInv, Active, Calls
    <3> QED
      BY <3>3, <3>4 DEF BaseInv
  <2> QED
    BY <2>1, ConstantsAssumption
<1>2. BaseInv /\ [Next]_vars => BaseInv'
  BY BaseStep
<1> QED
  BY <1>1, <1>2, PTL DEF Spec

\* The variables keep their types: what is marked or written back is a proposal.
\* (proposalStore)
THEOREM TypeCorrect == Spec => []TypeOK
BY BaseInductive, PTL DEF BaseInv

-------------------------------------------------------------------------------
(* The blast radius *)

\* Whoever is about to execute may.
LEMMA ExecutesBounded ==
    ASSUME BaseInv, NEW c \in Calls, phase[c] = "execute"
    PROVE  Bounded(c, subject[c])
<1> DEFINE e == subject[c]
<1>1. e \in Envelopes /\ (c \in Resolves) \in BOOLEAN
  BY DEF BaseInv, TypeOK
<1>2. Ruling(e, snap[c], c \in Resolves) = "EXECUTE"
  BY DEF BaseInv, RulingInv, Rules
<1>3. ASSUME c \in Resolves, e.radius >= ConfirmAt
      PROVE  accepted[c] /\ e = Mint(brings[token[c]])
  <2>1. c \notin Handles /\ Active(c)
    BY <1>3, ConstantsAssumption DEF Active
  <2>2. accepted[c] /\ e \in From(brings[token[c]])
    BY <1>3, <2>1 DEF BaseInv, SubjectInv
  <2>3. e = Clamped(Mint(brings[token[c]])) => e.radius = AutoCap
    <3>1. Mint(brings[token[c]]) \in Envelopes
      BY <1>3, <2>1, Minted DEF BaseInv, TypeOK, SubjectInv, From
    <3> QED
      BY <3>1 DEF Clamped, Envelopes
  <2> QED
    BY <1>3, <2>2, <2>3 DEF From, AutoCap, ConfirmAt
<1> HIDE DEF e
<1>4. e.kind = "remediate" =>
        /\ e.radius \in 0 .. EscalateAt - 1
        /\ ~e.trusted => e.radius <= AutoCap
        /\ e.radius >= ConfirmAt => c \in Resolves
  BY <1>1, <1>2, RulingBounds
<1>5. Bounded(c, e)
  BY <1>3, <1>4 DEF Bounded
<1> QED
  BY <1>5 DEF e

LEMMA BoundedStep ==
    ASSUME BaseInv, BoundedInv, [Next]_vars
    PROVE  BoundedInv'
<1>1. ASSUME NEW c \in Calls, Step(c)
      PROVE  BoundedInv'
  <2> SUFFICES ASSUME NEW d \in Calls, NEW e \in Envelopes, <<d, e>> \in effects'
               PROVE  phase'[d] # "idle" /\ Bounded(d, e)'
    BY DEF BoundedInv
  <2>1. phase[d] # "idle" /\ Bounded(d, e)
    <3>1. CASE <<d, e>> \in effects
      BY <3>1 DEF BoundedInv
    <3>2. CASE <<d, e>> \notin effects
      <4>1. phase[c] = "execute" /\ d = c /\ e = subject[c]
        <5>1. CASE Check(c) \/ Record(c)
          BY <1>1, <3>2, <5>1, DecidingStep DEF BaseInv
        <5>2. CASE ~Check(c) /\ ~Record(c)
          BY <1>1, <3>2, <5>2, OtherStep
        <5> QED
          BY <5>1, <5>2
      <4> QED
        BY <4>1, ExecutesBounded
    <3> QED
      BY <3>1, <3>2
  <2>2. phase'[d] # "idle"
    BY <1>1, <2>1, StepIsLocal DEF BaseInv
  <2>3. /\ d \in Resolves => token'[d] = token[d] /\ accepted'[d] = accepted[d]
        /\ UNCHANGED given
    BY <1>1, <2>1, StepIsLocal DEF BaseInv
  <2>4. d \in Resolves => Mint(brings[token[d]])' = Mint(brings[token[d]])
    BY <2>3 DEF given, Mint
  <2> QED
    BY <2>1, <2>2, <2>3, <2>4 DEF Bounded
<1>2. CASE UNCHANGED vars
  BY <1>2 DEF vars, given, bindings, stores, BoundedInv, Bounded, Mint
<1> QED
  BY <1>1, <1>2, NextIsStep

\* What runs unattended is within the cap, what needs a confirmation runs for an
\* operator who accepted that very proposal, and what must be escalated never
\* runs, whatever the incident does between the reads of its state.
\* (clampAutoRemediationScope, resolve's receipt)
THEOREM BlastRadiusBoundedHolds == Spec => []BlastRadiusBounded
<1>1. Init => BoundedInv
  BY DEF Init, BoundedInv
<1>2. BoundedInv => BlastRadiusBounded
  BY DEF BoundedInv, Bounded, BlastRadiusBounded
<1> QED
  BY <1>1, <1>2, BaseInductive, BoundedStep, PTL DEF Spec

-------------------------------------------------------------------------------
(* One run for a nonce *)

OnceBase == ledgered => ClampedInv /\ OnceInv

LEMMA LedgerGrows ==
    ASSUME BaseInv, NEW c \in Calls, Step(c)
    PROVE  ledger \subseteq ledger'
<1>1. CASE Check(c)
  BY <1>1 DEF Check, stores
<1>2. CASE Record(c)
  BY <1>2 DEF Record
<1> QED
  BY <1>1, <1>2, OtherStep

LEMMA ClampedStep ==
    ASSUME BaseInv, ledgered, ClampedInv, NEW c \in Calls, Step(c)
    PROVE  ClampedInv'
<1> USE DEF BaseInv
<1>1. /\ UNCHANGED given /\ ledger \subseteq ledger'
      /\ \A s \in Signals : Mint(s)' = Mint(s)
      /\ \A e \in Envelopes : e.nonce \in Signals
      /\ \A d \in Calls \ {c} : Active(d)' = Active(d) /\ subject'[d] = subject[d]
      /\ \A s \in Signals : Mint(s) \in Envelopes /\ Mint(s).nonce = s
  BY StepIsLocal, GivenStays, LedgerGrows, Minted DEF Envelopes, Active, TypeOK, From
<1>2. ASSUME Active(c)'
      PROVE  subject'[c] = Mint(subject'[c].nonce) \/ subject'[c] \in ledger'
  <2>1. CASE Active(c)
    BY <1>1, <2>1, SubjectStays DEF ClampedInv, TypeOK
  <2>2. CASE ~Active(c) /\ c \in Handles
    <3>1. subject'[c] = Mint(brings[c]) /\ brings[c] \in Signals
      BY <1>2, <2>2, SubjectTaken, ConstantsAssumption DEF TypeOK
    <3> QED
      BY <1>1, <3>1
  <2>3. CASE ~Active(c) /\ c \notin Handles
    <3>1. /\ token'[c] \in Handles /\ Awaits(brings[token'[c]], token'[c])
          /\ subject'[c] = proposals[brings[token'[c]]].envelope
      BY <1>2, <2>3, SubjectTaken, LookFinds
    <3> DEFINE s == brings[token'[c]]
    <3>2. s \in Signals /\ proposals[s] # NoProposal
      BY <3>1 DEF TypeOK, Awaits, NoProposal
    <3>3. subject'[c] = Mint(s) \/ subject'[c] \in ledger
      BY <3>1, <3>2 DEF ClampedInv
    <3> QED
      BY <1>1, <3>2, <3>3
  <2> QED
    BY <2>1, <2>2, <2>3
<1>3. ASSUME NEW s \in Signals, proposals'[s] # NoProposal
      PROVE  proposals'[s].envelope = Mint(s) \/ proposals'[s].envelope \in ledger'
  <2>1. CASE proposals'[s] = proposals[s]
    BY <1>1, <1>3, <2>1 DEF ClampedInv
  <2>2. CASE /\ c \in Handles /\ brings[c] = s /\ Propose(c)
             /\ proposals'[s].envelope = subject[c]
    <3>1. Active(c) /\ subject[c] \in From(s)
      BY <2>2 DEF Propose, Goes, Active, SubjectInv
    <3>2. subject[c].nonce = s
      BY <3>1, Minted DEF TypeOK
    <3> QED
      BY <1>1, <2>2, <3>1, <3>2 DEF ClampedInv
  <2>3. CASE /\ proposals[s] \in Proposals
             /\ proposals'[s].envelope = proposals[s].envelope
    <3>1. proposals[s] # NoProposal
      BY <2>3 DEF NoProposal, Proposals, Statuses
    <3> QED
      BY <1>1, <2>3, <3>1 DEF ClampedInv
  <2> QED
    BY <2>1, <2>2, <2>3, ProposalsWritten
<1>4. \A d \in Calls : subject'[d] \in Envelopes
  BY TypeStep DEF TypeOK
<1>5. ASSUME NEW d \in Calls, Active(d)'
      PROVE  (subject[d] = Mint(subject[d].nonce) \/ subject[d] \in ledger)'
  <2>1. subject'[d] = Mint(subject'[d].nonce) \/ subject'[d] \in ledger'
    BY <1>1, <1>2, <1>5 DEF ClampedInv
  <2>2. Mint(subject[d].nonce)' = Mint(subject'[d].nonce)
    BY <1>1 DEF Mint, given
  <2> QED
    BY <2>1, <2>2
<1>6. ASSUME NEW s \in Signals, (proposals[s] # NoProposal)'
      PROVE  (proposals[s].envelope = Mint(s) \/ proposals[s].envelope \in ledger)'
  BY <1>1, <1>3, <1>6
<1> QED
  BY <1>5, <1>6 DEF ClampedInv

\* A run begins with a claim of the free key of its envelope.
LEMMA RunsAfterClaim ==
    ASSUME BaseInv, ledgered, NEW c \in Calls, Step(c),
           NEW d \in Calls, NEW e \in Envelopes, Ran(d, e)'
    PROVE  \/ Ran(d, e)
           \/ /\ d = c /\ e = subject[c] /\ phase[c] = "record"
              /\ e \notin ledger /\ e \in ledger'
<1> USE DEF BaseInv
<1>1. CASE Check(c) \/ Record(c)
  <2>1. effects' = effects
    BY <1>1, DecidingStep
  <2>2. CASE <<d, e>> \in effects
    BY <2>2 DEF Ran
  <2>3. CASE <<d, e>> \notin effects /\ d # c
    <3>1. phase[d] = "execute" /\ subject[d] = e
      BY <2>1, <2>3, StepIsLocal DEF Ran
    <3> QED
      BY <3>1 DEF Ran
  <2>4. CASE <<d, e>> \notin effects /\ d = c
    <3>1. phase'[c] = "execute" /\ subject'[c] = e
      BY <2>1, <2>4 DEF Ran
    <3>2. PICK from \in {"check", "record"}, decision \in {"REFUSE", Rules(c)} :
            /\ Answered(c, from, decision)
            /\ decision \in Decisions
            /\ from = "check" /\ Grants(decision) => ~ledgered
            /\ from = "record" =>
                 /\ ledger' = ledger \cup {Claims(subject[c], Rules(c))}
                 /\ decision # "REFUSE" =>
                        Claims(subject[c], Rules(c)) \notin ledger
      BY <1>1, <3>1, DecidingStep
    <3>3. decision = "EXECUTE" /\ phase[c] = from /\ subject'[c] = subject[c]
      BY <3>1, <3>2, DecisionMade
    <3>4. from = "record" /\ Claims(subject[c], Rules(c)) = subject[c]
      BY <3>2, <3>3 DEF Grants, Claims
    <3> QED
      BY <2>4, <3>1, <3>2, <3>3, <3>4
  <2> QED
    BY <2>2, <2>3, <2>4
<1>2. CASE ~Check(c) /\ ~Record(c)
  <2>1. phase'[d] = "execute" => phase[d] = "execute" /\ subject'[d] = subject[d]
    BY <1>2, OtherStep, StepIsLocal
  <2>2. <<d, e>> \in effects' /\ <<d, e>> \notin effects =>
          d = c /\ e = subject[c] /\ phase[c] = "execute"
    BY <1>2, OtherStep
  <2> QED
    BY <2>1, <2>2 DEF Ran
<1> QED
  BY <1>1, <1>2

LEMMA OnceStep ==
    ASSUME BaseInv, ledgered, ClampedInv, OnceInv, NEW c \in Calls, Step(c)
    PROVE  OnceInv'
<1>1. /\ ledger \subseteq ledger'
      /\ \A e \in Envelopes : Mint(e.nonce)' = Mint(e.nonce)
      /\ \A d \in Calls \ {c} : phase'[d] = phase[d] /\ subject'[d] = subject[d]
  BY LedgerGrows, StepIsLocal, GivenStays DEF BaseInv, Envelopes
<1>2. ASSUME NEW d \in Calls, (phase[d] = "record")'
      PROVE  (subject[d] = Mint(subject[d].nonce))'
  <2>1. subject[d] = Mint(subject[d].nonce) /\ subject'[d] = subject[d]
    <3>1. CASE d # c
      BY <1>1, <1>2, <3>1 DEF OnceInv
    <3>2. CASE d = c
      <4>1. Check(c) \/ Record(c)
        BY <1>2, <3>2, OtherStep
      <4>2. /\ phase[c] = "check" /\ UNCHANGED subject
            /\ subject[c] \notin ledger
        BY <1>2, <3>2, <4>1, DecidingStep, DecisionMade DEF BaseInv
      <4>3. Active(c)
        BY <4>2 DEF Active
      <4> QED
        BY <3>2, <4>2, <4>3 DEF ClampedInv
    <3> QED
      BY <3>1, <3>2
  <2> QED
    BY <1>1, <2>1, StepIsLocal DEF Mint, given, BaseInv
<1>3. ASSUME NEW d \in Calls, NEW e \in Envelopes, Ran(d, e)'
      PROVE  (e = Mint(e.nonce) /\ e \in ledger)'
  <2>1. CASE Ran(d, e)
    BY <1>1, <2>1 DEF OnceInv
  <2>2. CASE d = c /\ e = subject[c] /\ phase[c] = "record" /\ e \in ledger'
    BY <1>1, <2>2 DEF OnceInv
  <2> QED
    BY <1>3, <2>1, <2>2, RunsAfterClaim
<1>4. ASSUME NEW d \in Calls, NEW f \in Calls, NEW e \in Envelopes,
             Ran(d, e)', Ran(f, e)'
      PROVE  d = f
  <2>1. /\ Ran(d, e) \/ (d = c /\ e \notin ledger)
        /\ Ran(f, e) \/ (f = c /\ e \notin ledger)
    BY <1>4, RunsAfterClaim
  <2> QED
    BY <2>1 DEF OnceInv
<1> QED
  BY <1>2, <1>3, <1>4 DEF OnceInv

LEMMA OnceBaseStep ==
    ASSUME BaseInv, OnceBase, [Next]_vars
    PROVE  OnceBase'
<1>1. CASE Next
  <2>1. PICK c \in Calls : Step(c)
    BY <1>1, NextIsStep
  <2>2. ledgered' = ledgered
    BY <2>1, StepIsLocal DEF BaseInv, given
  <2> QED
    BY <2>1, <2>2, ClampedStep, OnceStep DEF OnceBase
<1>2. CASE UNCHANGED vars
  BY <1>2 DEF vars, given, local, bindings, stores, OnceBase, ClampedInv, OnceInv,
     Active, Ran, Mint
<1> QED
  BY <1>1, <1>2

LEMMA OnceInductive == Spec => []OnceBase
<1>1. Init => OnceBase
  BY DEF Init, OnceBase, ClampedInv, OnceInv, Active, Ran
<1> QED
  BY <1>1, BaseInductive, OnceBaseStep, PTL DEF Spec

\* However often a signal is handled and its proposal approved, a wired ledger
\* lets the executor run once for its nonce: only the envelope of the signal can
\* find its key free and be executed, the clamped one is claimed before anybody
\* adjudicates it by itself.  (deps.ledger)
THEOREM OnePerNonceHolds == Spec => []OnePerNonce
<1>1. BaseInv /\ OnceBase => OnePerNonce
  <2> SUFFICES ASSUME BaseInv, OnceInv, NEW run1 \in effects, NEW run2 \in effects,
                      run1[2].nonce = run2[2].nonce
               PROVE  run1 = run2
    BY DEF OnceBase, OnePerNonce
  <2>1. PICK c1 \in Calls, e1 \in Envelopes : run1 = <<c1, e1>>
    BY DEF BaseInv, TypeOK
  <2>2. PICK c2 \in Calls, e2 \in Envelopes : run2 = <<c2, e2>>
    BY DEF BaseInv, TypeOK
  <2>3. Ran(c1, e1) /\ Ran(c2, e2) /\ e1.nonce = e2.nonce
    BY <2>1, <2>2 DEF Ran
  <2>4. e1 = e2
    BY <2>3 DEF OnceInv
  <2>5. c1 = c2
    BY <2>3, <2>4 DEF OnceInv
  <2> QED
    BY <2>1, <2>2, <2>4, <2>5
<1> QED
  BY <1>1, BaseInductive, OnceInductive, PTL

-------------------------------------------------------------------------------
(* The orchestrator keeps the promise of the ledger *)

\* What a step writes to the ledger and to the runs.
LEMMA StoresWritten ==
    ASSUME BaseInv, NEW c \in Calls, Step(c)
    PROVE  \/ UNCHANGED <<ledger, effects>>
           \/ /\ UNCHANGED effects
              /\ \E e \in Envelopes : ledger' = ledger \cup {e}
           \/ /\ phase[c] = "execute" /\ UNCHANGED ledger
              /\ effects' = effects \cup {<<c, subject[c]>>}
<1>1. Claims(subject[c], Rules(c)) \in Envelopes
  <2>1. subject[c] \in Envelopes
    BY DEF BaseInv, TypeOK
  <2>2. Clamped(subject[c]) \in Envelopes
    BY <2>1 DEF Clamped, Envelopes
  <2> QED
    BY <2>1, <2>2 DEF Claims
<1>2. CASE Fetch(c) \/ Check(c)
  BY <1>2 DEF Fetch, Check, stores
<1>3. CASE Record(c)
  BY <1>1, <1>3 DEF Record
<1>4. CASE Execute(c)
  BY <1>4 DEF Execute, Goes
<1>5. CASE Throws(c)
  BY <1>1, <1>5 DEF Throws, Goes
<1>6. CASE c \in Handles /\ (Register(c) \/ Propose(c))
  BY <1>6 DEF Register, Propose
<1>7. CASE c \in Resolves /\ (Look(c) \/ Mark(c) \/ MarkRow(c))
  BY <1>7 DEF Look, Mark, MarkRow
<1> QED
  BY <1>2, <1>3, <1>4, <1>5, <1>6, <1>7, StepCases

\* A nonce that has run is held.
LEMMA RanIsHeld ==
    ASSUME BaseInv, OnceBase, NEW s \in Signals, ~Held[s]
    PROVE  By[s] = {}
<1>1. ASSUME ledgered, NEW c \in Calls, NEW e \in Envelopes, e.nonce = s,
             <<c, e>> \in effects
      PROVE  FALSE
  <2>1. e \in ledger
    BY <1>1 DEF OnceBase, OnceInv, Ran
  <2> QED
    BY <1>1, <2>1 DEF Held
<1> QED
  BY <1>1 DEF By

LEMMA ClaimAcquires ==
    ASSUME BaseInv, OnceBase, UNCHANGED <<ledgered, effects>>,
           NEW e \in Envelopes, ledger' = ledger \cup {e}
    PROVE  Abstract!Next \/ UNCHANGED <<Held, By>>
<1> DEFINE s == e.nonce
           before(n) == ledgered /\ \E f \in ledger : f.nonce = n
           after(n) == ledgered' /\ \E f \in ledger' : f.nonce = n
<1>1. /\ s \in Signals
      /\ Held = [n \in Signals |-> before(n)] /\ Held' = [n \in Signals |-> after(n)]
  BY DEF Held, Envelopes
<1>2. UNCHANGED By
  BY DEF By
<1>3. \A n \in Signals : before(n) \in BOOLEAN /\ after(n) \in BOOLEAN
  OBVIOUS
<1>4. \A n \in Signals : n # s => (after(n) <=> before(n))
  OBVIOUS
<1>5. before(s) => after(s)
  OBVIOUS
<1>6. ledgered => after(s)
  OBVIOUS
<1>7. ~ledgered => ~before(s) /\ ~after(s)
  OBVIOUS
<1> HIDE DEF s, before, after
<1>8. CASE before(s) \/ ~ledgered
  <2>1. \A n \in Signals : after(n) = before(n)
    BY <1>3, <1>4, <1>5, <1>7, <1>8
  <2> QED
    BY <1>1, <1>2, <2>1
<1>9. CASE ~before(s) /\ ledgered
  <2>1. ~Held[s]
    BY <1>1, <1>9
  <2>2. By[s] = {}
    BY <1>1, <2>1, RanIsHeld
  <2>3. \A n \in Signals : after(n) = IF n = s THEN TRUE ELSE before(n)
    BY <1>3, <1>4, <1>6, <1>9
  <2>4. Held' = [Held EXCEPT ![s] = TRUE]
    BY <1>1, <2>3
  <2> QED
    BY <1>1, <1>2, <2>1, <2>2, <2>4 DEF Abstract!Next, Abstract!Acquire
<1> QED
  BY <1>8, <1>9

LEMMA RunPerforms ==
    ASSUME BaseInv, OnceBase, UNCHANGED <<ledgered, ledger>>, NEW c \in Calls,
           phase[c] = "execute", effects' = effects \cup {<<c, subject[c]>>}
    PROVE  Abstract!Next \/ UNCHANGED <<Held, By>>
<1> DEFINE e == subject[c]
           s == e.nonce
<1>1. e \in Envelopes /\ s \in Signals
  BY DEF BaseInv, TypeOK, Envelopes
<1>2. UNCHANGED Held
  BY DEF Held
<1>3. CASE ~ledgered \/ <<c, e>> \in effects
  <2>1. UNCHANGED By
    BY <1>3 DEF By
  <2> QED
    BY <1>2, <2>1
<1>4. CASE ledgered /\ <<c, e>> \notin effects
  <2>1. Ran(c, e) /\ e = Mint(s) /\ e \in ledger
    BY <1>1, <1>4 DEF OnceBase, OnceInv, Ran
  <2>2. Held[s]
    BY <1>1, <1>4, <2>1 DEF Held
  <2>3. \A d \in Calls, f \in Envelopes : f.nonce = s => <<d, f>> \notin effects
    <3> SUFFICES ASSUME NEW d \in Calls, NEW f \in Envelopes, f.nonce = s,
                        <<d, f>> \in effects
                 PROVE  FALSE
      OBVIOUS
    <3>1. Ran(d, f) /\ f = e
      BY <1>4, <2>1 DEF OnceBase, OnceInv, Ran
    <3>2. d = c
      BY <1>1, <1>4, <2>1, <3>1 DEF OnceBase, OnceInv
    <3> QED
      BY <1>4, <3>1, <3>2
  <2>4. By[s] = {}
    BY <1>1, <2>3 DEF By
  <2>5. By' = [By EXCEPT ![s] = {c}]
    <3> DEFINE before(d, n) == ledgered /\ \E f \in Envelopes :
                                   f.nonce = n /\ <<d, f>> \in effects
               after(d, n) == ledgered' /\ \E f \in Envelopes :
                                   f.nonce = n /\ <<d, f>> \in effects'
    <3>1. /\ By = [n \in Signals |-> {d \in Calls : before(d, n)}]
          /\ By' = [n \in Signals |-> {d \in Calls : after(d, n)}]
      BY DEF By
    <3>2. \A d \in Calls : after(d, s) <=> d = c
      BY <1>1, <1>4, <2>3
    <3>3. \A d \in Calls, n \in Signals : n # s => (after(d, n) <=> before(d, n))
      BY <1>1, <1>4
    <3> HIDE DEF before, after, s, e
    <3>4. \A n \in Signals :
            {d \in Calls : after(d, n)} =
                IF n = s THEN {c} ELSE {d \in Calls : before(d, n)}
      BY <3>2, <3>3
    <3> QED
      BY <3>1, <3>4
  <2> QED
    BY <1>1, <1>2, <2>2, <2>4, <2>5 DEF Abstract!Next, Abstract!Perform
<1> QED
  BY <1>3, <1>4

\* Every step of the calls that share a ledger claims a nonce that is free,
\* performs it for the first time while it is held, or leaves both alone.
\* (deps.ledger: handle() and resolve() over one execution ledger)
THEOREM Refinement == Spec => ImplementsOnceOnly
<1>1. Init => Abstract!Init
  <2> SUFFICES ASSUME Init
               PROVE  /\ Held = [s \in Signals |-> FALSE]
                      /\ By = [s \in Signals |-> {}]
    BY DEF Abstract!Init
  <2> DEFINE claimed(s) == ledgered /\ \E e \in ledger : e.nonce = s
  <2>1. Held = [s \in Signals |-> claimed(s)]
    BY DEF Held
  <2>2. \A s \in Signals : claimed(s) \in BOOLEAN /\ ~claimed(s)
    BY DEF Init
  <2>3. By = [s \in Signals |-> {}]
    BY DEF Init, By
  <2> HIDE DEF claimed
  <2>4. \A s \in Signals : claimed(s) = FALSE
    BY <2>2
  <2> QED
    BY <2>1, <2>3, <2>4
<1>2. BaseInv /\ OnceBase /\ [Next]_vars => [Abstract!Next]_<<Held, By>>
  <2> SUFFICES ASSUME BaseInv, OnceBase, [Next]_vars
               PROVE  Abstract!Next \/ UNCHANGED <<Held, By>>
    OBVIOUS
  <2>1. ASSUME UNCHANGED <<ledgered, ledger, effects>>
        PROVE  UNCHANGED <<Held, By>>
    BY <2>1 DEF Held, By
  <2>2. CASE UNCHANGED vars
    BY <2>1, <2>2 DEF vars, given, stores
  <2>3. CASE Next
    <3>1. PICK c \in Calls : Step(c)
      BY <2>3, NextIsStep
    <3>2. UNCHANGED ledgered
      BY <3>1, StepIsLocal DEF BaseInv, given
    <3> QED
      BY <2>1, <3>1, <3>2, StoresWritten, ClaimAcquires, RunPerforms
  <2> QED
    BY <2>2, <2>3
<1> QED
  BY <1>1, <1>2, BaseInductive, OnceInductive, PTL
     DEF Spec, ImplementsOnceOnly, Abstract!Spec

-------------------------------------------------------------------------------
(* The proposals that wait *)

LEMMA PendingStep ==
    ASSUME BaseInv, PendingInv, NEW c \in Calls, Step(c)
    PROVE  PendingInv'
<1> USE DEF BaseInv
<1>1. /\ UNCHANGED given
      /\ \A h \in Handles : brings'[h] = brings[h] /\ brings[h] \in Signals
      /\ Handles \subseteq Calls /\ Resolves \subseteq Calls
      /\ \A d \in Calls \ {c} :
            /\ phase'[d] = phase[d] /\ answer'[d] = answer[d]
            /\ Active(d)' = Active(d)
      /\ \A r \in Resolves :
            r # c \/ phase[c] # "idle" => token'[r] = token[r]
      /\ phase[c] # "done"
      /\ c \in Resolves => c \notin Handles
  BY StepIsLocal, ConstantsAssumption DEF given, Active, TypeOK, Calls
\* What has been proposed with a token, or waits to be, can be answered.
<1>2. ASSUME NEW h \in Handles,
             \/ phase[h] = "propose" /\ answer[h] = "REQUEST_CONFIRMATION"
             \/ /\ proposals[brings[h]].status = "pending_review"
                /\ proposals[brings[h]].token = h,
             registry[h] = "pending"
      PROVE  registry'[h] = "pending"
  <2>1. CASE c \in Resolves /\ phase[c] = "row" /\ token[c] = h
    <3>1. Active(c)
      BY <1>1, <2>1 DEF Active
    <3>2. phase[h] = "done" /\ ~Awaits(brings[h], h)
      BY <2>1, <3>1 DEF PendingInv
    <3> QED
      BY <1>2, <3>2 DEF Awaits
  <2>2. CASE ~(c \in Resolves /\ phase[c] = "row" /\ token[c] = h)
    BY <1>2, <2>2, RegistryWritten
  <2> QED
    BY <2>1, <2>2
<1>3. ASSUME NEW s \in Signals, (proposals[s].status = "pending_review")'
      PROVE  (/\ proposals[s].token \in Handles
              /\ brings[proposals[s].token] = s
              /\ phase[proposals[s].token] = "done"
              /\ registry[proposals[s].token] = "pending")'
  <2>1. CASE proposals'[s] = proposals[s]
    <3>1. /\ proposals[s].token \in Handles
          /\ brings[proposals[s].token] = s
          /\ phase[proposals[s].token] = "done"
          /\ registry[proposals[s].token] = "pending"
      BY <1>3, <2>1 DEF PendingInv
    <3> QED
      BY <1>1, <1>2, <1>3, <2>1, <3>1
  <2>2. CASE /\ c \in Handles /\ brings[c] = s /\ Propose(c)
             /\ answer[c] = "REQUEST_CONFIRMATION"
             /\ proposals'[s].token = c
    <3>1. phase[c] = "propose" /\ phase'[c] = "done" /\ registry' = registry
      BY <2>2 DEF Propose, Goes, TypeOK
    <3>2. registry[c] = "pending"
      BY <2>2, <3>1 DEF PendingInv
    <3> QED
      BY <1>1, <2>2, <3>1, <3>2
  <2> QED
    BY <1>3, <2>1, <2>2, ProposalsWritten
<1>4. ASSUME NEW h \in Handles,
             (phase[h] = "propose" /\ answer[h] = "REQUEST_CONFIRMATION")'
      PROVE  registry'[h] = "pending"
  <2>1. CASE phase[h] = "propose" /\ answer[h] = "REQUEST_CONFIRMATION"
    BY <1>2, <2>1 DEF PendingInv
  <2>2. CASE ~(phase[h] = "propose" /\ answer[h] = "REQUEST_CONFIRMATION")
    <3>1. h = c
      BY <1>1, <1>4, <2>2
    <3>2. CASE Check(c) \/ Record(c)
      BY <1>4, <3>1, <3>2, DecidingStep, DecisionMade
    <3>3. CASE Execute(c)
      <4>1. answer'[c] = "EXECUTE"
        BY <1>1, <3>3 DEF Execute, Goes, local, RulingInv
      <4> QED
        BY <1>4, <3>1, <4>1
    <3>4. CASE Register(c)
      BY <3>1, <3>4, RegistryWritten
    <3>5. CASE Fetch(c) \/ Throws(c) \/ Propose(c)
      BY <1>1, <1>4, <3>1, <3>5 DEF Fetch, Throws, Propose, Goes, TypeOK
    <3> QED
      BY <1>1, <3>1, <3>2, <3>3, <3>4, <3>5, StepCases
  <2> QED
    BY <2>1, <2>2
<1>5. ASSUME NEW r \in Resolves, Active(r)'
      PROVE  (/\ phase[token[r]] = "done"
              /\ phase[r] = "row" => ~Awaits(brings[token[r]], token[r]))'
  <2> r \in Calls /\ r \notin Handles
    BY <1>1, ConstantsAssumption
  <2>1. CASE r # c \/ Active(c)
    <3> DEFINE t == token[r]
               s == brings[t]
    <3>1. Active(r) /\ token'[r] = t /\ (r = c => phase[c] # "idle")
      <4>1. CASE r # c
        BY <1>1, <1>5, <4>1
      <4>2. CASE r = c
        <5>1. phase[c] # "idle"
          BY <2>1, <4>2 DEF Active
        <5> QED
          BY <1>1, <2>1, <4>2, <5>1
      <4> QED
        BY <4>1, <4>2
    <3>2. t \in Handles /\ s \in Signals /\ phase[t] = "done" /\ s = brings'[t]
      BY <1>1, <3>1 DEF PendingInv, SubjectInv
    <3>3. phase'[t] = "done"
      BY <1>1, <3>2
    <3>4. ~Awaits(s, t) => ~(/\ proposals'[s].status = "pending_review"
                             /\ proposals'[s].token = t)
      <4>1. CASE proposals'[s] = proposals[s]
        BY <4>1 DEF Awaits
      <4>2. CASE Propose(c) /\ c \in Handles /\ proposals'[s].token \in {c, NoCall}
        <5>1. c # t /\ NoCall # t
          BY <1>1, <3>2, ConstantsAssumption
        <5> QED
          BY <4>2, <5>1
      <4>3. CASE proposals'[s].status # "pending_review"
        BY <4>3
      <4> QED
        BY <3>2, <4>1, <4>2, <4>3, ProposalsWritten
    <3>5. phase'[r] = "row" /\ phase[r] # "row" => proposals'[s].status # "pending_review"
      <4> SUFFICES ASSUME phase'[r] = "row", phase[r] # "row"
                   PROVE  proposals'[s].status # "pending_review"
        OBVIOUS
      <4>1. r = c
        BY <1>1
      <4>2. ~Look(c)
        BY <3>1, <4>1, LookFinds
      <4>3. Mark(c)
        <5>1. ~Check(c) /\ ~Record(c)
          BY <4>1, DecidingStep, DecisionMade
        <5> QED
          BY <4>1, <4>2, <5>1, StepCases DEF Fetch, Execute, Throws, MarkRow, Goes, TypeOK
      <4>4. PICK status \in {"executed", "refused"} : Settle(s, status)
        BY <4>1, <4>3 DEF Mark
      <4>5. proposals[s] \in Proposals
        BY <3>1, <3>2 DEF SubjectInv, TypeOK
      <4>6. proposals'[s] = [proposals[s] EXCEPT !.status = status]
        BY <3>2, <4>4 DEF Settle, TypeOK
      <4> QED
        BY <4>5, <4>6 DEF Proposals
    <3>6. phase[r] = "row" => ~Awaits(s, t)
      BY <3>1 DEF PendingInv
    <3> QED
      BY <3>1, <3>2, <3>3, <3>4, <3>5, <3>6 DEF Awaits
  <2>2. CASE r = c /\ ~Active(c)
    <3> DEFINE t == token'[c]
               s == brings[t]
    <3>1. Look(c) /\ phase'[c] # "unresolved"
      BY <1>5, <2>2, SubjectTaken
    <3>2. /\ t \in Handles /\ Awaits(s, t)
          /\ phase'[c] = "row" => Settle(s, "declined")
      BY <2>2, <3>1, LookFinds
    <3>3. s \in Signals /\ phase'[t] = "done" /\ s = brings'[t]
      BY <1>1, <3>2 DEF PendingInv, Awaits
    <3>4. phase'[c] = "row" => proposals'[s].status # "pending_review"
      <4> SUFFICES ASSUME phase'[c] = "row"
                   PROVE  proposals'[s].status # "pending_review"
        OBVIOUS
      <4>1. proposals[s] \in Proposals
        BY <3>2, <3>3 DEF Awaits, NoProposal, TypeOK
      <4>2. proposals'[s] = [proposals[s] EXCEPT !.status = "declined"]
        BY <3>2, <3>3 DEF Settle, TypeOK
      <4> QED
        BY <4>1, <4>2 DEF Proposals
    <3> QED
      BY <2>2, <3>3, <3>4 DEF Awaits
  <2> QED
    BY <2>1, <2>2
<1> QED
  BY <1>3, <1>4, <1>5 DEF PendingInv

LEMMA PendingNext ==
    ASSUME BaseInv, PendingInv, [Next]_vars
    PROVE  PendingInv'
<1>1. CASE Next
  BY <1>1, NextIsStep, PendingStep
<1>2. CASE UNCHANGED vars
  BY <1>2 DEF vars, given, local, bindings, stores, PendingInv, Active, Awaits
<1> QED
  BY <1>1, <1>2

\* A proposal that waits for review can be found and answered: its row was
\* registered before it, and is marked only after the proposal is settled, which
\* never waits under that token again.  (recordProposal, resolve)
THEOREM PendingCanBeAnsweredHolds == Spec => []PendingCanBeAnswered
<1>1. Init => PendingInv
  BY ConstantsAssumption DEF Init, PendingInv, Active, NoProposal, Calls
<1>2. PendingInv => PendingCanBeAnswered
  BY ConstantsAssumption DEF PendingInv, PendingCanBeAnswered
<1> QED
  BY <1>1, <1>2, BaseInductive, PendingNext, PTL DEF Spec

-------------------------------------------------------------------------------
(* Every call comes to its end *)

\* Awaits that a call has at most before it, within a pass.
Rank(c) ==
    CASE phase[c] = "idle"               -> 8
      [] phase[c] = "fetch"              -> 7
      [] phase[c] = "check"              -> 6
      [] phase[c] = "record"             -> 5
      [] phase[c] = "execute"            -> 4
      [] phase[c] = "register"           -> 3
      [] phase[c] \in {"propose", "mark"} -> 2
      [] phase[c] = "row"                -> 1
      [] OTHER                           -> 0

\* Passes of the loop in handle(); resolve() has none.
Passed(c) == IF c \in Handles THEN pass[c] ELSE 0

Nearer(c) ==
    \/ Passed(c)' > Passed(c)
    \/ Passed(c)' = Passed(c) /\ Rank(c)' < Rank(c)

LEMMA AnswerNearer ==
    ASSUME BaseInv, NEW c \in Calls, NEW from \in {"check", "record"},
           NEW decision \in Decisions, Answered(c, from, decision)
    PROVE  Nearer(c) /\ \A d \in Calls \ {c} : Passed(d)' = Passed(d)
<1>1. /\ phase[c] = from /\ phase'[c] = Turns(c, decision)
      /\ IF c \in Handles /\ decision = "REWRITE"
         THEN pass' = [pass EXCEPT ![c] = @ + 1]
         ELSE UNCHANGED pass
  BY DEF Answered, Goes, BaseInv, TypeOK
<1>2. CASE c \in Handles /\ decision = "REWRITE"
  <2>1. pass[c] \in Nat /\ pass'[c] = pass[c] + 1
    BY <1>1, <1>2, ConstantsAssumption DEF BaseInv, TypeOK
  <2>2. Passed(c)' > Passed(c)
    BY <1>2, <2>1 DEF Passed
  <2> QED
    BY <1>1, <1>2, <2>2 DEF Nearer, Passed, BaseInv, TypeOK
<1>3. CASE ~(c \in Handles /\ decision = "REWRITE")
  <2>1. \A d \in Calls : Passed(d)' = Passed(d)
    BY <1>1, <1>3 DEF Passed
  <2>2. Rank(c) \in {5, 6}
    BY <1>1 DEF Rank
  <2>3. phase'[c] \in {"execute", "register", "propose", "mark"}
    BY <1>1, <1>3 DEF Turns, HandleTurns, ResolveTurns
  <2>4. Rank(c)' \in {2, 3, 4}
    BY <2>3 DEF Rank
  <2> QED
    BY <2>1, <2>2, <2>4 DEF Nearer
<1> QED
  BY <1>2, <1>3

LEMMA StepNearer ==
    ASSUME BaseInv, NEW c \in Calls, Step(c)
    PROVE  Nearer(c) /\ \A d \in Calls \ {c} : Passed(d)' = Passed(d)
<1> USE DEF BaseInv, TypeOK
<1>1. ASSUME UNCHANGED pass, Rank(c)' < Rank(c)
      PROVE  Nearer(c) /\ \A d \in Calls \ {c} : Passed(d)' = Passed(d)
  BY <1>1 DEF Nearer, Passed
<1>2. ASSUME NEW from, NEW to, Goes(c, from, to)
      PROVE  phase[c] = from /\ phase'[c] = to
  BY <1>2 DEF Goes
<1>3. CASE Check(c) \/ Record(c)
  <2>1. CASE phase[c] = "check" /\ phase'[c] = "record" /\ UNCHANGED pass
    BY <1>1, <2>1 DEF Rank
  <2>2. CASE \E from \in {"check", "record"}, decision \in {"REFUSE", Rules(c)} :
                Answered(c, from, decision) /\ decision \in Decisions
    BY <2>2, AnswerNearer
  <2> QED
    BY <1>3, <2>1, <2>2, DecidingStep
<1>4. CASE Fetch(c)
  <2>1. UNCHANGED pass /\ phase[c] \in {"idle", "fetch"} /\ phase'[c] = "check"
    BY <1>2, <1>4 DEF Fetch
  <2> QED
    BY <1>1, <2>1 DEF Rank
<1>5. CASE Execute(c)
  <2>1. UNCHANGED pass /\ phase[c] = "execute" /\ phase'[c] \in {"propose", "mark"}
    BY <1>2, <1>5 DEF Execute, local
  <2> QED
    BY <1>1, <2>1 DEF Rank
<1>6. CASE Throws(c)
  <2>1. /\ UNCHANGED pass /\ phase'[c] = "rejected"
        /\ phase[c] \in {"fetch", "check", "record", "register", "row", "execute"}
    BY <1>2, <1>6 DEF Throws, local
  <2> QED
    BY <1>1, <2>1 DEF Rank
<1>7. CASE c \in Handles /\ (Register(c) \/ Propose(c))
  <2>1. /\ UNCHANGED pass
        /\ \/ phase[c] = "register" /\ phase'[c] = "propose"
           \/ phase[c] = "propose" /\ phase'[c] = "done"
    BY <1>2, <1>7 DEF Register, Propose, local
  <2> QED
    BY <1>1, <2>1 DEF Rank
<1>8. CASE c \in Resolves /\ (Look(c) \/ Mark(c) \/ MarkRow(c))
  <2>1. /\ UNCHANGED pass
        /\ \/ phase[c] = "idle" /\ phase'[c] \in {"fetch", "row", "unresolved"}
           \/ phase[c] = "mark" /\ phase'[c] = "row"
           \/ phase[c] = "row" /\ phase'[c] = "done"
    BY <1>2, <1>8 DEF Look, Mark, MarkRow, local
  <2> QED
    BY <1>1, <2>1 DEF Rank
<1> QED
  BY <1>3, <1>4, <1>5, <1>6, <1>7, <1>8, StepCases

\* Every step brings one call nearer to its end and leaves the others where they
\* are: rounds of adjudication are used up (TypeCorrect allows maxPasses of them),
\* and within a round the awaits only follow each other.  (the loop in handle(),
\* resolve())
THEOREM CallsEnd ==
    Spec => [][\E c \in Calls :
                  /\ Nearer(c)
                  /\ \A d \in Calls \ {c} :
                         phase'[d] = phase[d] /\ Passed(d)' = Passed(d)]_vars
<1>1. BaseInv /\ [Next]_vars =>
        [\E c \in Calls :
            /\ Nearer(c)
            /\ \A d \in Calls \ {c} :
                   phase'[d] = phase[d] /\ Passed(d)' = Passed(d)]_vars
  <2> SUFFICES ASSUME BaseInv, Next
               PROVE  \E c \in Calls :
                          /\ Nearer(c)
                          /\ \A d \in Calls \ {c} :
                                 phase'[d] = phase[d] /\ Passed(d)' = Passed(d)
    OBVIOUS
  <2>1. PICK c \in Calls : Step(c)
    BY NextIsStep
  <2> QED
    BY <2>1, StepNearer, StepIsLocal DEF BaseInv
<1> QED
  BY <1>1, BaseInductive, PTL DEF Spec
================================================================================
