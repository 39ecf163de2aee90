-------------------------- MODULE ApprovalEngineProofs --------------------------
(***************************************************************************)
(* Proofs about ApprovalEngine: a quorum stands behind every effect, in    *)
(* one replica votes are kept, resolved rows stay and a decline is final,  *)
(* the approved intent implements OnceOnly, and no chain of calls wedges;  *)
(* for any number of calls, any replicas, finite set of approvers and      *)
(* quorum, and under every set of faults.                                  *)
(***************************************************************************)
EXTENDS ApprovalEngine, FiniteSetTheorems, WellFoundedInduction, TLAPS

-------------------------------------------------------------------------------
(* The steps *)

\* What a single call does.
Step(c) == Proceed(c) \/ StateFails(c)

LEMMA NextIsStep ==
    ASSUME Next
    PROVE  \/ Request \/ PutRequest \/ Expire
           \/ \E a \in Ask : Resolve(a)
           \/ \E c \in Calls : Step(c)
           \/ \E r \in Replicas : Crash(r)
BY DEF Next, Step

\* Calls that have not arrived are idle; those that have are not.
ArrivedInv == \A c \in Calls : pc[c] = "idle" <=> c > arrived

\* A call in flight has had its turn: those before it at its replica are over.
SerialInv == \A c \in Calls : pc[c] \in InFlight => Turn(c)

\* The row is there once request() has put it, and was there for every call that
\* passed the gates.
RowInv ==
    /\ row = NoRow <=> requested # "done"
    /\ \A c \in Calls : pc[c] \in InFlight \cup {"waiting"} => row # NoRow

\* A call that is about to mark the row knows what it resolved.
MarkInv ==
    \A c \in Calls :
        pc[c] \in {"mark", "set"} => marks[c] \in {"approved", "declined", "expired"}

BaseInv == TypeOK /\ ArrivedInv /\ SerialInv /\ RowInv /\ MarkInv

\* A call moves on from where it stands, and from the queue only in its turn.
LEMMA StepGoes ==
    ASSUME BaseInv, NEW c \in Calls, Step(c)
    PROVE  /\ \E from \in InFlight \cup {"queued"}, to \in InFlight \cup Answers :
                Go(c, from, to)
           /\ pc[c] = "queued" => Turn(c)
<1> USE DEF BaseInv, TypeOK, InFlight, Answers
<1>1. CASE Enter(c)
  BY <1>1 DEF Enter, AfterGates
<1>2. CASE Vote(c)
  <2>1. \E to \in {"take", "waiting"} : Go(c, "vote", to)
    BY <1>2 DEF Vote
  <2> QED
    BY <2>1 DEF Go
<1>3. CASE Take(c)
  <2>1. \E to \in {"delete", "mark"} : Go(c, "take", to)
    BY <1>3 DEF Take, Confirmed
  <2> QED
    BY <2>1 DEF Go
<1>4. CASE Delete(c)
  <2>1. \E to \in {"adjudicate", "mark"} : Go(c, "delete", to)
    BY <1>4 DEF Delete, Confirmed
  <2> QED
    BY <2>1 DEF Go
<1>5. CASE Adjudicate(c)
  <2>1. \E to \in {"execute", "mark"} : Go(c, "adjudicate", to)
    BY <1>5 DEF Adjudicate, Confirmed
  <2> QED
    BY <2>1 DEF Go
<1>6. CASE Execute(c)
  <2>1. Go(c, "execute", "mark")
    BY <1>6 DEF Execute, Confirmed
  <2> QED
    BY <2>1 DEF Go
<1>7. CASE MarkGet(c) \/ MarkSet(c)
  <2>1. \E from \in {"mark", "set"} : Go(c, from, "set") \/ Answer(c, from)
    BY <1>7 DEF MarkGet, MarkSet
  <2>2. CASE \E from \in {"mark", "set"} : Go(c, from, "set")
    BY <2>2 DEF Go
  <2>3. ASSUME NEW from \in {"mark", "set"}, Answer(c, from)
        PROVE  \E to \in Answers : Go(c, from, to)
    <3>1. marks[c] \in {"approved", "declined", "expired"}
      BY <2>3 DEF Answer, Go, MarkInv
    <3>2. \E to \in {"confirm_rejected", "failed", "approved", "declined"} :
            Go(c, from, to)
      BY <2>3, <3>1 DEF Answer
    <3> QED
      BY <3>2
  <2> QED
    BY <2>1, <2>2, <2>3 DEF Go
<1>8. CASE StateFails(c)
  <2>1. Go(c, "take", "failed")
    BY <1>8 DEF StateFails
  <2> QED
    BY <2>1 DEF Go
<1> QED
  BY <1>1, <1>2, <1>3, <1>4, <1>5, <1>6, <1>7, <1>8 DEF Step, Proceed

\* A step of a call leaves the other calls alone.
LEMMA StepIsLocal ==
    ASSUME BaseInv, NEW c \in Calls, Step(c)
    PROVE  /\ UNCHANGED <<requested, arrived, ask>>
           /\ \A d \in Calls \ {c} : seen'[d] = seen[d] /\ marks'[d] = marks[d]
BY DEF Step, Proceed, Enter, Vote, Take, Delete, Adjudicate, Execute, MarkGet,
       MarkSet, StateFails, Confirmed, Answer, BaseInv, TypeOK

\* Where the calls stand after a step of one of them.
LEMMA StepPhases ==
    ASSUME BaseInv, NEW c \in Calls, Step(c)
    PROVE  /\ pc[c] \in InFlight \cup {"queued"}
           /\ pc'[c] \in InFlight \cup Answers
           /\ \A d \in Calls \ {c} : pc'[d] = pc[d]
           /\ c <= arrived
           /\ pc' \in [Calls -> {"idle", "queued"} \cup InFlight \cup Answers
                                  \cup Dead]
<1>1. PICK from \in InFlight \cup {"queued"}, to \in InFlight \cup Answers :
          Go(c, from, to)
  BY StepGoes
<1>2. pc[c] = from /\ pc' = [pc EXCEPT ![c] = to]
  BY <1>1 DEF Go
<1>3. pc[c] # "idle"
  BY <1>2 DEF InFlight
<1> QED
  BY <1>2, <1>3 DEF BaseInv, TypeOK, ArrivedInv, Calls

\* A replica's crash takes its queue and the call in flight.
LEMMA CrashStep ==
    ASSUME BaseInv, NEW r \in Replicas, Crash(r)
    PROVE  /\ UNCHANGED <<requested, row, token, ledger, effects, arrived, ask>>
           /\ \A c \in Calls :
                \/ pc'[c] = pc[c] /\ seen'[c] = seen[c] /\ marks'[c] = marks[c]
                \/ pc[c] = "queued" /\ pc'[c] = "dropped"
                   /\ seen'[c] = seen[c] /\ marks'[c] = marks[c]
                \/ pc[c] \in InFlight /\ pc'[c] = "crashed"
                   /\ seen'[c] = NoRow /\ marks'[c] = "pending"
                \/ pc'[c] = "crashed" /\ pc[c] = "crashed"
                   /\ seen'[c] = NoRow /\ marks'[c] = "pending"
           /\ pc' \in [Calls -> {"idle", "queued"} \cup InFlight \cup Answers
                                  \cup Dead]
           /\ seen' \in [Calls -> Row \cup {NoRow}]
           /\ marks' \in [Calls -> Statuses]
<1>1. UNCHANGED <<requested, row, token, ledger, effects, arrived, ask>>
  BY DEF Crash
<1>2. ASSUME NEW c \in Calls
      PROVE  /\ \/ pc'[c] = pc[c]
                \/ pc[c] = "queued" /\ pc'[c] = "dropped"
                \/ pc[c] \in InFlight /\ pc'[c] = "crashed"
             /\ seen'[c] = IF pc'[c] = "crashed" THEN NoRow ELSE seen[c]
             /\ marks'[c] = IF pc'[c] = "crashed" THEN "pending" ELSE marks[c]
  BY DEF Crash
<1>3. pc' \in [Calls -> {"idle", "queued"} \cup InFlight \cup Answers \cup Dead]
  BY DEF Crash, BaseInv, TypeOK, Dead
<1>4. /\ seen' \in [Calls -> Row \cup {NoRow}]
      /\ marks' \in [Calls -> Statuses]
  BY DEF Crash, BaseInv, TypeOK, Statuses
<1>5. ASSUME NEW c \in Calls
      PROVE  \/ pc'[c] = pc[c] /\ seen'[c] = seen[c] /\ marks'[c] = marks[c]
             \/ pc[c] = "queued" /\ pc'[c] = "dropped"
                /\ seen'[c] = seen[c] /\ marks'[c] = marks[c]
             \/ pc[c] \in InFlight /\ pc'[c] = "crashed"
                /\ seen'[c] = NoRow /\ marks'[c] = "pending"
             \/ pc'[c] = "crashed" /\ pc[c] = "crashed"
                /\ seen'[c] = NoRow /\ marks'[c] = "pending"
  BY <1>2
<1> QED
  BY <1>1, <1>3, <1>4, <1>5

\* A call that arrives is the last one.
LEMMA ResolveStep ==
    ASSUME BaseInv, NEW a \in Ask, Resolve(a)
    PROVE  /\ UNCHANGED <<requested, row, token, ledger, effects, seen, marks>>
           /\ arrived' = arrived + 1 /\ arrived' \in Calls
           /\ ask' \in [1 .. arrived' -> Ask]
           /\ \A c \in 1 .. arrived : ask'[c] = ask[c]
           /\ pc[arrived'] = "idle" /\ pc'[arrived'] = "queued"
           /\ \A c \in Calls : c # arrived' => pc'[c] = pc[c]
           /\ pc' \in [Calls -> {"idle", "queued"} \cup InFlight \cup Answers
                                  \cup Dead]
<1> USE DEF BaseInv, TypeOK, Calls
<1>1. arrived' = arrived + 1 /\ arrived' \in Calls
  BY ConstantsAssumption DEF Resolve
<1>2. /\ pc[arrived'] = "idle"
      /\ pc' = [pc EXCEPT ![arrived'] = "queued"]
  BY DEF Resolve, Go
<1>3. /\ ask' \in [1 .. arrived' -> Ask]
      /\ \A c \in 1 .. arrived : ask'[c] = ask[c]
  BY <1>1 DEF Resolve
<1> QED
  BY <1>1, <1>2, <1>3 DEF Resolve

LEMMA StepTyped ==
    ASSUME BaseInv, NEW c \in Calls, Step(c)
    PROVE  TypeOK'
<1> USE DEF BaseInv, TypeOK
<1>1. ask[c] \in Ask
  BY StepPhases DEF Calls
<1>2. /\ row' \in Row \cup {NoRow}
      /\ row' = row \/ (row' \in Row /\ row # NoRow)
  <2>1. CASE Vote(c)
    <3>1. seen[c] \in Row /\ row # NoRow
      BY <2>1 DEF Vote, Go, RowInv, InFlight
    <3>2. (seen[c].approvals \cup {ask[c].by}) \in SUBSET Approvers
      BY <1>1, <3>1 DEF Row, Ask
    <3>3. row' = [seen[c] EXCEPT !.approvals = seen[c].approvals \cup {ask[c].by}]
      BY <2>1 DEF Vote
    <3> QED
      BY <3>1, <3>2, <3>3 DEF Row
  <2>2. CASE MarkSet(c)
    <3>1. seen[c] \in Row /\ row # NoRow /\ marks[c] \in Statuses
      BY <2>2 DEF MarkSet, Answer, Go, RowInv, InFlight
    <3> QED
      BY <2>2, <3>1 DEF MarkSet, Marked, Row
  <2>3. CASE ~Vote(c) /\ ~MarkSet(c)
    BY <2>3 DEF Step, Proceed, Enter, Take, Delete, Adjudicate, Execute, MarkGet,
                StateFails
  <2> QED
    BY <2>1, <2>2, <2>3
<1>3. /\ token' \in BOOLEAN
      /\ ledger' \in Calls \cup {NoCall}
      /\ effects' \subseteq Calls
  BY DEF Step, Proceed, Enter, Vote, Take, Delete, NoToken, Adjudicate, Execute,
         MarkGet, MarkSet, StateFails
<1>4. marks' \in [Calls -> Statuses]
  BY DEF Step, Proceed, Enter, Vote, Take, Delete, Adjudicate, Execute, MarkGet,
         MarkSet, StateFails, Confirmed, Answer, Outcome, Statuses
<1>5. /\ seen' \in [Calls -> Row \cup {NoRow}]
      /\ pc'[c] \in {"vote", "set"} => seen'[c] \in Row
  <2>1. CASE Enter(c)
    BY <2>1 DEF Enter, AfterGates, Go
  <2>2. CASE Vote(c)
    BY <2>2 DEF Vote, Go
  <2>3. CASE MarkGet(c)
    BY <2>3 DEF MarkGet, Answer, Go, Statuses
  <2>4. CASE MarkSet(c)
    BY <2>4 DEF MarkSet, Answer, Go, Statuses
  <2>5. CASE Take(c) \/ Delete(c) \/ Adjudicate(c) \/ Execute(c) \/ StateFails(c)
    BY <2>5 DEF Take, Delete, Adjudicate, Execute, StateFails, Confirmed, Go
  <2> QED
    BY <2>1, <2>2, <2>3, <2>4, <2>5 DEF Step, Proceed
<1>6. \A d \in Calls : pc'[d] \in {"vote", "set"} => seen'[d] \in Row
  BY <1>5, StepPhases, StepIsLocal
<1>7. UNCHANGED <<requested, arrived, ask>>
  BY StepIsLocal
<1>8. pc' \in [Calls -> {"idle", "queued"} \cup InFlight \cup Answers \cup Dead]
  BY StepPhases
<1> QED
  BY <1>2, <1>3, <1>4, <1>5, <1>6, <1>7, <1>8

\* A call keeps what it knows about its outcome until it has marked the row.
LEMMA StepMarks ==
    ASSUME BaseInv, NEW c \in Calls, Step(c)
    PROVE  pc'[c] \in {"mark", "set"} =>
               marks'[c] \in {"approved", "declined", "expired"}
<1> USE DEF BaseInv, TypeOK
<1>1. CASE \/ Take(c) \/ Delete(c) \/ Adjudicate(c) \/ Execute(c)
  BY <1>1 DEF Take, Delete, Adjudicate, Execute, Confirmed, Outcome, Go
<1>2. CASE MarkGet(c) \/ MarkSet(c)
  BY <1>2 DEF MarkGet, MarkSet, Answer, Go, MarkInv
<1>3. CASE Enter(c) \/ Vote(c) \/ StateFails(c)
  BY <1>3 DEF Enter, AfterGates, Vote, StateFails, Go
<1> QED
  BY <1>1, <1>2, <1>3 DEF Step, Proceed

LEMMA StepBase ==
    ASSUME BaseInv, NEW c \in Calls, Step(c)
    PROVE  BaseInv'
<1>1. UNCHANGED <<requested, arrived, ask>>
  BY StepIsLocal
<1>2. ArrivedInv'
  BY <1>1, StepPhases DEF BaseInv, ArrivedInv, InFlight, Answers, TypeOK, Calls
<1>3. SerialInv'
  <2> SUFFICES ASSUME NEW d \in Calls, pc'[d] \in InFlight,
                      NEW e \in 1 .. d - 1, ask[e].at = ask[d].at
               PROVE  pc'[e] \in Answers \cup Dead
    BY <1>1 DEF SerialInv, Turn
  <2>1. Turn(d) /\ e \in Calls
    <3>1. e \in Calls
      BY ConstantsAssumption DEF Calls
    <3>2. CASE d = c
      <4>1. pc[c] \in InFlight \cup {"queued"}
        BY StepPhases
      <4>2. pc[c] \in InFlight => Turn(c)
        BY DEF BaseInv, SerialInv
      <4> QED
        BY <3>1, <3>2, <4>1, <4>2, StepGoes
    <3>3. CASE d # c
      <4>1. pc[d] \in InFlight
        BY <3>3, StepPhases
      <4> QED
        BY <3>1, <4>1 DEF BaseInv, SerialInv
    <3> QED
      BY <3>2, <3>3
  <2>2. pc[e] \in Answers \cup Dead
    BY <2>1 DEF Turn
  <2>3. e # c
    BY <2>2, StepPhases DEF Answers, Dead, InFlight
  <2> QED
    BY <2>1, <2>2, <2>3, StepPhases
<1>4. RowInv'
  <2>1. /\ row = NoRow => row' = NoRow
        /\ row # NoRow => row' # NoRow
    <3>1. CASE Vote(c) \/ MarkSet(c)
      <4>1. row # NoRow
        BY <3>1 DEF Vote, MarkSet, Answer, Go, BaseInv, RowInv, InFlight
      <4>2. row' \in Row
        <5>1. seen[c] \in Row /\ ask[c] \in Ask /\ marks[c] \in Statuses
          BY <3>1, StepPhases
             DEF Vote, MarkSet, Answer, Go, BaseInv, TypeOK, Calls
        <5>2. (seen[c].approvals \cup {ask[c].by}) \in SUBSET Approvers
          BY <5>1 DEF Row, Ask
        <5> QED
          BY <3>1, <5>1, <5>2 DEF Vote, MarkSet, Marked, Row
      <4> QED
        BY <4>1, <4>2, NoRowAssumption
    <3>2. CASE ~Vote(c) /\ ~MarkSet(c)
      BY <3>2 DEF Step, Proceed, Enter, Take, Delete, Adjudicate, Execute,
                  MarkGet, StateFails
    <3> QED
      BY <3>1, <3>2
  <2>2. pc'[c] \in InFlight \cup {"waiting"} => row # NoRow
    <3>1. CASE Enter(c)
      BY <3>1 DEF Enter, AfterGates, Go, BaseInv, TypeOK, InFlight
    <3>2. CASE ~Enter(c)
      <4>1. pc[c] \in InFlight
        BY <3>2 DEF Step, Proceed, Vote, Take, Delete, Adjudicate, Execute,
                    MarkGet, MarkSet, StateFails, Confirmed, Answer, Go, InFlight
      <4> QED
        BY <4>1 DEF BaseInv, RowInv
    <3> QED
      BY <3>1, <3>2
  <2> QED
    BY <1>1, <2>1, <2>2, StepPhases DEF BaseInv, RowInv
<1>5. MarkInv'
  BY StepMarks, StepPhases, StepIsLocal DEF BaseInv, MarkInv
<1> QED
  BY <1>2, <1>3, <1>4, <1>5, StepTyped DEF BaseInv

LEMMA CrashBase ==
    ASSUME BaseInv, NEW r \in Replicas, Crash(r)
    PROVE  BaseInv'
<1> USE CrashStep DEF BaseInv
<1>1. TypeOK'
  BY DEF TypeOK, Dead
<1>2. ArrivedInv' /\ RowInv' /\ MarkInv'
  BY DEF ArrivedInv, RowInv, MarkInv, InFlight
<1>3. SerialInv'
  <2> SUFFICES ASSUME NEW d \in Calls, pc'[d] \in InFlight,
                      NEW e \in 1 .. d - 1, ask[e].at = ask[d].at
               PROVE  pc'[e] \in Answers \cup Dead
    BY DEF SerialInv, Turn
  <2>1. pc[d] \in InFlight /\ e \in Calls
    BY ConstantsAssumption DEF InFlight, Calls
  <2>2. pc[e] \in Answers \cup Dead
    BY <2>1 DEF SerialInv, Turn
  <2> QED
    BY <2>1, <2>2 DEF Answers, Dead, InFlight
<1> QED
  BY <1>1, <1>2, <1>3

LEMMA ResolveBase ==
    ASSUME BaseInv, NEW a \in Ask, Resolve(a)
    PROVE  BaseInv'
<1> USE ResolveStep DEF BaseInv
<1>1. TypeOK'
  <2>1. \A c \in Calls : pc'[c] \in {"vote", "set"} => seen'[c] \in Row
    BY DEF TypeOK
  <2>2. arrived' \in 0 .. MaxCalls
    BY ConstantsAssumption DEF Calls
  <2> QED
    BY <2>1, <2>2 DEF TypeOK
<1>2. ArrivedInv'
  BY DEF ArrivedInv, TypeOK, Calls
<1>3. RowInv' /\ MarkInv'
  BY DEF RowInv, MarkInv, InFlight
<1>4. SerialInv'
  <2> SUFFICES ASSUME NEW d \in Calls, pc'[d] \in InFlight,
                      NEW e \in 1 .. d - 1, ask'[e].at = ask'[d].at
               PROVE  pc'[e] \in Answers \cup Dead
    BY DEF SerialInv, Turn
  <2>1. /\ d # arrived' /\ pc[d] \in InFlight
    BY DEF InFlight
  <2>2. d \in 1 .. arrived /\ e \in 1 .. arrived /\ e \in Calls
    <3>1. pc[d] # "idle" /\ arrived \in 0 .. MaxCalls /\ MaxCalls \in Nat
      BY <2>1, ConstantsAssumption DEF InFlight, TypeOK
    <3>2. d <= arrived
      BY <3>1 DEF ArrivedInv, Calls
    <3> QED
      BY <3>1, <3>2 DEF Calls
  <2>3. pc[e] \in Answers \cup Dead
    BY <2>1, <2>2 DEF SerialInv, Turn
  <2> QED
    BY <2>2, <2>3 DEF TypeOK
<1> QED
  BY <1>1, <1>2, <1>3, <1>4

LEMMA RequestBase ==
    ASSUME BaseInv, Request \/ PutRequest \/ Expire \/ UNCHANGED vars
    PROVE  BaseInv'
<1>1. /\ UNCHANGED <<ledger, effects, arrived, ask, pc, seen, marks>>
      /\ requested' \in {"idle", "delivered", "done"}
      /\ token' \in BOOLEAN
      /\ row' \in Row \cup {NoRow}
  <2>1. CASE PutRequest
    <3>1. [status |-> "pending", approvals |-> {}] \in Row
      BY DEF Row, Statuses
    <3> QED
      BY <2>1, <3>1 DEF PutRequest, BaseInv, TypeOK
  <2>2. CASE Request \/ Expire \/ UNCHANGED vars
    BY <2>2 DEF BaseInv, TypeOK, Request, Expire, vars
  <2> QED
    BY <2>1, <2>2
<1>2. RowInv'
  <2>1. CASE PutRequest
    <3>1. row' \in Row /\ requested' = "done"
      BY <2>1 DEF PutRequest, Row, Statuses
    <3> QED
      BY <1>1, <3>1, NoRowAssumption DEF RowInv
  <2>2. CASE Request \/ Expire \/ UNCHANGED vars
    BY <1>1, <2>2 DEF BaseInv, RowInv, Request, Expire, vars
  <2> QED
    BY <2>1, <2>2
<1>3. TypeOK' /\ ArrivedInv' /\ SerialInv' /\ MarkInv'
  BY <1>1 DEF BaseInv, TypeOK, ArrivedInv, SerialInv, Turn, MarkInv
<1> QED
  BY <1>2, <1>3 DEF BaseInv

LEMMA BaseStep ==
    ASSUME BaseInv, [Next]_vars
    PROVE  BaseInv'
BY StepBase, CrashBase, ResolveBase, RequestBase, NextIsStep

LEMMA BaseInit == Init => BaseInv
<1> SUFFICES ASSUME Init PROVE BaseInv
  OBVIOUS
<1>1. TypeOK
  BY ConstantsAssumption DEF Init, TypeOK, Calls, Statuses
<1>2. ArrivedInv /\ SerialInv /\ RowInv /\ MarkInv
  BY DEF Init, ArrivedInv, SerialInv, RowInv, MarkInv, InFlight, Calls
<1> QED
  BY <1>1, <1>2 DEF BaseInv

-------------------------------------------------------------------------------
(* The quorum *)

\* Calls that did not pass the gates.
Barred == {"queued", "dropped", "unknown_token", "already_resolved",
           "self_approval_forbidden"}

VoterCalls == {d \in 1 .. arrived : ask[d].accepted /\ pc[d] \notin Barred}

Quorate == Cardinality(Voters \ {Maker}) >= Quorum

Deciding == {"take", "delete", "adjudicate", "execute"}

\* Approvals on the row, or about to be put back on it, are votes; whoever acts
\* on an acceptance has a quorum behind it and may act on it.
QuorateCall(c) ==
    /\ pc[c] \in {"vote", "set"} => seen[c].approvals \subseteq Voters
    /\ pc[c] \in {"vote", "adjudicate", "execute"} => ask[c].accepted
    /\ pc[c] \in Deciding \cup {"vote"} /\ ask[c].accepted =>
           (ask[c].at \in FourEyes => ask[c].by # Maker)
    /\ pc[c] \in Deciding /\ ask[c].accepted => Quorate

QuorumInv ==
    /\ row # NoRow => row.approvals \subseteq Voters
    /\ \A c \in Calls : QuorateCall(c)
    /\ \A c \in effects :
        c <= arrived /\ Quorate /\ (ask[c].at \in FourEyes => ask[c].by # Maker)

LEMMA VotersFinite ==
    ASSUME TypeOK
    PROVE  /\ Voters \in SUBSET Approvers
           /\ IsFiniteSet(Voters \ {Maker})
           /\ Cardinality(Voters \ {Maker}) \in Nat
<1>1. Voters \in SUBSET Approvers
  BY DEF TypeOK, Voters, Ask
<1>2. Voters \ {Maker} \in SUBSET Approvers
  BY <1>1
<1> QED
  BY <1>1, <1>2, ConstantsAssumption, FS_Subset, FS_CardinalityType

\* A call that passed the gates does not come back to them.
LEMMA PastTheGates ==
    ASSUME BaseInv, NEW c \in Calls, Step(c), pc[c] \in InFlight
    PROVE  pc'[c] \notin Barred
<1> USE DEF BaseInv, TypeOK, Barred
<1>1. ~Enter(c)
  BY DEF Enter, InFlight
<1>2. CASE Vote(c)
  BY <1>2 DEF Vote, Go
<1>3. CASE Take(c)
  BY <1>3 DEF Take, Confirmed, Go
<1>4. CASE Delete(c)
  BY <1>4 DEF Delete, Confirmed, Go
<1>5. CASE Adjudicate(c) \/ Execute(c)
  BY <1>5 DEF Adjudicate, Execute, Confirmed, Go
<1>6. CASE MarkGet(c) \/ MarkSet(c)
  BY <1>6 DEF MarkGet, MarkSet, Answer, Go, MarkInv
<1>7. CASE StateFails(c)
  BY <1>7 DEF StateFails, Go
<1> QED
  BY <1>1, <1>2, <1>3, <1>4, <1>5, <1>6, <1>7 DEF Step, Proceed

\* Votes are never taken back.
LEMMA VotersGrow ==
    ASSUME BaseInv, [Next]_vars
    PROVE  /\ Voters \subseteq Voters'
           /\ Quorate => Quorate'
<1>1. VoterCalls \subseteq VoterCalls' /\ \A d \in VoterCalls : ask'[d] = ask[d]
  <2>1. ASSUME NEW c \in Calls, Step(c)
        PROVE  VoterCalls \subseteq VoterCalls' /\ UNCHANGED ask
    <3>1. UNCHANGED <<arrived, ask>>
      BY <2>1, StepIsLocal
    <3>2. ASSUME NEW d \in VoterCalls PROVE pc'[d] \notin Barred
      <4>1. d \in Calls /\ pc[d] \notin Barred
        BY ConstantsAssumption DEF VoterCalls, BaseInv, TypeOK, Calls
      <4>2. CASE d = c
        BY <2>1, <4>1, <4>2, PastTheGates, StepPhases DEF Barred
      <4>3. CASE d # c
        BY <2>1, <4>1, <4>3, StepPhases
      <4> QED
        BY <4>2, <4>3
    <3> QED
      BY <3>1, <3>2 DEF VoterCalls
  <2>2. ASSUME NEW r \in Replicas, Crash(r)
        PROVE  VoterCalls \subseteq VoterCalls' /\ UNCHANGED ask
    <3>1. ASSUME NEW d \in VoterCalls PROVE pc'[d] \notin Barred
      <4>1. d \in Calls
        BY ConstantsAssumption DEF VoterCalls, BaseInv, TypeOK, Calls
      <4> QED
        BY <2>2, <4>1, CrashStep DEF VoterCalls, Barred
    <3> QED
      BY <2>2, <3>1, CrashStep DEF VoterCalls
  <2>3. ASSUME NEW a \in Ask, Resolve(a)
        PROVE  /\ VoterCalls \subseteq VoterCalls'
               /\ \A d \in VoterCalls : ask'[d] = ask[d]
    <3>1. ASSUME NEW d \in VoterCalls
          PROVE  /\ d \in 1 .. arrived' /\ ask'[d] = ask[d]
                 /\ pc'[d] = pc[d]
      <4>1. d \in Calls /\ d \in 1 .. arrived /\ arrived \in Nat
        BY ConstantsAssumption DEF VoterCalls, BaseInv, TypeOK, Calls
      <4> QED
        BY <2>3, <4>1, ResolveStep
    <3> QED
      BY <3>1 DEF VoterCalls
  <2>4. CASE Request \/ PutRequest \/ Expire \/ UNCHANGED vars
    BY <2>4 DEF Request, PutRequest, Expire, vars, VoterCalls
  <2> QED
    BY <2>1, <2>2, <2>3, <2>4, NextIsStep
<1>2. Voters \subseteq Voters'
  BY <1>1 DEF Voters, VoterCalls, Barred
<1>3. /\ IsFiniteSet(Voters' \ {Maker})
      /\ Cardinality(Voters' \ {Maker}) \in Nat
      /\ Cardinality(Voters \ {Maker}) \in Nat
  <2>1. Voters' \ {Maker} \in SUBSET Approvers
    <3>1. TypeOK'
      BY BaseStep DEF BaseInv
    <3> QED
      BY <3>1 DEF TypeOK, Voters, Ask
  <2> QED
    BY <2>1, VotersFinite, ConstantsAssumption, FS_Subset, FS_CardinalityType
       DEF BaseInv
<1>4. Cardinality(Voters \ {Maker}) <= Cardinality(Voters' \ {Maker})
  BY <1>2, <1>3, FS_Subset
<1> QED
  BY <1>2, <1>3, <1>4, ConstantsAssumption DEF Quorate

\* A vote is counted when its approvers are a quorum without the proposer.
LEMMA VoteCounts ==
    ASSUME BaseInv, NEW approvals \in SUBSET Voters, QuorumMet(approvals)
    PROVE  Quorate
<1>1. approvals \ {Maker} \subseteq Voters \ {Maker}
  OBVIOUS
<1>2. /\ Cardinality(approvals \ {Maker}) <= Cardinality(Voters \ {Maker})
      /\ Cardinality(approvals \ {Maker}) \in Nat
  BY <1>1, VotersFinite, FS_Subset, FS_CardinalityType DEF BaseInv
<1> QED
  BY <1>2, VotersFinite, ConstantsAssumption DEF QuorumMet, Quorate, BaseInv

\* With no quorum configured, nothing has to stand behind the effect.
LEMMA NoQuorumIsQuorate ==
    ASSUME BaseInv, Quorum = 0
    PROVE  Quorate
BY VotersFinite DEF Quorate, BaseInv

LEMMA StepQuorum ==
    ASSUME BaseInv, QuorumInv, NEW c \in Calls, Step(c)
    PROVE  QuorumInv'
<1> USE DEF BaseInv, TypeOK
<1>1. /\ UNCHANGED <<requested, arrived, ask>>
      /\ \A d \in Calls \ {c} : pc'[d] = pc[d] /\ seen'[d] = seen[d]
      /\ c <= arrived /\ c \in 1 .. arrived
  BY StepIsLocal, StepPhases DEF Calls
<1>2. Voters \subseteq Voters' /\ (Quorate => Quorate')
  <2>1. [Next]_vars
    BY DEF Next, Step
  <2> QED
    BY <2>1, VotersGrow
<1>3. \A d \in Calls \ {c} : QuorateCall(d)'
  BY <1>1, <1>2 DEF QuorumInv, QuorateCall
<1>4. QuorateCall(c)
  BY DEF QuorumInv
<1>5. CASE Enter(c)
  <2>1. /\ pc' = [pc EXCEPT ![c] = AfterGates(c)]
        /\ seen' = [seen EXCEPT ![c] = IF AfterGates(c) = "vote" THEN row ELSE @]
        /\ UNCHANGED <<row, effects>>
    BY <1>5 DEF Enter, Go
  <2>2. QuorateCall(c)'
    <3>1. CASE AfterGates(c) = "vote"
      <4>1. /\ row # NoRow /\ ask[c].accepted
            /\ ask[c].at \in FourEyes => ask[c].by # Maker
        BY <3>1 DEF AfterGates, SelfApproval
      <4>2. pc'[c] = "vote" /\ seen'[c] = row
        BY <2>1, <3>1
      <4> QED
        BY <1>1, <1>2, <4>1, <4>2 DEF QuorateCall, QuorumInv, Deciding
    <3>2. CASE AfterGates(c) = "take"
      <4>1. /\ ask[c].accepted => Quorum = 0
            /\ ask[c].accepted /\ ask[c].at \in FourEyes => ask[c].by # Maker
        BY <3>2, ConstantsAssumption DEF AfterGates, SelfApproval
      <4>2. pc'[c] = "take"
        BY <2>1, <3>2
      <4> QED
        BY <1>1, <1>2, <4>1, <4>2, NoQuorumIsQuorate DEF QuorateCall
    <3>3. CASE AfterGates(c) \in Answers
      BY <2>1, <3>3 DEF QuorateCall, Deciding, Answers
    <3> QED
      BY <3>1, <3>2, <3>3 DEF AfterGates, Answers
  <2> QED
    BY <1>1, <1>2, <1>3, <2>1, <2>2 DEF QuorumInv
<1>6. CASE Vote(c)
  <2> DEFINE approvals == seen[c].approvals \cup {ask[c].by}
  <2>1. /\ pc[c] = "vote"
        /\ pc' = [pc EXCEPT ![c] = IF QuorumMet(approvals) THEN "take"
                                   ELSE "waiting"]
        /\ row' = [seen[c] EXCEPT !.approvals = approvals]
        /\ UNCHANGED effects
    BY <1>6 DEF Vote, Go
  <2>2. approvals \in SUBSET Voters
    <3>1. ask[c].by \in Voters
      BY <1>1, <1>4, <2>1 DEF Voters, QuorateCall
    <3> QED
      BY <1>4, <2>1, <3>1 DEF QuorateCall
  <2>3. row'.approvals = approvals
    BY <2>1 DEF Row
  <2>4. QuorateCall(c)'
    <3>1. CASE QuorumMet(approvals)
      <4>1. Quorate
        BY <2>2, <3>1, VoteCounts
      <4>2. pc'[c] = "take"
        BY <2>1, <3>1
      <4> QED
        BY <1>1, <1>2, <1>4, <2>1, <4>1, <4>2 DEF QuorateCall
    <3>2. CASE ~QuorumMet(approvals)
      <4>1. pc'[c] = "waiting"
        BY <2>1, <3>2
      <4> QED
        BY <4>1 DEF QuorateCall, Deciding
    <3> QED
      BY <3>1, <3>2
  <2> QED
    BY <1>1, <1>2, <1>3, <2>1, <2>2, <2>3, <2>4 DEF QuorumInv
<1>7. CASE Take(c) \/ Delete(c) \/ Adjudicate(c) \/ StateFails(c)
  <2>1. /\ UNCHANGED <<row, effects>>
        /\ pc'[c] \notin {"vote", "set", "take"}
        /\ pc'[c] \in Deciding => pc[c] \in Deciding
        /\ pc'[c] \in {"adjudicate", "execute"} => ask[c].accepted
    <3>1. CASE Take(c)
      BY <3>1 DEF Take, Confirmed, Go, Deciding
    <3>2. CASE Delete(c)
      BY <3>2 DEF Delete, Confirmed, Go, Deciding
    <3>3. CASE Adjudicate(c)
      BY <1>4, <3>3 DEF Adjudicate, Confirmed, Go, Deciding, QuorateCall
    <3>4. CASE StateFails(c)
      BY <3>4 DEF StateFails, Go, Deciding
    <3> QED
      BY <1>7, <3>1, <3>2, <3>3, <3>4
  <2>2. QuorateCall(c)'
    BY <1>1, <1>2, <1>4, <2>1 DEF QuorateCall, Deciding
  <2> QED
    BY <1>1, <1>2, <1>3, <2>1, <2>2 DEF QuorumInv
<1>8. CASE Execute(c)
  <2>1. /\ pc[c] = "execute" /\ pc'[c] = "mark"
        /\ UNCHANGED row
        /\ effects' \subseteq effects \cup {c}
    BY <1>8 DEF Execute, Confirmed, Go
  <2>2. QuorateCall(c)'
    BY <2>1 DEF QuorateCall, Deciding
  <2>3. Quorate /\ (ask[c].at \in FourEyes => ask[c].by # Maker)
    BY <1>4, <2>1 DEF QuorateCall, Deciding
  <2> QED
    BY <1>1, <1>2, <1>3, <2>1, <2>2, <2>3 DEF QuorumInv
<1>9. CASE MarkGet(c) \/ MarkSet(c)
  <2>1. /\ UNCHANGED effects
        /\ pc'[c] \notin Deciding \cup {"vote"}
        /\ pc'[c] = "set" => seen'[c] = row /\ row # NoRow
    BY <1>9 DEF MarkGet, MarkSet, Answer, Go, Deciding, MarkInv
  <2>2. row' # NoRow => row'.approvals \subseteq Voters
    <3>1. CASE MarkGet(c)
      BY <3>1 DEF MarkGet, QuorumInv
    <3>2. CASE MarkSet(c)
      <4>1. pc[c] = "set" /\ row' = [seen[c] EXCEPT !.status = marks[c]]
        BY <3>2 DEF MarkSet, Marked, Answer, Go
      <4>2. seen[c] \in Row /\ seen[c].approvals \subseteq Voters
        BY <1>4, <4>1 DEF QuorateCall
      <4>3. row'.approvals = seen[c].approvals
        BY <4>1, <4>2 DEF Row
      <4> QED
        BY <4>2, <4>3
    <3> QED
      BY <1>9, <3>1, <3>2
  <2>3. QuorateCall(c)'
    BY <1>2, <2>1 DEF QuorateCall, QuorumInv, Deciding
  <2> QED
    BY <1>1, <1>2, <1>3, <2>1, <2>2, <2>3 DEF QuorumInv
<1> QED
  BY <1>5, <1>6, <1>7, <1>8, <1>9 DEF Step, Proceed

LEMMA QuorumStep ==
    ASSUME BaseInv, QuorumInv, [Next]_vars
    PROVE  QuorumInv'
<1>1. Voters \subseteq Voters' /\ (Quorate => Quorate')
  BY VotersGrow
<1>2. ASSUME NEW r \in Replicas, Crash(r)
      PROVE  QuorumInv'
  <2>1. ASSUME NEW d \in Calls PROVE QuorateCall(d)'
    <3>1. QuorateCall(d)
      BY DEF QuorumInv
    <3> QED
      BY <1>1, <1>2, <3>1, CrashStep DEF QuorateCall, Deciding
  <2> QED
    BY <1>1, <1>2, <2>1, CrashStep DEF QuorumInv
<1>3. ASSUME NEW a \in Ask, Resolve(a)
      PROVE  QuorumInv'
  <2>1. ASSUME NEW d \in Calls PROVE QuorateCall(d)'
    <3>1. CASE d = arrived'
      <4>1. pc'[d] = "queued"
        BY <1>3, <3>1, ResolveStep
      <4> QED
        BY <4>1 DEF QuorateCall, Deciding
    <3>2. CASE d # arrived' /\ pc[d] = "idle"
      <4>1. pc'[d] = "idle"
        BY <1>3, <3>2, ResolveStep
      <4> QED
        BY <4>1 DEF QuorateCall, Deciding
    <3>3. CASE d # arrived' /\ pc[d] # "idle"
      <4>1. d \in 1 .. arrived
        BY <3>3 DEF BaseInv, ArrivedInv, TypeOK, Calls
      <4>2. pc'[d] = pc[d] /\ ask'[d] = ask[d] /\ seen'[d] = seen[d]
        BY <1>3, <3>3, <4>1, ResolveStep
      <4>3. QuorateCall(d)
        BY DEF QuorumInv
      <4> QED
        BY <1>1, <4>2, <4>3 DEF QuorateCall
    <3> QED
      BY <3>1, <3>2, <3>3
  <2>2. ASSUME NEW d \in effects
        PROVE  ask'[d] = ask[d] /\ d <= arrived'
    <3>1. d \in Calls /\ d <= arrived /\ arrived \in Nat
      BY DEF BaseInv, TypeOK, QuorumInv
    <3>2. d \in 1 .. arrived
      BY <3>1 DEF Calls
    <3> QED
      BY <1>3, <3>1, <3>2, ResolveStep DEF Calls
  <2> QED
    BY <1>1, <1>3, <2>1, <2>2, ResolveStep DEF QuorumInv
<1>4. CASE Request \/ PutRequest \/ Expire \/ UNCHANGED vars
  <2>1. /\ UNCHANGED <<ledger, effects, arrived, ask, pc, seen, marks>>
        /\ row' = row \/ row'.approvals = {}
    BY <1>4 DEF Request, PutRequest, Expire, vars
  <2>2. ASSUME NEW d \in Calls PROVE QuorateCall(d)'
    <3>1. QuorateCall(d)
      BY DEF QuorumInv
    <3> QED
      BY <1>1, <2>1, <3>1 DEF QuorateCall
  <2> QED
    BY <1>1, <2>1, <2>2 DEF QuorumInv
<1> QED
  BY <1>2, <1>3, <1>4, StepQuorum, NextIsStep

LEMMA QuorumInductive == Spec => [](BaseInv /\ QuorumInv)
<1>1. Init => BaseInv /\ QuorumInv
  BY BaseInit DEF Init, QuorumInv, QuorateCall, Deciding
<1>2. BaseInv /\ QuorumInv /\ [Next]_vars => (BaseInv /\ QuorumInv)'
  BY BaseStep, QuorumStep
<1> QED
  BY <1>1, <1>2, PTL DEF Spec

\* The variables keep their types: a call about to write the row back has read
\* one.  (registry.get before put, in resolve and in markResolved)
THEOREM TypeCorrect == Spec => []TypeOK
BY QuorumInductive, PTL DEF BaseInv

\* No effect without a quorum of distinct approvers other than the proposer,
\* however many replicas race and lose one another's votes: what a call read
\* and wrote back were votes, and those it counted too.  (quorumMet)
THEOREM QuorumBehindEffectHolds == Spec => []QuorumBehindEffect
<1>1. QuorumInv => QuorumBehindEffect
  BY DEF QuorumInv, QuorumBehindEffect, Quorate
<1> QED
  BY <1>1, QuorumInductive, PTL

-------------------------------------------------------------------------------
(* The claim *)

\* Whoever executes holds the claim, and the effect is the holder's.
ClaimInv ==
    /\ \A c \in Calls : pc[c] = "execute" => ledger = c /\ effects = {}
    /\ effects # {} => ledger \in Calls /\ effects = {ledger}

\* Only two steps touch the claim or the effect.
LEMMA LedgerMoves ==
    ASSUME BaseInv, [Next]_vars
    PROVE  \/ UNCHANGED <<ledger, effects>>
           \/ \E c \in Calls : Adjudicate(c) \/ Execute(c)
BY DEF Next, Request, PutRequest, Expire, Resolve, StateFails, Crash, Proceed,
       Enter, Vote, Take, Delete, MarkGet, MarkSet, vars

\* A call executes only after it has claimed.
LEMMA NoNewClaim ==
    ASSUME BaseInv, [Next]_vars, UNCHANGED <<ledger, effects>>, NEW d \in Calls,
           pc'[d] = "execute"
    PROVE  pc[d] = "execute"
<1>1. ASSUME NEW c \in Calls, Step(c) PROVE pc[d] = "execute"
  <2>1. CASE d # c
    BY <1>1, <2>1, StepPhases
  <2>2. CASE d = c
    <3> USE DEF BaseInv, TypeOK
    <3>1. CASE Adjudicate(c)
      <4>1. c # NoCall
        BY ConstantsAssumption
      <4> QED
        BY <2>2, <3>1, <4>1 DEF Adjudicate, Free, Confirmed, Go
    <3>2. CASE Enter(c) \/ Vote(c) \/ StateFails(c)
      BY <2>2, <3>2 DEF Enter, AfterGates, Vote, StateFails, Go
    <3>3. CASE Take(c) \/ Delete(c) \/ Execute(c)
      BY <2>2, <3>3 DEF Take, Delete, Execute, Confirmed, Go
    <3>4. CASE MarkGet(c) \/ MarkSet(c)
      BY <2>2, <3>4 DEF MarkGet, MarkSet, Answer, Go, MarkInv
    <3> QED
      BY <1>1, <3>1, <3>2, <3>3, <3>4 DEF Step, Proceed
  <2> QED
    BY <2>1, <2>2
<1>2. ASSUME NEW r \in Replicas, Crash(r) PROVE pc[d] = "execute"
  BY <1>2, CrashStep
<1>3. ASSUME NEW a \in Ask, Resolve(a) PROVE pc[d] = "execute"
  BY <1>3, ResolveStep
<1>4. CASE Request \/ PutRequest \/ Expire \/ UNCHANGED vars
  BY <1>4 DEF Request, PutRequest, Expire, vars
<1> QED
  BY <1>1, <1>2, <1>3, <1>4, NextIsStep

\* What the two steps do to them.
LEMMA ClaimSteps ==
    ASSUME BaseInv, ClaimInv, NEW c \in Calls, Adjudicate(c) \/ Execute(c)
    PROVE  /\ \A d \in Calls \ {c} : pc'[d] = pc[d]
           /\ \/ /\ ledger = NoCall /\ ledger' = c
                 /\ effects = {} /\ effects' = {}
              \/ pc'[c] = "mark" /\ UNCHANGED <<ledger, effects>>
              \/ /\ ledger = c /\ UNCHANGED ledger /\ pc'[c] = "mark"
                 /\ effects = {} /\ effects' = {c}
              \/ /\ ledger = c /\ ledger' = NoCall /\ pc'[c] = "mark"
                 /\ effects = {} /\ effects' = {}
<1> USE DEF BaseInv, TypeOK
<1>1. \A d \in Calls \ {c} : pc'[d] = pc[d]
  BY StepPhases DEF Step, Proceed
<1>2. CASE Adjudicate(c)
  <2>1. ledger = NoCall => effects = {}
    BY ConstantsAssumption DEF ClaimInv
  <2> QED
    BY <1>1, <1>2, <2>1 DEF Adjudicate, Free, Confirmed, Go
<1>3. CASE Execute(c)
  <2>1. ledger = c /\ effects = {}
    BY <1>3 DEF Execute, Confirmed, Go, ClaimInv
  <2> QED
    BY <1>1, <1>3, <2>1 DEF Execute, Confirmed, Go
<1> QED
  BY <1>2, <1>3

LEMMA ClaimStep ==
    ASSUME BaseInv, ClaimInv, [Next]_vars
    PROVE  ClaimInv'
<1>1. CASE UNCHANGED <<ledger, effects>>
  BY <1>1, NoNewClaim DEF ClaimInv
<1>2. ASSUME NEW c \in Calls, Adjudicate(c) \/ Execute(c)
      PROVE  ClaimInv'
  <2>1. NoCall \notin Calls
    BY ConstantsAssumption
  <2> QED
    BY <1>2, <2>1, ClaimSteps DEF ClaimInv
<1> QED
  BY <1>1, <1>2, LedgerMoves

LEMMA ClaimInductive == Spec => [](BaseInv /\ ClaimInv)
<1>1. Init => BaseInv /\ ClaimInv
  BY BaseInit DEF Init, ClaimInv
<1>2. BaseInv /\ ClaimInv /\ [Next]_vars => (BaseInv /\ ClaimInv)'
  BY BaseStep, ClaimStep
<1> QED
  BY <1>1, <1>2, PTL DEF Spec

Claimed == ledger # NoCall
Held == [h \in {"intent"} |-> Claimed]
By == [h \in {"intent"} |-> effects]

\* Whatever replicas race through take(), the intent implements OnceOnly: the
\* adjudication acquires it, the executor performs it, and a throwing emission
\* hands it back.  (adjudicateAndAudit behind confirm)
THEOREM Refinement == Spec => ImplementsOnceOnly
<1>1. Init => Abstract!Init
  <2> SUFFICES ASSUME Init
               PROVE  /\ Held = [h \in {"intent"} |-> FALSE]
                      /\ By = [h \in {"intent"} |-> {}]
    BY DEF Abstract!Init, Held, By, Claimed
  <2>1. Claimed = FALSE
    BY DEF Claimed, Init
  <2> QED
    BY <2>1 DEF Held, By, Init
<1>2. BaseInv /\ ClaimInv /\ [Next]_vars => [Abstract!Next]_<<Held, By>>
  <2> SUFFICES ASSUME BaseInv, ClaimInv, [Next]_vars
               PROVE  Abstract!Next \/ UNCHANGED <<Held, By>>
    OBVIOUS
  <2>1. CASE UNCHANGED <<ledger, effects>>
    BY <2>1 DEF Held, By, Claimed
  <2>2. ASSUME NEW c \in Calls, Adjudicate(c) \/ Execute(c)
        PROVE  Abstract!Next \/ UNCHANGED <<Held, By>>
    <3>1. NoCall # c
      BY ConstantsAssumption
    <3>2. CASE UNCHANGED <<ledger, effects>>
      BY <3>2 DEF Held, By, Claimed
    <3>3. CASE /\ ledger = NoCall /\ ledger' = c
               /\ effects = {} /\ effects' = {}
      <4>1. Claimed = FALSE /\ Claimed' = TRUE
        BY <3>1, <3>3 DEF Claimed
      <4>2. Abstract!Acquire("intent")
        BY <3>3, <4>1 DEF Abstract!Acquire, Claimed
      <4> QED
        BY <4>2 DEF Abstract!Next
    <3>4. CASE ledger = c /\ UNCHANGED ledger /\ effects = {} /\ effects' = {c}
      <4>1. Claimed = TRUE /\ Claimed' = TRUE
        BY <3>1, <3>4 DEF Claimed
      <4>2. Abstract!Perform("intent", c)
        BY <3>4, <4>1 DEF Abstract!Perform, Claimed
      <4> QED
        BY <4>2 DEF Abstract!Next
    <3>5. CASE /\ ledger = c /\ ledger' = NoCall
               /\ effects = {} /\ effects' = {}
      <4>1. Claimed = TRUE /\ Claimed' = FALSE
        BY <3>1, <3>5 DEF Claimed
      <4>2. Abstract!GiveBack("intent")
        BY <3>5, <4>1 DEF Abstract!GiveBack, Claimed
      <4> QED
        BY <4>2 DEF Abstract!Next
    <3> QED
      BY <2>2, <3>2, <3>3, <3>4, <3>5, ClaimSteps
  <2> QED
    BY <2>1, <2>2, LedgerMoves
<1> QED
  BY <1>1, <1>2, ClaimInductive, PTL
     DEF Spec, ImplementsOnceOnly, Abstract!Spec, Held, By, Claimed

-------------------------------------------------------------------------------
(* One replica *)

\* Calls stay where they came to.
LEMMA OneReplicaBack ==
    ASSUME BaseInv, [Next]_vars, OneReplica'
    PROVE  OneReplica
<1>1. ASSUME NEW c \in Calls, Step(c) PROVE OneReplica
  BY <1>1, StepIsLocal DEF OneReplica
<1>2. ASSUME NEW a \in Ask, Resolve(a) PROVE OneReplica
  <2>1. arrived' = arrived + 1 /\ arrived \in Nat
    BY <1>2, ResolveStep DEF BaseInv, TypeOK
  <2>2. \A c \in 1 .. arrived : c \in 1 .. arrived' /\ ask'[c] = ask[c]
    BY <1>2, <2>1, ResolveStep
  <2> QED
    BY <2>2 DEF OneReplica
<1>3. ASSUME NEW r \in Replicas, Crash(r) PROVE OneReplica
  BY <1>3, CrashStep DEF OneReplica
<1>4. CASE Request \/ PutRequest \/ Expire \/ UNCHANGED vars
  BY <1>4 DEF Request, PutRequest, Expire, vars, OneReplica
<1> QED
  BY <1>1, <1>2, <1>3, <1>4, NextIsStep

\* The promise chain: while a call moves, no other is in flight.
LEMMA Alone ==
    ASSUME BaseInv, OneReplica, NEW c \in Calls, Step(c), NEW d \in Calls \ {c}
    PROVE  pc[d] \notin InFlight
<1> SUFFICES ASSUME pc[d] \in InFlight PROVE FALSE
  OBVIOUS
<1>1. pc[c] \in InFlight \cup {"queued"} /\ Turn(c) /\ Turn(d)
  BY StepPhases, StepGoes DEF BaseInv, SerialInv
<1>2. pc[c] # "idle" /\ pc[d] # "idle" /\ arrived \in Nat
  BY <1>1 DEF InFlight, BaseInv, TypeOK
<1>3. c \in 1 .. arrived /\ d \in 1 .. arrived
  BY <1>2 DEF BaseInv, ArrivedInv, Calls
<1>4. ask[c].at = ask[d].at
  BY <1>3 DEF OneReplica
<1>5. pc[c] \in Answers \cup Dead \/ pc[d] \in Answers \cup Dead
  BY <1>1, <1>3, <1>4 DEF Turn
<1> QED
  BY <1>1, <1>5 DEF InFlight, Answers, Dead

\* A row that was read to be written back is still the registry's.
FreshInv ==
    OneReplica =>
        \A c \in Calls :
            pc[c] \in {"vote", "set"} => seen[c] = row /\ row.status = "pending"

\* Every vote that was told to wait is on the row.
WaitingInv ==
    OneReplica /\ row # NoRow =>
        \A c \in Calls : pc[c] = "waiting" => ask[c].by \in row.approvals

Declines(c) ==
    \/ pc[c] = "declined"
    \/ pc[c] \in {"mark", "set"} /\ marks[c] = "declined"

Acting(c) == pc[c] \in {"adjudicate", "execute"}

\* Nobody has declined or acted yet.
Unspent == effects = {} /\ \A c \in Calls : ~Declines(c) /\ ~Acting(c)

\* A token that is there, or was when a call read it, is unspent; a request that
\* is declined was never acted upon.
SpentInv ==
    OneReplica =>
        /\ token => Unspent
        /\ \A c \in Calls :
            /\ pc[c] = "delete" => Unspent
            /\ Declines(c) => effects = {} /\ \A d \in Calls : ~Acting(d)

ReplicaInv == BaseInv /\ QuorumInv /\ FreshInv /\ WaitingInv /\ SpentInv

LEMMA StepFresh ==
    ASSUME ReplicaInv, OneReplica, NEW c \in Calls, Step(c)
    PROVE  /\ \A d \in Calls : pc'[d] \in {"vote", "set"} =>
                    seen'[d] = row' /\ row'.status = "pending"
           /\ row' # NoRow => \A d \in Calls :
                    pc'[d] = "waiting" => ask'[d].by \in row'.approvals
           /\ row # NoRow /\ row.status # "pending" => row' = row
<1> USE DEF ReplicaInv, BaseInv, TypeOK
<1>1. /\ \A d \in Calls \ {c} : pc'[d] = pc[d] /\ pc'[d] \notin {"vote", "set"}
      /\ UNCHANGED ask
  BY StepPhases, Alone, StepIsLocal DEF InFlight
<1>2. CASE Enter(c)
  <2>1. UNCHANGED row
    BY <1>2 DEF Enter
  <2>2. pc'[c] # "waiting"
    BY <1>2 DEF Enter, AfterGates, Go
  <2>3. pc'[c] \in {"vote", "set"} => seen'[c] = row /\ row.status = "pending"
    BY <1>2 DEF Enter, AfterGates, Go
  <2> QED
    BY <1>1, <2>1, <2>2, <2>3 DEF WaitingInv
<1>3. CASE Vote(c)
  <2> DEFINE approvals == seen[c].approvals \cup {ask[c].by}
  <2>1. /\ pc[c] = "vote" /\ pc'[c] \notin {"vote", "set"}
        /\ row' = [seen[c] EXCEPT !.approvals = approvals]
    BY <1>3 DEF Vote, Go
  <2>2. seen[c] = row /\ row.status = "pending" /\ seen[c] \in Row
    BY <2>1 DEF FreshInv
  <2>3. row # NoRow
    BY <2>2, NoRowAssumption
  <2>4. row'.approvals = row.approvals \cup {ask[c].by}
    BY <2>1, <2>2 DEF Row
  <2>5. ASSUME NEW d \in Calls, pc'[d] = "waiting"
        PROVE  ask'[d].by \in row'.approvals
    BY <1>1, <2>3, <2>4, <2>5 DEF WaitingInv
  <2> QED
    BY <1>1, <2>1, <2>2, <2>5
<1>4. CASE MarkGet(c)
  <2>1. /\ UNCHANGED row
        /\ pc'[c] \notin {"vote", "waiting"}
        /\ pc'[c] = "set" => seen'[c] = row /\ row.status = "pending"
    BY <1>4 DEF MarkGet, Answer, Go, MarkInv
  <2> QED
    BY <1>1, <2>1 DEF WaitingInv
<1>5. CASE MarkSet(c)
  <2>1. /\ pc[c] = "set" /\ pc'[c] \notin {"vote", "set", "waiting"}
        /\ row' = [seen[c] EXCEPT !.status = marks[c]]
    BY <1>5 DEF MarkSet, Marked, Answer, Go, MarkInv
  <2>2. seen[c] = row /\ row.status = "pending" /\ seen[c] \in Row
    BY <2>1 DEF FreshInv
  <2>3. row # NoRow /\ row'.approvals = row.approvals
    BY <2>1, <2>2, NoRowAssumption DEF Row
  <2> QED
    BY <1>1, <2>1, <2>2, <2>3 DEF WaitingInv
<1>6. CASE Take(c) \/ Delete(c) \/ Adjudicate(c) \/ Execute(c) \/ StateFails(c)
  <2>1. UNCHANGED row /\ pc'[c] \notin {"vote", "set", "waiting"}
    BY <1>6 DEF Take, Delete, Adjudicate, Execute, StateFails, Confirmed, Go
  <2> QED
    BY <1>1, <2>1 DEF WaitingInv
<1> QED
  BY <1>2, <1>3, <1>4, <1>5, <1>6 DEF Step, Proceed

LEMMA StepSpent ==
    ASSUME ReplicaInv, OneReplica, NEW c \in Calls, Step(c)
    PROVE  SpentInv'
<1> USE DEF ReplicaInv, BaseInv, TypeOK
<1>1. \A d \in Calls \ {c} :
        /\ pc'[d] = pc[d] /\ marks'[d] = marks[d] /\ pc'[d] \notin InFlight
        /\ ~Acting(d)' /\ (Declines(d)' <=> Declines(d)) /\ pc'[d] # "delete"
  BY StepPhases, Alone, StepIsLocal DEF InFlight, Acting, Declines
<1>2. /\ token => Unspent
      /\ pc[c] = "delete" => Unspent
      /\ \A d \in Calls : Declines(d) => effects = {} /\ ~Acting(c)
      /\ Acting(c) => ask[c].accepted
  BY DEF SpentInv, Acting, QuorumInv, QuorateCall
<1>3. CASE \/ Enter(c) \/ Vote(c) \/ StateFails(c)
  <2>1. /\ UNCHANGED <<token, effects>>
        /\ pc'[c] \notin {"delete", "adjudicate", "execute", "mark", "set",
                          "declined"}
    BY <1>3 DEF Enter, AfterGates, Vote, StateFails, Go
  <2> QED
    BY <1>1, <1>2, <2>1 DEF SpentInv, Unspent, Acting, Declines
<1>4. CASE Take(c)
  <2>1. /\ UNCHANGED <<token, effects>> /\ pc[c] = "take"
        /\ \/ token /\ pc'[c] = "delete"
           \/ pc'[c] = "mark" /\ marks'[c] = "expired"
    BY <1>4 DEF Take, Confirmed, Go
  <2>2. ~Acting(c)' /\ ~Declines(c)' /\ ~Declines(c)
    BY <2>1 DEF Acting, Declines
  <2>3. Unspent => Unspent'
    BY <1>1, <2>1, <2>2 DEF Unspent
  <2> QED
    BY <1>1, <1>2, <2>1, <2>2, <2>3 DEF SpentInv
<1>5. CASE Delete(c)
  <2>1. /\ token' = FALSE /\ UNCHANGED effects /\ pc[c] = "delete"
        /\ pc'[c] \in {"adjudicate", "mark"}
        /\ Acting(c)' => ~Declines(c)'
    BY <1>5 DEF Delete, NoToken, Confirmed, Go, Acting, Declines
  <2>2. Unspent
    BY <1>2, <2>1
  <2>3. \A d \in Calls \ {c} :
          ~Declines(d)' /\ ~Acting(d)' /\ pc'[d] # "delete"
    BY <1>1, <2>2 DEF Unspent
  <2>4. pc'[c] # "delete" /\ effects' = {}
    BY <2>1, <2>2 DEF Unspent
  <2> QED
    BY <2>1, <2>3, <2>4 DEF SpentInv
<1>6. CASE Adjudicate(c) \/ Execute(c)
  <2>1. /\ UNCHANGED token /\ Acting(c) /\ pc'[c] \in {"execute", "mark"}
        /\ pc'[c] = "mark" => marks'[c] \in {"approved", "expired"}
    BY <1>2, <1>6 DEF Adjudicate, Execute, Confirmed, Go, Acting, Outcome
  <2>2. ~token /\ \A d \in Calls : ~Declines(d)
    BY <1>2, <2>1 DEF Unspent
  <2>3. \A d \in Calls : ~Declines(d)' /\ pc'[d] # "delete"
    BY <1>1, <2>1, <2>2 DEF Declines
  <2> QED
    BY <2>1, <2>2, <2>3 DEF SpentInv
<1>7. CASE MarkGet(c) \/ MarkSet(c)
  <2>1. /\ UNCHANGED <<token, effects>>
        /\ pc'[c] \notin {"delete", "adjudicate", "execute"}
        /\ Declines(c)' => Declines(c)
    BY <1>7 DEF MarkGet, MarkSet, Answer, Go, MarkInv, Declines
  <2>2. ~Acting(c)' /\ (Unspent => Unspent')
    BY <1>1, <2>1 DEF Unspent, Acting
  <2> QED
    BY <1>1, <1>2, <2>1, <2>2 DEF SpentInv
<1> QED
  BY <1>3, <1>4, <1>5, <1>6, <1>7 DEF Step, Proceed

\* What the other steps leave of a call.
LEMMA OtherSteps ==
    ASSUME BaseInv, NEW d \in Calls,
           \/ Request \/ PutRequest \/ Expire \/ UNCHANGED vars
           \/ \E a \in Ask : Resolve(a)
           \/ \E r \in Replicas : Crash(r)
    PROVE  /\ \/ pc'[d] = pc[d] /\ seen'[d] = seen[d] /\ marks'[d] = marks[d]
              \/ pc'[d] \in {"queued", "dropped", "crashed"}
           /\ pc[d] \in InFlight \cup Answers => ask'[d] = ask[d]
           /\ effects' = effects /\ (token' => token)
           /\ row' = row \/ PutRequest
<1>1. ASSUME NEW a \in Ask, Resolve(a)
      PROVE  /\ \/ pc'[d] = pc[d] /\ seen'[d] = seen[d] /\ marks'[d] = marks[d]
                \/ pc'[d] = "queued"
             /\ pc[d] \in InFlight \cup Answers => ask'[d] = ask[d]
             /\ UNCHANGED <<effects, token, row>>
  <2>1. ASSUME pc[d] \in InFlight \cup Answers PROVE d \in 1 .. arrived
    BY <2>1 DEF BaseInv, TypeOK, ArrivedInv, InFlight, Answers, Calls
  <2> QED
    BY <1>1, <2>1, ResolveStep
<1>2. ASSUME NEW r \in Replicas, Crash(r)
      PROVE  /\ \/ pc'[d] = pc[d] /\ seen'[d] = seen[d] /\ marks'[d] = marks[d]
                \/ pc'[d] \in {"dropped", "crashed"}
             /\ UNCHANGED <<effects, token, row, ask>>
  BY <1>2, CrashStep
<1>3. CASE Request \/ PutRequest \/ Expire \/ UNCHANGED vars
  BY <1>3 DEF Request, PutRequest, Expire, vars
<1> QED
  BY <1>1, <1>2, <1>3

LEMMA ReplicaStep ==
    ASSUME ReplicaInv, [Next]_vars
    PROVE  /\ ReplicaInv'
           /\ OneReplica' /\ row # NoRow /\ row.status # "pending" => row' = row
<1>1. BaseInv' /\ QuorumInv'
  BY BaseStep, QuorumStep DEF ReplicaInv
<1> SUFFICES ASSUME OneReplica'
             PROVE  /\ FreshInv' /\ WaitingInv' /\ SpentInv'
                    /\ row # NoRow /\ row.status # "pending" => row' = row
  BY <1>1 DEF ReplicaInv, FreshInv, WaitingInv, SpentInv
<1>2. OneReplica
  BY OneReplicaBack DEF ReplicaInv
<1>3. ASSUME NEW c \in Calls, Step(c)
      PROVE  /\ FreshInv' /\ WaitingInv' /\ SpentInv'
             /\ row # NoRow /\ row.status # "pending" => row' = row
  BY <1>2, <1>3, StepFresh, StepSpent DEF FreshInv, WaitingInv
<1>4. ASSUME \/ Request \/ PutRequest \/ Expire \/ UNCHANGED vars
             \/ \E a \in Ask : Resolve(a)
             \/ \E r \in Replicas : Crash(r)
      PROVE  /\ FreshInv' /\ WaitingInv' /\ SpentInv'
             /\ row # NoRow /\ row.status # "pending" => row' = row
  <2>1. ASSUME NEW d \in Calls
        PROVE  /\ \/ pc'[d] = pc[d] /\ seen'[d] = seen[d] /\ marks'[d] = marks[d]
                  \/ pc'[d] \in {"queued", "dropped", "crashed"}
               /\ pc[d] \in InFlight \cup Answers => ask'[d] = ask[d]
               /\ effects' = effects /\ (token' => token)
               /\ row' = row \/ PutRequest
    BY <1>4, OtherSteps DEF ReplicaInv
  <2>2. CASE PutRequest
    <3>1. row = NoRow
      BY <2>2 DEF PutRequest, ReplicaInv, BaseInv, RowInv
    <3>2. UNCHANGED <<token, effects, pc, marks>>
      BY <2>2 DEF PutRequest
    <3>3. \A d \in Calls : pc'[d] \notin {"vote", "set", "waiting"}
      BY <3>1, <3>2 DEF ReplicaInv, BaseInv, RowInv, InFlight
    <3>4. SpentInv'
      BY <1>2, <3>2 DEF ReplicaInv, SpentInv, Unspent, Acting, Declines
    <3> QED
      BY <3>1, <3>3, <3>4 DEF FreshInv, WaitingInv
  <2>3. CASE ~PutRequest
    <3>1. UNCHANGED <<row, effects>> /\ (token' => token)
      <4>1. CASE \E d \in Calls : TRUE
        BY <2>1, <2>3, <4>1
      <4>2. CASE \A d \in Calls : FALSE
        BY <1>4, <2>3, <4>2, ResolveStep, CrashStep
           DEF Request, Expire, vars, ReplicaInv
      <4> QED
        BY <4>1, <4>2
    <3>2. FreshInv'
      BY <1>2, <2>1, <3>1 DEF ReplicaInv, FreshInv
    <3>3. WaitingInv'
      BY <1>2, <2>1, <3>1 DEF ReplicaInv, WaitingInv, Answers
    <3>4. ASSUME NEW d \in Calls
          PROVE  /\ Declines(d)' => Declines(d)
                 /\ Acting(d)' => Acting(d)
                 /\ pc'[d] = "delete" => pc[d] = "delete"
      BY <2>1 DEF Declines, Acting
    <3>5. SpentInv'
      BY <1>2, <3>1, <3>4 DEF ReplicaInv, SpentInv, Unspent
    <3> QED
      BY <3>1, <3>2, <3>3, <3>5
  <2> QED
    BY <2>2, <2>3
<1> QED
  BY <1>3, <1>4, NextIsStep

LEMMA ReplicaInductive == Spec => []ReplicaInv
<1>1. Init => ReplicaInv
  <2> SUFFICES ASSUME Init PROVE ReplicaInv
    OBVIOUS
  <2>1. BaseInv /\ QuorumInv
    BY BaseInit DEF Init, QuorumInv, QuorateCall, Deciding
  <2>2. FreshInv /\ WaitingInv /\ SpentInv
    BY DEF Init, FreshInv, WaitingInv, SpentInv, Unspent, Declines, Acting
  <2> QED
    BY <2>1, <2>2 DEF ReplicaInv
<1>2. ReplicaInv /\ [Next]_vars => ReplicaInv'
  BY ReplicaStep
<1> QED
  BY <1>1, <1>2, PTL DEF Spec

\* In one replica every approver who was told to wait is on the row: the chain
\* makes the read and the write of a vote one step.  (withTokenLock)
THEOREM VotesKeptHolds == Spec => []VotesKept
<1>1. ReplicaInv => VotesKept
  BY DEF ReplicaInv, WaitingInv, VotesKept
<1> QED
  BY <1>1, ReplicaInductive, PTL

\* In one replica a declined request never executes: whoever declined found the
\* token unspent and spent it, and only its holder acts.  (take)
THEOREM DeclineIsFinalHolds == Spec => []DeclineIsFinal
<1>1. ReplicaInv => DeclineIsFinal
  BY DEF ReplicaInv, SpentInv, DeclineIsFinal, Declines, Acting
<1> QED
  BY <1>1, ReplicaInductive, PTL

\* In one replica a resolved row is never written again: what a vote or a mark
\* writes back was read pending and has not changed.  (the status gate)
THEOREM ResolvedStaysHolds == Spec => ResolvedStays
<1>1. ReplicaInv /\ [Next]_vars =>
        (OneReplica' /\ row # NoRow /\ row.status # "pending" => row' = row)
  BY ReplicaStep
<1> QED
  BY <1>1, ReplicaInductive, PTL DEF Spec, ResolvedStays

-------------------------------------------------------------------------------
(* One call at a time, and each comes to its end *)

\* Commands that a call has at most before it.
Rank(c) ==
    CASE pc[c] = "queued"     -> 8
      [] pc[c] = "vote"       -> 7
      [] pc[c] = "take"       -> 6
      [] pc[c] = "delete"     -> 5
      [] pc[c] = "adjudicate" -> 4
      [] pc[c] = "execute"    -> 3
      [] pc[c] = "mark"       -> 2
      [] pc[c] = "set"        -> 1
      [] OTHER                -> 0

LEMMA Least ==
    ASSUME NEW S \in SUBSET Nat, S # {}
    PROVE  \E x \in S : \A y \in S : x <= y
<1>1. PICK x \in S : \A y \in S : <<y, x>> \notin OpToRel(<, Nat)
  BY NatLessThanWellFounded, WFMin
<1>2. \A y \in S : ~(y < x)
  BY <1>1 DEF OpToRel
<1> QED
  BY <1>2

LEMMA StepNearer ==
    ASSUME BaseInv, NEW c \in Calls, Step(c)
    PROVE  Rank(c)' < Rank(c)
<1> USE DEF BaseInv, TypeOK
<1>1. ASSUME NEW from, NEW to, Go(c, from, to)
      PROVE  pc[c] = from /\ pc'[c] = to
  BY <1>1 DEF Go
<1>2. CASE Enter(c)
  <2>1. pc[c] = "queued" /\ pc'[c] = AfterGates(c)
    BY <1>1, <1>2 DEF Enter
  <2> QED
    BY <2>1 DEF AfterGates, Rank
<1>3. CASE Vote(c)
  <2>1. pc[c] = "vote" /\ pc'[c] \in {"take", "waiting"}
    BY <1>1, <1>3 DEF Vote
  <2> QED
    BY <2>1 DEF Rank
<1>4. CASE Take(c) \/ StateFails(c)
  <2>1. pc[c] = "take" /\ pc'[c] \in {"delete", "mark", "failed"}
    BY <1>1, <1>4 DEF Take, StateFails, Confirmed
  <2> QED
    BY <2>1 DEF Rank
<1>5. CASE Delete(c)
  <2>1. pc[c] = "delete" /\ pc'[c] \in {"adjudicate", "mark"}
    BY <1>1, <1>5 DEF Delete, Confirmed
  <2> QED
    BY <2>1 DEF Rank
<1>6. CASE Adjudicate(c)
  <2>1. pc[c] = "adjudicate" /\ pc'[c] \in {"execute", "mark"}
    BY <1>1, <1>6 DEF Adjudicate, Confirmed
  <2> QED
    BY <2>1 DEF Rank
<1>7. CASE Execute(c)
  <2>1. pc[c] = "execute" /\ pc'[c] = "mark"
    BY <1>1, <1>7 DEF Execute, Confirmed
  <2> QED
    BY <2>1 DEF Rank
<1>8. CASE MarkGet(c) \/ MarkSet(c)
  <2>1. /\ pc[c] \in {"mark", "set"}
        /\ \/ pc[c] = "mark" /\ pc'[c] = "set"
           \/ pc'[c] \in {"confirm_rejected", "failed", marks[c]}
    BY <1>1, <1>8 DEF MarkGet, MarkSet, Answer
  <2>2. marks[c] \in {"approved", "declined", "expired"}
    BY <2>1 DEF MarkInv
  <2> QED
    BY <2>1, <2>2 DEF Rank
<1> QED
  BY <1>2, <1>3, <1>4, <1>5, <1>6, <1>7, <1>8 DEF Step, Proceed

LEMMA CrashNearer ==
    ASSUME BaseInv, NEW r \in Replicas, Crash(r), NEW c \in Calls
    PROVE  pc'[c] = pc[c] \/ Rank(c)' < Rank(c)
<1>1. \/ pc'[c] = pc[c]
      \/ /\ pc'[c] \in {"dropped", "crashed"}
         /\ pc[c] \in {"queued"} \cup InFlight
  BY CrashStep
<1> QED
  BY <1>1 DEF InFlight, Rank

\* The calls of one replica never overlap: whoever reads the row there is done
\* with it before the next one enters.  (withTokenLock)
THEOREM OneAtATime ==
    Spec => [](\A c, d \in Calls :
                  pc[c] \in InFlight /\ pc[d] \in InFlight /\ ask[c].at = ask[d].at
                      => c = d)
<1>1. ASSUME BaseInv, NEW c \in Calls, NEW d \in Calls, c < d,
             pc[c] \in InFlight, pc[d] \in InFlight
      PROVE  ask[c].at # ask[d].at
  <2>1. Turn(d)
    BY <1>1 DEF BaseInv, SerialInv
  <2>2. c \in 1..d - 1
    BY <1>1, ConstantsAssumption DEF Calls
  <2>3. pc[c] \notin Answers \cup Dead
    BY <1>1 DEF InFlight, Answers, Dead
  <2> QED
    BY <2>1, <2>2, <2>3 DEF Turn
<1>2. \A c, d \in Calls : c < d \/ d < c \/ c = d
  BY ConstantsAssumption DEF Calls
<1>3. BaseInv =>
        \A c, d \in Calls :
            pc[c] \in InFlight /\ pc[d] \in InFlight /\ ask[c].at = ask[d].at
                => c = d
  BY <1>1, <1>2
<1> QED
  BY <1>3, QuorumInductive, PTL

\* Whatever threw or died before it, a call that waits has, in its replica and no
\* later than itself, a call that is at work or whose turn has come.
\* (prev.then(fn, fn))
THEOREM ChainNeverWedges ==
    Spec => [](\A c \in Calls : pc[c] = "queued" =>
                  \E d \in 1..c :
                      /\ ask[d].at = ask[c].at
                      /\ pc[d] \in InFlight \/ (pc[d] = "queued" /\ Turn(d)))
<1>1. ASSUME BaseInv, NEW c \in Calls, pc[c] = "queued"
      PROVE  \E d \in 1..c :
                 /\ ask[d].at = ask[c].at
                 /\ pc[d] \in InFlight \/ (pc[d] = "queued" /\ Turn(d))
  <2> DEFINE Ahead == {d \in 1..c : /\ ask[d].at = ask[c].at
                                    /\ pc[d] \notin Answers \cup Dead}
  <2>1. c \in Nat /\ c \in Ahead /\ Ahead \in SUBSET Nat
    BY <1>1, ConstantsAssumption DEF Calls, Answers, Dead
  <2>2. PICK d \in Ahead : \A e \in Ahead : d <= e
    BY <2>1, Least
  <2>3. /\ d \in 1..c /\ d \in Calls /\ ask[d].at = ask[c].at
        /\ pc[d] \notin Answers \cup Dead
    BY <2>1, ConstantsAssumption DEF Calls
  <2>4. Turn(d)
    <3>1. ASSUME NEW e \in 1..d - 1, ask[e].at = ask[d].at
          PROVE  pc[e] \in Answers \cup Dead
      <4>1. e \in 1..c /\ ~(d <= e)
        BY <2>1, <2>3
      <4> QED
        BY <2>2, <2>3, <3>1, <4>1
    <3> QED
      BY <3>1 DEF Turn
  <2>5. pc[d] # "idle"
    <3>1. ~(c > arrived) /\ arrived \in Nat
      BY <1>1, ConstantsAssumption DEF BaseInv, ArrivedInv, TypeOK
    <3>2. ~(d > arrived)
      BY <2>1, <2>3, <3>1
    <3> QED
      BY <1>1, <2>3, <3>2 DEF BaseInv, ArrivedInv
  <2>6. pc[d] \in InFlight \cup {"queued"}
    BY <1>1, <2>3, <2>5 DEF BaseInv, TypeOK
  <2> QED
    BY <2>3, <2>4, <2>6
<1>2. BaseInv =>
        \A c \in Calls : pc[c] = "queued" =>
            \E d \in 1..c :
                /\ ask[d].at = ask[c].at
                /\ pc[d] \in InFlight \/ (pc[d] = "queued" /\ Turn(d))
  BY <1>1
<1> QED
  BY <1>2, QuorumInductive, PTL

\* A call only goes forward, from command to command and to its answer: no step
\* of a client or of a replica's death sends it back.  (resolve, confirm)
THEOREM CallsEnd ==
    Spec => [][\A c \in Calls : pc[c] # "idle" =>
                  pc'[c] = pc[c] \/ Rank(c)' < Rank(c)]_vars
<1>1. ASSUME BaseInv, Next, NEW c \in Calls, pc[c] # "idle"
      PROVE  pc'[c] = pc[c] \/ Rank(c)' < Rank(c)
  <2>1. CASE Request \/ PutRequest \/ Expire
    BY <2>1 DEF Request, PutRequest, Expire
  <2>2. CASE \E a \in Ask : Resolve(a)
    BY <1>1, <2>2 DEF Resolve, Go, BaseInv, TypeOK
  <2>3. ASSUME NEW d \in Calls, Step(d)
        PROVE  pc'[c] = pc[c] \/ Rank(c)' < Rank(c)
    BY <1>1, <2>3, StepPhases, StepNearer
  <2>4. CASE \E r \in Replicas : Crash(r)
    BY <1>1, <2>4, CrashNearer
  <2> QED
    BY <1>1, <2>1, <2>2, <2>3, <2>4, NextIsStep
<1>2. BaseInv /\ [Next]_vars =>
        [\A c \in Calls : pc[c] # "idle" =>
            pc'[c] = pc[c] \/ Rank(c)' < Rank(c)]_vars
  BY <1>1
<1> QED
  BY <1>2, QuorumInductive, PTL DEF Spec
================================================================================
