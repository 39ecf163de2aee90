---------------------------- MODULE AgentLoopProofs ----------------------------
(***************************************************************************)
(* Proofs about AgentLoop: no intent is minted clean from retrieved data,  *)
(* a tool use runs at most once, what was asked about is paid for, the     *)
(* model is called with its earlier uses answered, and every turn comes to *)
(* its end; for any replies, any numbers of turns and of iterations, any   *)
(* limit of the grant and under every set of faults.                       *)
(***************************************************************************)
EXTENDS AgentLoop, FiniteSetTheorems, TLAPS

-------------------------------------------------------------------------------
(* Typing *)

Phases == {"idle", "clear", "load", "call", "use", "put", "burn", "again", "act",
           "done", "rejected"}

\* Uses without the bounds of a run.
Triples == Turns \X Nat \X Nat
Wide == [data : SUBSET Triples, open : SUBSET Triples]
Subjects == [use : Triples \cup {None}, decision : Decisions,
             by : {"kernel", "grant", "receipt"}, seed : BOOLEAN,
             stamped : BOOLEAN]

TypedTurn ==
    /\ phase \in [Turns -> Phases]
    /\ history \in [Turns -> Wide]
    /\ iteration \in [Turns -> Nat]
    /\ answered \in [Turns -> SUBSET Triples]
    /\ \A t \in Turns : IsFiniteSet(answered[t])
    /\ served \in [Turns -> SUBSET Triples]
    /\ flag \in [Turns -> BOOLEAN]
    /\ subject \in [Turns -> Subjects]

TypedStores ==
    /\ stored \in BOOLEAN
    /\ pending \in SUBSET [use : Triples, history : Wide]
    /\ parked \in Triples \cup {None}
    /\ held \in SUBSET Wide
    /\ kept \in SUBSET Triples
    /\ redeemed \in SUBSET Triples
    /\ effects \in SUBSET (Turns \X Triples \X {"kernel", "grant", "receipt"})

\* A turn that resumes or acts on a decision has a use.
SubjectInv ==
    \A t \in Turns :
        /\ phase[t] \in {"clear", "burn", "again", "act"} => subject[t].use \in Triples
        /\ subject[t].seed => subject[t].use \in Triples

Typed == TypedTurn /\ TypedStores /\ SubjectInv

Step(t) == Starts(t) \/ Proceeds(t) \/ Dies(t)

LEMMA NextIsStep ==
    ASSUME Next
    PROVE  FlagExpires \/ \E t \in Turns : Step(t)
BY DEF Next, Step

LEMMA CurrentIsTriple ==
    ASSUME Typed, NEW t \in Turns
    PROVE  Current(t) \in Triples
<1>1. Cardinality(answered[t]) \in Nat
  BY FS_CardinalityType DEF Typed, TypedTurn
<1> QED
  BY <1>1 DEF Current, Triples, Typed, TypedTurn

LEMMA AnswerTyped ==
    ASSUME Typed, NEW t \in Turns,
           answered' = [answered EXCEPT ![t] = answered[t] \cup {Current(t)}]
    PROVE  /\ answered' \in [Turns -> SUBSET Triples]
           /\ \A s \in Turns : IsFiniteSet(answered'[s])
<1>1. answered \in [Turns -> SUBSET Triples] /\ \A s \in Turns : IsFiniteSet(answered[s])
  BY DEF Typed, TypedTurn
<1>2. IsFiniteSet(answered[t] \cup {Current(t)})
  BY <1>1, FS_AddElement
<1>3. Current(t) \in Triples
  BY CurrentIsTriple
<1>4. answered[t] \cup {Current(t)} \in SUBSET Triples
  BY <1>1, <1>3
<1>5. \A s \in Turns :
        answered'[s] = IF s = t THEN answered[t] \cup {Current(t)} ELSE answered[s]
  BY <1>1
<1> QED
  BY <1>1, <1>2, <1>4, <1>5

LEMMA ReturnTyped ==
    ASSUME Typed, NEW t \in Turns, Ends(t),
           phase' \in [Turns -> Phases], phase'[t] \in {"done", "rejected"},
           \A s \in Turns \ {t} : phase'[s] = phase[s]
    PROVE  TypedTurn' /\ SubjectInv'
<1> USE DEF Typed, TypedTurn
<1>1. EmptyHistory \in Wide /\ Nothing \in Subjects /\ Nothing.seed = FALSE
  BY DEF EmptyHistory, Wide, Nothing, Subjects, Decisions
<1>2. /\ history' = [history EXCEPT ![t] = EmptyHistory]
      /\ iteration' = [iteration EXCEPT ![t] = 0]
      /\ answered' = [answered EXCEPT ![t] = {}]
      /\ served' = [served EXCEPT ![t] = {}]
      /\ flag' = [flag EXCEPT ![t] = FALSE]
      /\ subject' = [subject EXCEPT ![t] = Nothing]
  BY DEF Ends
<1>3. \A s \in Turns : IsFiniteSet(answered'[s])
  BY <1>2, FS_EmptySet
<1>4. TypedTurn'
  BY <1>1, <1>2, <1>3
<1>5. SubjectInv'
  BY <1>1, <1>2 DEF SubjectInv
<1> QED
  BY <1>4, <1>5

\* The calls of the host.
LEMMA StartsTyped ==
    ASSUME Typed, NEW t \in Turns, Starts(t)
    PROVE  Typed'
<1> USE DEF Typed
<1>1. ASSUME NEW h \in Wide, NEW seed \in Subjects, Begins(t, h, seed),
             seed.seed => seed.use \in Triples,
             NEW to \in {"load", "clear"}, Goes(t, "idle", to),
             to = "clear" => seed.use \in Triples
      PROVE  TypedTurn' /\ SubjectInv'
  <2>1. TypedTurn'
    BY <1>1 DEF Begins, Goes, TypedTurn, Phases
  <2>2. SubjectInv'
    BY <1>1 DEF Begins, Goes, TypedTurn, SubjectInv
  <2> QED
    BY <2>1, <2>2
<1>2. ASSUME NEW u \in Triples, NEW decision \in Decisions,
             NEW by \in {"kernel", "grant", "receipt"}
      PROVE  /\ Seed(u, decision, by) \in Subjects
             /\ Seed(u, decision, by).seed /\ Seed(u, decision, by).use = u
  BY DEF Seed, Subjects
<1>3. CASE Send(t)
  <2>1. Nothing \in Subjects /\ Nothing.seed = FALSE
    BY DEF Nothing, Subjects, Decisions
  <2>2. PICK h \in held : Begins(t, h, Nothing)
    BY <1>3 DEF Send
  <2>3. h \in Wide
    BY <2>2 DEF TypedStores
  <2>4. TypedTurn' /\ SubjectInv'
    BY <1>1, <1>3, <2>1, <2>2, <2>3 DEF Send
  <2> QED
    BY <1>3, <2>4 DEF Send, stores, record, TypedStores
<1>4. CASE Confirm(t)
  <2>1. PICK tok \in pending :
          /\ pending' = pending \ {tok}
          /\ redeemed' = redeemed \cup {tok.use}
          /\ \/ \E decision \in Decisions :
                   /\ GoesOn(t, "idle", "load")
                   /\ Begins(t, tok.history, Seed(tok.use, decision, "receipt"))
             \/ Returns(t, "idle", tok.history)
             \/ GoesOn(t, "idle", "rejected") /\ UNCHANGED turn
          /\ UNCHANGED <<stored, parked, budget, kept, effects>>
    BY <1>4 DEF Confirm, Remaining
  <2>2. tok.use \in Triples /\ tok.history \in Wide
    BY DEF TypedStores
  <2>3. TypedTurn' /\ SubjectInv'
    <3>1. CASE \E decision \in Decisions :
                   /\ GoesOn(t, "idle", "load")
                   /\ Begins(t, tok.history, Seed(tok.use, decision, "receipt"))
      BY <1>1, <1>2, <2>2, <3>1 DEF GoesOn
    <3>2. CASE Returns(t, "idle", tok.history)
      BY <3>2, ReturnTyped DEF Returns, Goes, TypedTurn, Phases
    <3>3. CASE GoesOn(t, "idle", "rejected") /\ UNCHANGED turn
      BY <3>3 DEF GoesOn, Goes, turn, TypedTurn, SubjectInv, Phases
    <3> QED
      BY <2>1, <3>1, <3>2, <3>3
  <2>4. held' \in SUBSET Wide
    BY <2>1, <2>2 DEF GoesOn, Returns, TypedStores
  <2> QED
    BY <2>1, <2>2, <2>3, <2>4 DEF TypedStores
<1>5. CASE Resume(t)
  <2>1. PICK h \in held, decision \in Decisions :
          Begins(t, h, Seed(parked, decision, "kernel"))
    BY <1>5 DEF Resume
  <2>2. parked \in Triples /\ h \in Wide
    BY <1>5, <2>1 DEF Resume, TypedStores
  <2>3. TypedTurn' /\ SubjectInv'
    BY <1>1, <1>2, <1>5, <2>1, <2>2 DEF Resume
  <2> QED
    BY <1>5, <2>3 DEF Resume, record, TypedStores
<1> QED
  BY <1>3, <1>4, <1>5 DEF Starts

LEMMA ActTyped ==
    ASSUME Typed, NEW t \in Turns, Act(t)
    PROVE  Typed'
<1> USE DEF Typed
<1> DEFINE h == WithResults(t, IF subject[t].seed THEN OfSeed(t) ELSE OfReply(t))
<1>1. phase[t] = "act" /\ subject[t].use \in Triples
  BY DEF Act, SubjectInv
<1>2. h \in Wide
  <2>1. history[t] \in Wide /\ served[t] \in SUBSET Triples
    BY DEF TypedTurn
  <2> QED
    BY <2>1 DEF WithResults, Wide
<1>3. /\ Does(t) /\ UNCHANGED <<stored, budget, kept, redeemed>>
      /\ IF Pauses(t) THEN Returns(t, "act", h)
         ELSE /\ GoesOn(t, "act", IF subject[t].seed THEN "call" ELSE "use")
              /\ IF subject[t].seed
                 THEN /\ history' = [history EXCEPT ![t] = h]
                      /\ UNCHANGED <<reply, answered>>
                 ELSE Answer(t) /\ UNCHANGED history
              /\ subject' = [subject EXCEPT ![t] = Nothing]
              /\ UNCHANGED <<iteration, served, flag>>
  BY DEF Act
<1> HIDE DEF h
<1>4. TypedTurn' /\ SubjectInv'
  <2>1. CASE Pauses(t)
    BY <1>3, <2>1, ReturnTyped DEF Returns, Goes, TypedTurn, Phases
  <2>2. CASE ~Pauses(t)
    <3>1. /\ phase' = [phase EXCEPT ![t] = IF subject[t].seed THEN "call" ELSE "use"]
          /\ subject' = [subject EXCEPT ![t] = Nothing]
          /\ UNCHANGED <<iteration, served, flag>>
          /\ history' = history \/ history' = [history EXCEPT ![t] = h]
          /\ \/ UNCHANGED answered
             \/ answered' = [answered EXCEPT ![t] = answered[t] \cup {Current(t)}]
      BY <1>3, <2>2 DEF GoesOn, Goes, Answer, TypedTurn
    <3>2. Nothing \in Subjects /\ Nothing.seed = FALSE
      BY DEF Nothing, Subjects, Decisions
    <3>3. SubjectInv'
      BY <3>1, <3>2 DEF SubjectInv, TypedTurn
    <3>4. /\ phase' \in [Turns -> Phases] /\ subject' \in [Turns -> Subjects]
          /\ history' \in [Turns -> Wide]
      BY <1>2, <3>1, <3>2 DEF TypedTurn, Phases
    <3>5. /\ answered' \in [Turns -> SUBSET Triples]
          /\ \A s \in Turns : IsFiniteSet(answered'[s])
      BY <3>1, AnswerTyped DEF TypedTurn
    <3> QED
      BY <3>1, <3>3, <3>4, <3>5 DEF TypedTurn
  <2> QED
    BY <2>1, <2>2
<1>5. /\ pending' \in SUBSET [use : Triples, history : Wide]
      /\ parked' \in Triples \cup {None}
      /\ effects' \in SUBSET (Turns \X Triples \X {"kernel", "grant", "receipt"})
  <2>1. [use |-> subject[t].use, history |-> history[t]] \in [use : Triples, history : Wide]
    BY <1>1 DEF TypedTurn
  <2>2. <<t, subject[t].use, subject[t].by>> \in
            Turns \X Triples \X {"kernel", "grant", "receipt"}
    <3>1. subject[t].by \in {"kernel", "grant", "receipt"}
      BY DEF TypedTurn, Subjects
    <3> QED
      BY <1>1, <3>1
  <2>3. /\ pending' \in {pending, pending \cup {[use |-> subject[t].use,
                                                  history |-> history[t]]}}
        /\ parked' \in {parked, subject[t].use}
        /\ effects' \in {effects, effects \cup {<<t, subject[t].use, subject[t].by>>}}
    BY <1>3 DEF Does
  <2> QED
    BY <1>1, <2>1, <2>2, <2>3 DEF TypedStores
<1>6. held' \in SUBSET Wide
  BY <1>2, <1>3 DEF Returns, GoesOn, TypedStores
<1> QED
  BY <1>3, <1>4, <1>5, <1>6 DEF TypedStores

\* The steps of a turn but Act.
LEMMA ProceedsTyped ==
    ASSUME Typed, NEW t \in Turns, Proceeds(t)
    PROVE  Typed'
<1> USE DEF Typed
<1>1. CASE Clear(t) \/ Load(t)
  BY <1>1 DEF Clear, Load, Loaded, Goes, turn, stores, record, TypedTurn,
     TypedStores, SubjectInv, Phases
<1>2. CASE Call(t)
  <2>1. history[t] \in Wide
    BY DEF TypedTurn
  <2>2. CASE Returns(t, "call", history[t]) /\ UNCHANGED <<stores, kept, redeemed, effects>>
    BY <2>1, <2>2, ReturnTyped
       DEF Returns, Goes, TypedTurn, TypedStores, Phases, stores
  <2>3. ASSUME NEW r \in Replies, GoesOn(t, "call", "use"),
               iteration' = [iteration EXCEPT ![t] = @ + 1],
               reply' = [reply EXCEPT ![t] = r],
               history' = [history EXCEPT ![t].open =
                               @ \cup UsesOf(t, iteration[t] + 1, r)],
               UNCHANGED <<answered, served, flag, subject>>,
               UNCHANGED <<stores, kept, redeemed, effects>>
        PROVE  Typed'
    <3>1. r \in Seq(Classes)
      BY ConstantsAssumption
    <3>2. UsesOf(t, iteration[t] + 1, r) \in SUBSET Triples
      BY <3>1 DEF UsesOf, Triples, TypedTurn
    <3>3. [history[t] EXCEPT !.open = @ \cup UsesOf(t, iteration[t] + 1, r)] \in Wide
      BY <2>1, <3>2 DEF Wide
    <3>4. history' \in [Turns -> Wide]
      BY <2>3, <3>3 DEF TypedTurn
    <3> QED
      BY <2>3, <3>1, <3>4
         DEF GoesOn, Goes, TypedTurn, TypedStores, SubjectInv, Phases, stores
  <2> QED
    BY <1>2, <2>2, <2>3 DEF Call
<1>3. CASE Block(t) \/ Read(t)
  <2>1. /\ phase[t] = "use" /\ reply[t] # <<>>
        /\ \E to \in {"use", "put"} : phase' = [phase EXCEPT ![t] = to]
        /\ answered' = [answered EXCEPT ![t] = answered[t] \cup {Current(t)}]
        /\ \/ served' = served
           \/ served' = [served EXCEPT ![t] = served[t] \cup {Current(t)}]
        /\ UNCHANGED <<history, iteration, flag, subject, stores, record>>
    BY <1>3 DEF Block, Read, Answer, Goes, TypedTurn
  <2>2. /\ answered' \in [Turns -> SUBSET Triples]
        /\ \A s \in Turns : IsFiniteSet(answered'[s])
        /\ served' \in [Turns -> SUBSET Triples]
    BY <2>1, AnswerTyped, CurrentIsTriple DEF TypedTurn
  <2> QED
    BY <2>1, <2>2
       DEF TypedTurn, TypedStores, SubjectInv, Phases, stores, record
<1>4. CASE Put(t)
  <2>1. kept' \in SUBSET Triples
    BY <1>4 DEF Put, TypedTurn, TypedStores
  <2> QED
    BY <1>4, <2>1 DEF Put, Goes, TypedTurn, TypedStores, SubjectInv, Phases
<1>5. CASE Propose(t)
  <2>1. PICK decision \in Decisions :
          /\ Goes(t, "use", IF decision = "REQUEST_CONFIRMATION" THEN "burn" ELSE "act")
          /\ subject' = [subject EXCEPT ![t] =
                 [use |-> Current(t), decision |-> decision, by |-> "kernel",
                  seed |-> FALSE, stamped |-> flag[t]]]
    BY <1>5 DEF Propose
  <2>2. [use |-> Current(t), decision |-> decision, by |-> "kernel",
         seed |-> FALSE, stamped |-> flag[t]] \in Subjects
    BY CurrentIsTriple DEF Subjects, TypedTurn
  <2> QED
    BY <1>5, <2>1, <2>2, CurrentIsTriple
       DEF Propose, Goes, TypedTurn, TypedStores, SubjectInv, Phases, stores, record
<1>6. CASE Burn(t)
  BY <1>6 DEF Burn, Goes, turn, record, TypedTurn, TypedStores, SubjectInv, Phases
<1>7. CASE Again(t)
  <2>1. PICK decision \in Decisions :
          subject' = [subject EXCEPT ![t] =
                          [[subject[t] EXCEPT !.decision = decision] EXCEPT !.by = "grant"]]
    BY <1>7 DEF Again, Decisions
  <2>2. subject[t] \in Subjects
    BY DEF TypedTurn
  <2>3. [[subject[t] EXCEPT !.decision = decision] EXCEPT !.by = "grant"] \in Subjects
    BY <2>2 DEF Subjects
  <2>4. /\ phase' \in [Turns -> Phases] /\ phase[t] = "again" /\ phase'[t] = "act"
        /\ \A s \in Turns \ {t} : phase'[s] = phase[s] /\ subject'[s] = subject[s]
    BY <1>7, <2>1 DEF Again, Goes, TypedTurn, Phases
  <2>5. subject'[t].use = subject[t].use /\ subject'[t].seed = subject[t].seed
    BY <2>1, <2>2 DEF Subjects, TypedTurn
  <2>6. SubjectInv'
    BY <2>4, <2>5 DEF SubjectInv
  <2> QED
    BY <1>7, <2>1, <2>3, <2>4, <2>6 DEF Again, TypedTurn, TypedStores, stores, record
<1>8. CASE Act(t)
  BY <1>8, ActTyped
<1>9. CASE FeedBack(t)
  <2>1. WithResults(t, answered[t]) \in Wide
    <3>1. history[t] \in Wide /\ served[t] \in SUBSET Triples
      BY DEF TypedTurn
    <3> QED
      BY <3>1 DEF WithResults, Wide
  <2>2. \A s \in Turns : IsFiniteSet(answered'[s])
    BY <1>9, FS_EmptySet DEF FeedBack, TypedTurn
  <2> QED
    BY <1>9, <2>1, <2>2
       DEF FeedBack, GoesOn, Goes, TypedTurn, TypedStores, SubjectInv, Phases, stores
<1> QED
  BY <1>1, <1>2, <1>3, <1>4, <1>5, <1>6, <1>7, <1>8, <1>9 DEF Proceeds

LEMMA TypedStep ==
    ASSUME Typed, [Next]_vars
    PROVE  Typed'
<1>1. ASSUME NEW t \in Turns, Dies(t) PROVE Typed'
  <2>1. TypedTurn' /\ SubjectInv'
    BY <1>1, ReturnTyped DEF Dies, Typed, TypedTurn, Phases
  <2> QED
    BY <1>1, <2>1 DEF Dies, Typed, TypedStores, stores, record
<1>2. CASE FlagExpires
  BY <1>2 DEF FlagExpires, turn, Typed, TypedTurn, TypedStores, SubjectInv
<1>3. CASE UNCHANGED vars
  BY <1>3 DEF vars, turn, stores, record, Typed, TypedTurn, TypedStores, SubjectInv
<1> QED
  BY <1>1, <1>2, <1>3, StartsTyped, ProceedsTyped, NextIsStep DEF Step

-------------------------------------------------------------------------------
(* Retrieved data *)

\* The data came out of turns that are over.
Past(h) == \A d \in h.data : phase[d[1]] = "done"

\* What a turn has read itself; no other conversation holds it before the turn is
\* over.
DataInv ==
    /\ \A h \in held : Past(h)
    /\ \A tok \in pending : Past(tok.history)
    /\ \A t \in Turns :
        /\ \A d \in history[t].data : d[1] = t \/ phase[d[1]] = "done"
        /\ \A d \in served[t] : d[1] = t

\* A turn whose flag is down has read nothing and begun from nothing that the
\* store still warns of.
FlagInv ==
    /\ ~stored => kept = {}
    /\ \A t \in Turns :
        /\ phase[t] = "idle" => history[t].data = {}
        /\ phase[t] \in {"idle", "clear", "load"} => ~flag[t]
        /\ ~flag[t] =>
            /\ \A d \in history[t].data : d[1] # t
            /\ phase[t] # "put" => served[t] = {}
            /\ phase[t] \notin {"idle", "clear", "load"} =>
                   history[t].data \cap kept = {}
        /\ Working(t) => subject[t].stamped = flag[t]

TaintInv == Typed /\ DataInv /\ FlagInv

\* A step of a turn leaves the others alone.
LEMMA StepIsLocal ==
    ASSUME Typed, NEW t \in Turns, Step(t)
    PROVE  \A s \in Turns \ {t} :
               /\ phase'[s] = phase[s] /\ history'[s] = history[s]
               /\ iteration'[s] = iteration[s] /\ answered'[s] = answered[s]
               /\ served'[s] = served[s] /\ flag'[s] = flag[s]
               /\ subject'[s] = subject[s]
<1> USE DEF Typed, TypedTurn
<1>1. CASE Send(t) \/ Resume(t)
  BY <1>1 DEF Send, Resume, Goes, Begins
<1>2. CASE Confirm(t)
  BY <1>2 DEF Confirm, GoesOn, Returns, Goes, Begins, Ends, turn
<1>3. CASE Clear(t) \/ Load(t) \/ Call(t) \/ Block(t) \/ Read(t)
  BY <1>3 DEF Clear, Load, Call, Block, Read, Answer, GoesOn, Returns, Goes, Ends, turn
<1>4. CASE Put(t) \/ Propose(t) \/ Burn(t) \/ Again(t) \/ FeedBack(t)
  BY <1>4 DEF Put, Propose, Burn, Again, FeedBack, GoesOn, Goes, turn
<1>5. CASE Act(t)
  BY <1>5 DEF Act, GoesOn, Returns, Goes, Ends, Answer
<1>6. CASE Dies(t)
  BY <1>6 DEF Dies, Ends
<1> QED
  BY <1>1, <1>2, <1>3, <1>4, <1>5, <1>6 DEF Step, Starts, Proceeds

LEMMA StepNotOver ==
    ASSUME Typed, NEW t \in Turns, Step(t)
    PROVE  phase[t] \notin {"done", "rejected"}
BY DEF Step, Starts, Proceeds, Send, Confirm, Resume, Clear, Load, Call, Block, Read,
   Put, Propose, Burn, Again, Act, FeedBack, Dies, Goes, GoesOn, Returns

\* What becomes of the conversation of a turn.
Known == held \cup {tok.history : tok \in pending}

Keeps(t) ==
    /\ history'[t].data \subseteq history[t].data \cup served[t]
    /\ served'[t] \subseteq served[t] \cup {Current(t)}

LEMMA StepKeeps ==
    ASSUME Typed, NEW t \in Turns, Step(t)
    PROVE  /\ \/ Keeps(t)
              \/ served'[t] = served[t] /\ \E h \in Known : history'[t] = h
           /\ \A h \in held' \ Known :
                  phase'[t] = "done" /\ h.data \subseteq history[t].data \cup served[t]
           /\ \A tok \in pending' \ pending :
                  phase'[t] = "done" /\ tok.history = history[t]
<1> USE DEF Typed, TypedTurn, Known
<1>1. CASE Send(t) \/ Resume(t)
  BY <1>1 DEF Send, Resume, Begins, record, stores
<1>2. CASE Confirm(t)
  <2>1. PICK tok \in pending :
          /\ pending' = pending \ {tok}
          /\ \/ \E decision \in Decisions :
                   /\ GoesOn(t, "idle", "load")
                   /\ Begins(t, tok.history, Seed(tok.use, decision, "receipt"))
             \/ Returns(t, "idle", tok.history)
             \/ GoesOn(t, "idle", "rejected") /\ UNCHANGED turn
    BY <1>2 DEF Confirm, Remaining
  <2>2. CASE Returns(t, "idle", tok.history)
    BY <2>1, <2>2 DEF Returns, Ends, EmptyHistory, Keeps
  <2>3. CASE ~Returns(t, "idle", tok.history)
    BY <2>1, <2>3 DEF GoesOn, Begins, turn, Keeps
  <2> QED
    BY <2>2, <2>3
<1>3. CASE Clear(t) \/ Load(t) \/ Block(t) \/ Put(t) \/ Propose(t) \/ Burn(t) \/ Again(t)
  BY <1>3 DEF Clear, Load, Block, Put, Propose, Burn, Again, turn, stores, record, Keeps
<1>4. CASE Read(t)
  BY <1>4 DEF Read, stores, record, Keeps
<1>5. CASE Call(t)
  <2>1. CASE Returns(t, "call", history[t])
    BY <1>5, <2>1 DEF Call, Returns, Goes, Ends, EmptyHistory, Keeps, stores
  <2>2. CASE ~Returns(t, "call", history[t])
    <3>1. PICK r \in Replies :
            /\ history' = [history EXCEPT ![t].open = @ \cup UsesOf(t, iteration[t] + 1, r)]
            /\ UNCHANGED <<held, pending, served>>
      BY <1>5, <2>2 DEF Call, GoesOn, stores
    <3>2. history[t] \in Wide
      OBVIOUS
    <3>3. history'[t].data = history[t].data
      BY <3>1, <3>2 DEF Wide
    <3> QED
      BY <3>1, <3>3 DEF Keeps
  <2> QED
    BY <2>1, <2>2
<1>6. CASE Act(t)
  <2> DEFINE h == WithResults(t, IF subject[t].seed THEN OfSeed(t) ELSE OfReply(t))
  <2>1. h.data = history[t].data \cup served[t]
    BY DEF WithResults
  <2>2. CASE Pauses(t)
    <3>1. Returns(t, "act", h) /\ Does(t)
      BY <1>6, <2>2 DEF Act
    <3> HIDE DEF h
    <3>2. phase'[t] = "done" /\ held' = held \cup {h}
      BY <3>1 DEF Returns, Goes
    <3>3. Keeps(t)
      BY <3>1 DEF Returns, Ends, EmptyHistory, Keeps
    <3>4. pending' \subseteq pending \cup {[use |-> subject[t].use, history |-> history[t]]}
      BY <3>1 DEF Does
    <3> QED
      BY <2>1, <3>2, <3>3, <3>4
  <2>3. CASE ~Pauses(t)
    <3>1. /\ held' = held /\ served' = served
          /\ history' = history \/ history' = [history EXCEPT ![t] = h]
          /\ Does(t)
      BY <1>6, <2>3 DEF Act, GoesOn
    <3>2. pending' = pending
      BY <2>3, <3>1 DEF Does, Pauses
    <3> HIDE DEF h
    <3>3. Keeps(t)
      BY <2>1, <3>1 DEF Keeps
    <3> QED
      BY <3>1, <3>2, <3>3
  <2> QED
    BY <2>2, <2>3
<1>7. CASE FeedBack(t)
  BY <1>7 DEF FeedBack, GoesOn, stores, WithResults, Keeps
<1>8. CASE Dies(t)
  BY <1>8 DEF Dies, Ends, EmptyHistory, stores, record, Keeps
<1> QED
  BY <1>1, <1>2, <1>3, <1>4, <1>5, <1>6, <1>7, <1>8 DEF Step, Starts, Proceeds

LEMMA DataStep ==
    ASSUME Typed, DataInv, NEW t \in Turns, Step(t)
    PROVE  DataInv'
<1>1. /\ \A s \in Turns : phase[s] = "done" => phase'[s] = "done"
      /\ \A s \in Turns \ {t} : history'[s] = history[s] /\ served'[s] = served[s]
  BY StepNotOver, StepIsLocal
<1>2. \A d \in Triples : d[1] \in Turns
  BY DEF Triples
<1>3. \A h \in Wide : h.data \in SUBSET Triples
  BY DEF Wide
<1>4. ASSUME NEW h \in Wide, Past(h)
      PROVE  \A d \in h.data : phase'[d[1]] = "done"
  BY <1>1, <1>2, <1>3, <1>4 DEF Past
<1>5. \A h \in Known : h \in Wide /\ Past(h)
  BY DEF Known, DataInv, Typed, TypedStores
<1>6. \A d \in history[t].data \cup served[t] :
          d[1] \in Turns /\ (d[1] = t \/ phase'[d[1]] = "done")
  <2>1. history[t].data \in SUBSET Triples /\ served[t] \in SUBSET Triples
    BY <1>3 DEF Typed, TypedTurn
  <2> QED
    BY <1>1, <1>2, <2>1 DEF DataInv
<1>7. \A h \in held' : \A d \in h.data : phase'[d[1]] = "done"
  <2>1. SUFFICES ASSUME NEW h \in held', NEW d \in h.data
                 PROVE  phase'[d[1]] = "done"
    OBVIOUS
  <2>2. CASE h \in Known
    BY <1>4, <1>5, <2>2
  <2>3. CASE h \notin Known
    BY <1>6, <2>3, StepKeeps
  <2> QED
    BY <2>2, <2>3
<1>8. \A tok \in pending' : \A d \in tok.history.data : phase'[d[1]] = "done"
  <2>1. SUFFICES ASSUME NEW tok \in pending', NEW d \in tok.history.data
                 PROVE  phase'[d[1]] = "done"
    OBVIOUS
  <2>2. CASE tok \in pending
    <3>1. tok.history \in Known
      BY <2>2 DEF Known
    <3> QED
      BY <1>4, <1>5, <3>1
  <2>3. CASE tok \notin pending
    BY <1>6, <2>3, StepKeeps
  <2> QED
    BY <2>2, <2>3
<1>9. \A s \in Turns :
        /\ \A d \in history'[s].data : d[1] = s \/ phase'[d[1]] = "done"
        /\ \A d \in served'[s] : d[1] = s
  <2>1. SUFFICES ASSUME NEW s \in Turns
                 PROVE  /\ \A d \in history'[s].data : d[1] = s \/ phase'[d[1]] = "done"
                        /\ \A d \in served'[s] : d[1] = s
    OBVIOUS
  <2>2. CASE s # t
    <3>1. history[s].data \in SUBSET Triples
      BY <1>3 DEF Typed, TypedTurn
    <3> QED
      BY <1>1, <1>2, <2>2, <3>1 DEF DataInv
  <2>3. CASE s = t /\ Keeps(t)
    <3>1. Current(t)[1] = t
      BY DEF Current
    <3> QED
      BY <1>6, <2>3, <3>1 DEF Keeps, DataInv
  <2>4. CASE s = t /\ ~Keeps(t)
    <3>1. served'[t] = served[t] /\ \E h \in Known : history'[t] = h
      BY <2>4, StepKeeps
    <3> QED
      BY <1>4, <1>5, <2>4, <3>1 DEF DataInv
  <2> QED
    BY <2>2, <2>3, <2>4
<1> QED
  BY <1>7, <1>8, <1>9 DEF DataInv, Past

\* What a step does to the flag of its turn and to that of the session.
LEMMA FlagStep ==
    ASSUME TaintInv, NEW t \in Turns, Step(t)
    PROVE  FlagInv'
<1> USE DEF TaintInv, Typed, TypedTurn
<1>1. \A s \in Turns \ {t} :
          /\ phase'[s] = phase[s] /\ history'[s] = history[s]
          /\ served'[s] = served[s] /\ flag'[s] = flag[s] /\ subject'[s] = subject[s]
  BY StepIsLocal
<1> DEFINE Fine(s) ==
    /\ phase[s] = "idle" => history[s].data = {}
    /\ phase[s] \in {"idle", "clear", "load"} => ~flag[s]
    /\ ~flag[s] =>
        /\ \A d \in history[s].data : d[1] # s
        /\ phase[s] # "put" => served[s] = {}
        /\ phase[s] \notin {"idle", "clear", "load"} =>
               history[s].data \cap kept = {}
    /\ Working(s) => subject[s].stamped = flag[s]
<1>2. Fine(t) /\ (~stored => kept = {})
  BY DEF FlagInv
<1>3. ASSUME kept' \subseteq kept \/ (phase[t] = "put" /\ kept' = kept \cup served[t]),
             ~stored' => kept' = {}, Fine(t)'
      PROVE  FlagInv'
  <2>1. ASSUME NEW s \in Turns, s # t PROVE Fine(s)'
    <3>1. ASSUME ~flag[s], phase[s] \notin {"idle", "clear", "load"}
          PROVE  history[s].data \cap kept' = {}
      <4>1. history[s].data \cap kept = {}
        BY <3>1 DEF FlagInv
      <4>2. \A d \in history[s].data : phase[t] = "put" => d[1] # t
        BY <2>1 DEF DataInv
      <4>3. \A d \in served[t] : d[1] = t
        BY DEF DataInv
      <4> QED
        BY <1>3, <4>1, <4>2, <4>3
    <3>2. Fine(s)
      BY DEF FlagInv
    <3> QED
      BY <1>1, <2>1, <3>1, <3>2 DEF Working
  <2>2. \A s \in Turns : Fine(s)'
    BY <1>3, <2>1
  <2> QED
    BY <1>3, <2>2 DEF FlagInv
<1>4. CASE Starts(t)
  <2>1. phase[t] = "idle" /\ kept' = kept /\ stored' = stored
    BY <1>4 DEF Starts, Send, Confirm, Resume, Goes, GoesOn, Returns, record, stores
  <2>2. phase'[t] \in {"clear", "load", "done", "rejected"}
    BY <1>4, <2>1 DEF Starts, Send, Confirm, Resume, Goes, GoesOn, Returns
  <2>3. flag'[t] = FALSE /\ served'[t] = {}
    BY <1>2, <1>4, <2>1 DEF Starts, Send, Confirm, Resume, GoesOn, Returns, Begins,
       Ends, turn
  <2>4. \A d \in history'[t].data : d[1] # t
    <3>1. CASE Keeps(t)
      BY <1>2, <2>1, <3>1 DEF Keeps
    <3>2. CASE \E h \in Known : history'[t] = h
      BY <2>1, <3>2 DEF Known, DataInv, Past
    <3> QED
      BY <3>1, <3>2, <1>4, StepKeeps
  <2>5. phase'[t] \in {"done", "rejected"} => history'[t].data = {}
    <3>1. CASE Ends(t)
      BY <3>1 DEF Ends, EmptyHistory
    <3>2. CASE UNCHANGED turn
      BY <1>2, <2>1, <3>2 DEF turn
    <3>3. phase'[t] \in {"done", "rejected"} => Ends(t) \/ UNCHANGED turn
      BY <1>4 DEF Starts, Send, Confirm, Resume, Goes, GoesOn, Returns
    <3> QED
      BY <3>1, <3>2, <3>3
  <2>6. Fine(t)'
    BY <2>2, <2>3, <2>4, <2>5 DEF Working
  <2> QED
    BY <1>3, <1>2, <2>1, <2>6
<1>5. ASSUME Ends(t), phase'[t] \in {"done", "rejected"}, UNCHANGED <<kept, stored>>
      PROVE  FlagInv'
  <2>1. Fine(t)'
    BY <1>5 DEF Ends, EmptyHistory, Working
  <2> QED
    BY <1>2, <1>3, <1>5, <2>1
<1>6. ASSUME history'[t].data = history[t].data, served' = served, flag' = flag,
             UNCHANGED <<kept, stored>>,
             phase[t] \notin {"idle", "clear", "load", "put"},
             phase'[t] \notin {"idle", "clear", "load"},
             Working(t)' => subject'[t].stamped = flag[t]
      PROVE  FlagInv'
  <2>1. Fine(t)'
    BY <1>2, <1>6
  <2> QED
    BY <1>2, <1>3, <1>6, <2>1
<1>7. CASE Clear(t)
  <2>1. Fine(t)'
    BY <1>2, <1>7 DEF Clear, Goes, turn, Working
  <2> QED
    BY <1>2, <1>3, <1>7, <2>1 DEF Clear
<1>8. CASE Load(t)
  <2>1. /\ phase[t] = "load" /\ phase'[t] \in {"call", "act"}
        /\ phase'[t] = "act" => subject[t].seed
        /\ flag'[t] = stored
        /\ UNCHANGED <<history, served, subject, stored, kept>>
    BY <1>8 DEF Load, Goes, Loaded, stores, record
  <2>2. Fine(t)'
    BY <1>2, <2>1 DEF Working
  <2> QED
    BY <1>2, <1>3, <2>1, <2>2
<1>9. CASE Call(t)
  <2>1. CASE Returns(t, "call", history[t])
    BY <1>5, <1>9, <2>1 DEF Call, Returns, Goes, stores
  <2>2. CASE ~Returns(t, "call", history[t])
    <3>1. PICK r \in Replies :
            /\ GoesOn(t, "call", "use")
            /\ history' = [history EXCEPT ![t].open = @ \cup UsesOf(t, iteration[t] + 1, r)]
            /\ UNCHANGED <<stored, kept, served, flag, subject>>
      BY <1>9, <2>2 DEF Call, stores
    <3>2. history[t] \in Wide
      OBVIOUS
    <3>3. history'[t].data = history[t].data
      BY <3>1, <3>2 DEF Wide
    <3> QED
      BY <1>6, <3>1, <3>3 DEF GoesOn, Goes, Working
  <2> QED
    BY <2>1, <2>2
<1>10. CASE Block(t)
  BY <1>6, <1>10 DEF Block, Goes, Working, stores, record
<1>11. CASE Read(t)
  <2>1. Fine(t)'
    BY <1>2, <1>11 DEF Read, Goes, Working, stores, record
  <2> QED
    BY <1>2, <1>3, <1>11, <2>1 DEF Read, stores, record
<1>12. CASE Put(t)
  <2>1. Fine(t)'
    BY <1>12 DEF Put, Goes, Working
  <2> QED
    BY <1>2, <1>3, <1>12, <2>1 DEF Put, Goes
<1>13. CASE Propose(t)
  <2>1. subject'[t].stamped = flag[t]
    BY <1>13 DEF Propose
  <2> QED
    BY <1>6, <1>13, <2>1 DEF Propose, Goes, stores, record
<1>14. CASE Burn(t)
  BY <1>2, <1>6, <1>14 DEF Burn, Goes, Working, turn, record
<1>15. CASE Again(t)
  <2>1. PICK decision \in Decisions :
          subject' = [subject EXCEPT ![t] =
                          [[subject[t] EXCEPT !.decision = decision] EXCEPT !.by = "grant"]]
    BY <1>15 DEF Again, Decisions
  <2>2. subject'[t].stamped = subject[t].stamped /\ subject'[t].seed = subject[t].seed
    BY <2>1 DEF Subjects
  <2>3. phase[t] = "again" /\ phase'[t] = "act"
    BY <1>15 DEF Again, Goes
  <2> QED
    BY <1>2, <1>6, <1>15, <2>2, <2>3 DEF Again, Working, stores, record
<1>16. CASE Act(t)
  <2> DEFINE h == WithResults(t, IF subject[t].seed THEN OfSeed(t) ELSE OfReply(t))
  <2>1. h.data = history[t].data \cup served[t]
    BY DEF WithResults
  <2>2. CASE Pauses(t)
    <3>1. Returns(t, "act", h) /\ UNCHANGED <<kept, stored>>
      BY <1>16, <2>2 DEF Act
    <3> QED
      BY <1>5, <3>1 DEF Returns, Goes
  <2>3. CASE ~Pauses(t)
    <3>1. /\ history' = history \/ history' = [history EXCEPT ![t] = h]
          /\ phase[t] = "act" /\ phase'[t] \in {"call", "use"}
          /\ UNCHANGED <<served, flag, kept, stored>>
      BY <1>16, <2>3 DEF Act, GoesOn, Goes
    <3> HIDE DEF h
    <3>2. Fine(t)'
      BY <1>2, <2>1, <3>1 DEF Working
    <3> QED
      BY <1>2, <1>3, <3>1, <3>2
  <2> QED
    BY <2>2, <2>3
<1>17. CASE FeedBack(t)
  <2>1. /\ phase[t] = "use" /\ phase'[t] = "call"
        /\ history'[t].data = history[t].data \cup served[t]
        /\ served'[t] = {}
        /\ UNCHANGED <<flag, kept, stored>>
    BY <1>17 DEF FeedBack, GoesOn, Goes, WithResults, stores
  <2>2. Fine(t)'
    BY <1>2, <2>1 DEF Working
  <2> QED
    BY <1>2, <1>3, <2>1, <2>2
<1>18. CASE Dies(t)
  BY <1>5, <1>18 DEF Dies, stores, record
<1> QED
  BY <1>4, <1>7, <1>8, <1>9, <1>10, <1>11, <1>12, <1>13, <1>14, <1>15, <1>16, <1>17,
     <1>18 DEF Step, Proceeds

LEMMA InitTyped == Init => Typed
<1>1. EmptyHistory \in Wide /\ Nothing \in Subjects /\ Nothing.seed = FALSE
  BY DEF EmptyHistory, Wide, Nothing, Subjects, Decisions
<1>2. SUFFICES ASSUME Init PROVE Typed
  OBVIOUS
<1> QED
  BY <1>1, <1>2, FS_EmptySet DEF Init, Typed, TypedTurn, TypedStores, SubjectInv, Phases

LEMMA TaintInductive == Spec => []TaintInv
<1>1. Init => TaintInv
  <2>1. SUFFICES ASSUME Init PROVE TaintInv
    OBVIOUS
  <2>2. DataInv
    BY <2>1 DEF Init, DataInv, Past, EmptyHistory
  <2>3. FlagInv
    BY <2>1 DEF Init, FlagInv, Working, EmptyHistory
  <2> QED
    BY <2>1, <2>2, <2>3, InitTyped DEF TaintInv
<1>2. TaintInv /\ [Next]_vars => TaintInv'
  <2>1. SUFFICES ASSUME TaintInv, [Next]_vars PROVE TaintInv'
    OBVIOUS
  <2>2. Typed'
    BY <2>1, TypedStep DEF TaintInv
  <2>3. CASE \E t \in Turns : Step(t)
    BY <2>1, <2>2, <2>3, DataStep, FlagStep DEF TaintInv
  <2>4. CASE FlagExpires
    BY <2>1, <2>2, <2>4
       DEF FlagExpires, TaintInv, DataInv, FlagInv, Past, Working, turn
  <2>5. CASE UNCHANGED vars
    BY <2>1, <2>2, <2>5
       DEF TaintInv, DataInv, FlagInv, Past, Working, vars, turn, stores, record
  <2> QED
    BY <2>1, <2>3, <2>4, <2>5, NextIsStep
<1> QED
  BY <1>1, <1>2, PTL DEF Spec

\* No intent is minted clean from a conversation that holds retrieved data, with
\* any number of turns that overlap, pause, fail and resume.
\* (contaminationStore in runLoop and resume)
THEOREM NoLaunderHolds == Spec => []NoLaunder
<1>1. TaintInv => NoLaunder
  <2>1. SUFFICES ASSUME TaintInv, NEW t \in Turns, Working(t), ~subject[t].stamped
                 PROVE  /\ history[t].data \cap kept = {}
                        /\ \A d \in history[t].data \cup served[t] : d[1] # t
    BY DEF NoLaunder
  <2>2. ~flag[t] /\ phase[t] \in {"burn", "again", "act"}
    BY <2>1 DEF TaintInv, FlagInv, Working, Typed, TypedTurn
  <2> QED
    BY <2>1, <2>2 DEF TaintInv, FlagInv
<1> QED
  BY <1>1, TaintInductive, PTL

-------------------------------------------------------------------------------
(* One run of a use *)

\* The turn has met the use: it is over, in a later iteration, or past it in the
\* reply, or at it.
Reached(u) ==
    LET s == u[1]
        n == Cardinality(answered[s])
    IN  \/ phase[s] \in {"done", "rejected"}
        \/ u[2] < iteration[s]
        \/ /\ u[2] = iteration[s]
           /\ \/ phase[s] = "call"
              \/ u[3] <= n
              \/ phase[s] \in {"burn", "again", "act"} /\ u[3] = n + 1

\* A turn works on the use, the user or a signal is awaited, or it has run.
Met(u) ==
    \/ \E t \in Turns : subject[t].use = u
    \/ parked = u
    \/ \E tok \in pending : tok.use = u
    \/ \E run \in effects : run[2] = u

OrderInv ==
    /\ \A u \in Triples : Met(u) => Reached(u)
    /\ \A t \in Turns :
        /\ \A v \in answered[t] : v[3] <= Cardinality(answered[t])
        /\ phase[t] \notin {"clear", "load", "burn", "again", "act"} =>
               subject[t].use = None
        /\ phase[t] \in {"clear", "load"} /\ ~subject[t].seed =>
               subject[t].use = None

\* A use is in one place only.
PlaceInv ==
    /\ \A s, t \in Turns :
           subject[s].use = subject[t].use /\ subject[t].use # None => s = t
    /\ \A t \in Turns, tok \in pending : subject[t].use # tok.use
    /\ \A t \in Turns, run \in effects : subject[t].use # run[2]
    /\ \A t \in Turns : parked # None => subject[t].use # parked
    /\ \A tok \in pending : tok.use # parked
    /\ \A k1, k2 \in pending : k1.use = k2.use => k1 = k2
    /\ RunsOnce

OnceInv == Typed /\ OrderInv /\ PlaceInv

\* What becomes of the use a turn works on, and of those that wait.
Leaves(t) ==
    /\ subject'[t].use \in {subject[t].use, None}
    /\ pending' \subseteq pending
    /\ UNCHANGED <<parked, effects>>

Takes(t) ==
    /\ \/ /\ \E tok \in pending :
                subject'[t].use = tok.use /\ pending' = pending \ {tok}
          /\ UNCHANGED parked
       \/ /\ parked # None /\ subject'[t].use = parked /\ parked' = None
          /\ UNCHANGED pending
    /\ UNCHANGED effects

Mints(t) ==
    /\ phase[t] = "use" /\ phase'[t] \in {"burn", "act"}
    /\ subject'[t].use = Current(t)
    /\ UNCHANGED <<iteration, answered, pending, parked, effects>>

Settles(t) ==
    /\ subject[t].use \in Triples /\ subject'[t].use = None
    /\ \/ /\ \E tok : tok.use = subject[t].use /\ pending' = pending \cup {tok}
          /\ UNCHANGED <<parked, effects>>
       \/ parked' = subject[t].use /\ UNCHANGED <<pending, effects>>
       \/ /\ \E run : run[2] = subject[t].use /\ effects' = effects \cup {run}
          /\ UNCHANGED <<pending, parked>>

LEMMA StepMoves ==
    ASSUME Typed, NEW t \in Turns, Step(t)
    PROVE  Leaves(t) \/ Takes(t) \/ Mints(t) \/ Settles(t)
<1> USE DEF Typed, TypedTurn
<1>1. Nothing.use = None
  BY DEF Nothing
<1>2. \A u, decision, by : Seed(u, decision, by).use = u
  BY DEF Seed
<1>3. CASE Send(t)
  BY <1>1, <1>3 DEF Send, Begins, stores, record, Leaves
<1>4. CASE Confirm(t)
  <2>1. PICK tok \in pending :
          /\ pending' = pending \ {tok}
          /\ \/ \E decision \in Decisions :
                   Begins(t, tok.history, Seed(tok.use, decision, "receipt"))
             \/ Ends(t)
             \/ UNCHANGED turn
          /\ UNCHANGED <<parked, effects>>
    BY <1>4 DEF Confirm, Remaining, Returns
  <2>2. CASE Ends(t) \/ UNCHANGED turn
    BY <1>1, <2>1, <2>2 DEF Ends, turn, Leaves
  <2>3. CASE \E decision \in Decisions :
               Begins(t, tok.history, Seed(tok.use, decision, "receipt"))
    BY <1>2, <2>1, <2>3 DEF Begins, Takes
  <2> QED
    BY <2>1, <2>2, <2>3
<1>5. CASE Resume(t)
  BY <1>2, <1>5 DEF Resume, Begins, record, Takes
<1>6. CASE Clear(t) \/ Load(t) \/ Block(t) \/ Read(t) \/ Put(t) \/ Burn(t) \/ FeedBack(t)
  BY <1>6 DEF Clear, Load, Block, Read, Put, Burn, FeedBack, turn, stores, record, Leaves
<1>7. CASE Call(t)
  BY <1>1, <1>7 DEF Call, Returns, Ends, stores, Leaves
<1>8. CASE Propose(t)
  BY <1>8 DEF Propose, Goes, stores, record, Mints
<1>9. CASE Again(t)
  <2>1. PICK decision \in Decisions :
          subject' = [subject EXCEPT ![t] =
                          [[subject[t] EXCEPT !.decision = decision] EXCEPT !.by = "grant"]]
    BY <1>9 DEF Again, Decisions
  <2>2. subject'[t].use = subject[t].use
    BY <2>1 DEF Subjects
  <2> QED
    BY <1>9, <2>2 DEF Again, stores, record, Leaves
<1>10. CASE Act(t)
  <2>1. subject'[t].use = None /\ subject[t].use \in Triples /\ Does(t)
    BY <1>1, <1>10 DEF Act, Returns, Ends, SubjectInv
  <2>2. [use |-> subject[t].use, history |-> history[t]].use = subject[t].use
    OBVIOUS
  <2>3. <<t, subject[t].use, subject[t].by>>[2] = subject[t].use
    OBVIOUS
  <2>4. CASE UNCHANGED <<pending, parked, effects>>
    BY <2>1, <2>4 DEF Leaves
  <2>5. CASE ~UNCHANGED <<pending, parked, effects>>
    <3>1. \/ /\ pending' = pending \cup {[use |-> subject[t].use, history |-> history[t]]}
             /\ UNCHANGED <<parked, effects>>
          \/ parked' = subject[t].use /\ UNCHANGED <<pending, effects>>
          \/ /\ effects' = effects \cup {<<t, subject[t].use, subject[t].by>>}
             /\ UNCHANGED <<pending, parked>>
      BY <2>1, <2>5 DEF Does
    <3> QED
      BY <2>1, <2>2, <2>3, <3>1 DEF Settles
  <2> QED
    BY <2>4, <2>5
<1>11. CASE Dies(t)
  BY <1>1, <1>11 DEF Dies, Ends, stores, record, Leaves
<1> QED
  BY <1>3, <1>4, <1>5, <1>6, <1>7, <1>8, <1>9, <1>10, <1>11 DEF Step, Starts, Proceeds

\* How a turn gets on with its reply.
Stays(t) ==
    /\ iteration'[t] = iteration[t] /\ answered'[t] = answered[t]
    /\ phase[t] # "call"
    /\ phase[t] \in {"burn", "again", "act"} =>
           phase'[t] \in {"burn", "again", "act", "call"}

GetsReply(t) ==
    /\ phase[t] = "call"
    /\ iteration'[t] = iteration[t] + 1 /\ answered'[t] = answered[t]

Answers(t) ==
    /\ phase[t] # "call"
    /\ iteration'[t] = iteration[t]
    /\ answered'[t] = answered[t] \cup {Current(t)}

FeedsBack(t) ==
    /\ phase'[t] = "call"
    /\ iteration'[t] = iteration[t] /\ answered'[t] = {}

Over(t) == phase'[t] \in {"done", "rejected"} /\ answered'[t] \in {{}, answered[t]}

LEMMA StepGetsOn ==
    ASSUME Typed, NEW t \in Turns, Step(t)
    PROVE  Stays(t) \/ GetsReply(t) \/ Answers(t) \/ FeedsBack(t) \/ Over(t)
<1> USE DEF Typed, TypedTurn
<1>1. CASE Send(t) \/ Resume(t) \/ Clear(t) \/ Load(t) \/ Put(t) \/ Propose(t)
           \/ Burn(t) \/ Again(t)
  BY <1>1 DEF Send, Resume, Clear, Load, Put, Propose, Burn, Again, Goes, Begins, turn, Stays
<1>2. CASE Confirm(t)
  BY <1>2 DEF Confirm, GoesOn, Returns, Goes, Begins, Ends, turn, Stays, Over
<1>3. CASE Call(t)
  BY <1>3 DEF Call, GoesOn, Returns, Goes, Ends, GetsReply, Over
<1>4. CASE Block(t) \/ Read(t)
  BY <1>4 DEF Block, Read, Goes, Answer, Answers
<1>5. CASE Act(t)
  BY <1>5 DEF Act, GoesOn, Returns, Goes, Ends, Answer, Answers, Stays, Over
<1>6. CASE FeedBack(t)
  BY <1>6 DEF FeedBack, GoesOn, Goes, FeedsBack
<1>7. CASE Dies(t)
  BY <1>7 DEF Dies, Ends, Over
<1> QED
  BY <1>1, <1>2, <1>3, <1>4, <1>5, <1>6, <1>7 DEF Step, Starts, Proceeds

LEMMA AnswerCounts ==
    ASSUME Typed, OrderInv, NEW t \in Turns, Answers(t)
    PROVE  /\ Cardinality(answered[t]) \in Nat
           /\ Cardinality(answered'[t]) = Cardinality(answered[t]) + 1
<1>1. IsFiniteSet(answered[t])
  BY DEF Typed, TypedTurn
<1>2. Cardinality(answered[t]) \in Nat
  BY <1>1, FS_CardinalityType
<1>3. Current(t) \notin answered[t]
  <2>1. Current(t)[3] = Cardinality(answered[t]) + 1
    BY DEF Current
  <2> QED
    BY <1>2, <2>1 DEF OrderInv
<1> QED
  BY <1>1, <1>2, <1>3, FS_AddElement DEF Answers

LEMMA ReachedStays ==
    ASSUME Typed, OrderInv, NEW t \in Turns, Step(t), NEW u \in Triples, Reached(u)
    PROVE  Reached(u)'
<1>1. u[1] \in Turns /\ u[2] \in Nat /\ u[3] \in Nat
  BY DEF Triples
<1>2. CASE u[1] # t
  <2>1. /\ phase'[u[1]] = phase[u[1]] /\ iteration'[u[1]] = iteration[u[1]]
        /\ answered'[u[1]] = answered[u[1]]
    BY <1>1, <1>2, StepIsLocal
  <2> QED
    BY <2>1 DEF Reached
<1>3. CASE u[1] = t
  <2> DEFINE n == Cardinality(answered[t])
  <2>1. iteration[t] \in Nat /\ n \in Nat /\ phase[t] \notin {"done", "rejected"}
    BY StepNotOver, FS_CardinalityType DEF Typed, TypedTurn
  <2>2. \/ u[2] < iteration[t]
        \/ /\ u[2] = iteration[t]
           /\ \/ phase[t] = "call"
              \/ u[3] <= n
              \/ phase[t] \in {"burn", "again", "act"} /\ u[3] = n + 1
    BY <1>3, <2>1 DEF Reached
  <2>3. CASE Over(t)
    BY <1>3, <2>3 DEF Over, Reached
  <2>4. CASE Stays(t)
    BY <1>3, <2>2, <2>4 DEF Stays, Reached
  <2>5. CASE GetsReply(t)
    BY <1>1, <1>3, <2>1, <2>2, <2>5 DEF GetsReply, Reached
  <2>6. CASE Answers(t)
    <3>1. Cardinality(answered'[t]) = n + 1
      BY <2>6, AnswerCounts
    <3>2. phase[t] # "call" /\ iteration'[t] = iteration[t]
      BY <2>6 DEF Answers
    <3>3. u[2] < iteration'[t] \/ (u[2] = iteration'[t] /\ u[3] <= Cardinality(answered'[t]))
      BY <1>1, <2>1, <2>2, <3>1, <3>2
    <3> QED
      BY <1>3, <3>3 DEF Reached
  <2>7. CASE FeedsBack(t)
    BY <1>1, <1>3, <2>1, <2>2, <2>7 DEF FeedsBack, Reached
  <2> QED
    BY <2>3, <2>4, <2>5, <2>6, <2>7, StepGetsOn
<1> QED
  BY <1>2, <1>3

\* A use that is minted is met for the first time.
LEMMA MintedIsNew ==
    ASSUME Typed, OrderInv, NEW t \in Turns, Mints(t), NEW u, u = Current(t)
    PROVE  u \in Triples /\ ~Met(u) /\ Reached(u)'
<1>1. u \in Triples
  BY CurrentIsTriple
<1>2. u[1] = t /\ u[2] = iteration[t] /\ u[3] = Cardinality(answered[t]) + 1
  BY DEF Current
<1>3. iteration[t] \in Nat /\ Cardinality(answered[t]) \in Nat
  BY FS_CardinalityType DEF Typed, TypedTurn
<1>4. ~Reached(u)
  BY <1>2, <1>3 DEF Mints, Reached
<1>5. Reached(u)'
  <2>1. /\ phase'[t] \in {"burn", "act"}
        /\ iteration'[t] = iteration[t] /\ answered'[t] = answered[t]
    BY DEF Mints
  <2> QED
    BY <1>2, <2>1 DEF Reached
<1> QED
  BY <1>1, <1>4, <1>5 DEF OrderInv

LEMMA OrderStep ==
    ASSUME OnceInv, NEW t \in Turns, Step(t)
    PROVE  OrderInv'
<1> USE DEF OnceInv
<1>1. \A s \in Turns \ {t} : /\ phase'[s] = phase[s] /\ subject'[s] = subject[s]
                            /\ answered'[s] = answered[s]
  BY StepIsLocal
<1>2. ASSUME NEW u \in Triples, Met(u)' PROVE Met(u) \/ (Mints(t) /\ u = Current(t))
  <2>1. CASE Leaves(t)
    BY <1>1, <1>2, <2>1, NoneAssumption DEF Leaves, Met, Triples
  <2>2. CASE Takes(t)
    BY <1>1, <1>2, <2>2, NoneAssumption DEF Takes, Met, Triples
  <2>3. CASE Mints(t)
    BY <1>1, <1>2, <2>3 DEF Mints, Met
  <2>4. CASE Settles(t)
    BY <1>1, <1>2, <2>4, NoneAssumption DEF Settles, Met, Triples
  <2> QED
    BY <2>1, <2>2, <2>3, <2>4, StepMoves
<1>3. \A u \in Triples : Met(u)' => Reached(u)'
  BY <1>2, ReachedStays, MintedIsNew DEF OrderInv
<1>4. \A v \in answered'[t] : v[3] <= Cardinality(answered'[t])
  <2>1. CASE Answers(t)
    <3>1. /\ Current(t)[3] = Cardinality(answered[t]) + 1
          /\ Cardinality(answered'[t]) = Cardinality(answered[t]) + 1
          /\ Cardinality(answered[t]) \in Nat
      BY <2>1, AnswerCounts DEF Current
    <3>2. \A v \in answered[t] : v[3] \in Nat /\ v[3] <= Cardinality(answered[t])
      BY DEF OrderInv, Typed, TypedTurn, Triples
    <3> QED
      BY <2>1, <3>1, <3>2 DEF Answers
  <2>2. CASE answered'[t] \in {{}, answered[t]}
    BY <2>2 DEF OrderInv
  <2> QED
    BY <2>1, <2>2, StepGetsOn DEF Stays, GetsReply, FeedsBack, Over
<1>5. phase'[t] \notin {"clear", "load", "burn", "again", "act"} => subject'[t].use = None
  <2> USE DEF Typed, TypedTurn
  <2> DEFINE Busy == {"clear", "load", "burn", "again", "act"}
  <2>1. phase[t] \notin Busy => subject[t].use = None
    BY DEF OrderInv
  <2>2. CASE phase'[t] \in Busy
    BY <2>2
  <2>3. CASE Ends(t)
    BY <2>3 DEF Ends, Nothing
  <2>4. CASE Send(t) \/ Resume(t) \/ Clear(t) \/ Burn(t) \/ Propose(t) \/ Again(t)
    BY <2>4 DEF Send, Resume, Clear, Burn, Propose, Again, Goes
  <2>5. CASE Confirm(t)
    <3>1. \/ GoesOn(t, "idle", "load")
          \/ Ends(t)
          \/ GoesOn(t, "idle", "rejected") /\ UNCHANGED turn
      BY <2>5 DEF Confirm, Returns
    <3>2. CASE GoesOn(t, "idle", "load")
      BY <3>2 DEF GoesOn, Goes
    <3>3. CASE GoesOn(t, "idle", "rejected") /\ UNCHANGED turn
      BY <2>1, <3>3 DEF GoesOn, Goes, turn
    <3> QED
      BY <2>3, <3>1, <3>2, <3>3
  <2>6. CASE Load(t)
    <3>1. phase[t] = "load" /\ subject' = subject
      BY <2>6 DEF Load, Goes
    <3>2. phase'[t] = IF subject[t].seed THEN "act" ELSE "call"
      BY <2>6 DEF Load, Goes
    <3> QED
      BY <3>1, <3>2 DEF OrderInv
  <2>7. CASE Block(t) \/ Read(t) \/ Put(t) \/ FeedBack(t)
    BY <2>1, <2>7 DEF Block, Read, Put, FeedBack, GoesOn, Goes
  <2>8. CASE Call(t)
    BY <2>1, <2>3, <2>8 DEF Call, GoesOn, Returns, Goes
  <2>9. CASE Act(t)
    BY <2>3, <2>9 DEF Act, Returns, Nothing
  <2>10. CASE Dies(t)
    BY <2>3, <2>10 DEF Dies
  <2> QED
    BY <2>4, <2>5, <2>6, <2>7, <2>8, <2>9, <2>10 DEF Step, Starts, Proceeds
<1>6. phase'[t] \in {"clear", "load"} /\ ~subject'[t].seed => subject'[t].use = None
  <2> USE DEF Typed, TypedTurn
  <2>1. \A u, decision, by : Seed(u, decision, by).seed
    BY DEF Seed
  <2>2. CASE Send(t)
    BY <2>2 DEF Send, Begins, Nothing
  <2>3. CASE Confirm(t)
    BY <2>1, <2>3 DEF Confirm, GoesOn, Returns, Goes, Begins
  <2>4. CASE Resume(t)
    BY <2>1, <2>4 DEF Resume, Begins
  <2>5. CASE Clear(t)
    BY <2>5 DEF Clear, Goes, turn, OrderInv
  <2>6. CASE phase'[t] \notin {"clear", "load"}
    BY <2>6
  <2>7. phase'[t] \in {"clear", "load"} => Starts(t) \/ Clear(t)
    BY DEF Step, Proceeds, Load, Call, Block, Read, Put, Propose, Burn, Again, Act, FeedBack,
       Dies, GoesOn, Returns, Goes
  <2> QED
    BY <2>2, <2>3, <2>4, <2>5, <2>6, <2>7 DEF Starts
<1> QED
  BY <1>1, <1>3, <1>4, <1>5, <1>6 DEF OrderInv

LEMMA PlaceStep ==
    ASSUME OnceInv, NEW t \in Turns, Step(t)
    PROVE  PlaceInv'
<1> USE DEF OnceInv
<1>1. \A s \in Turns \ {t} : subject'[s] = subject[s]
  BY StepIsLocal
<1>2. None \notin Triples
  BY NoneAssumption DEF Triples
<1>3. /\ \A tok \in pending : tok.use \in Triples
      /\ \A run \in effects : run[2] \in Triples
      /\ parked \in Triples \cup {None}
  BY DEF Typed, TypedStores
<1>4. CASE Leaves(t)
  BY <1>1, <1>2, <1>3, <1>4 DEF Leaves, PlaceInv, RunsOnce
<1>5. CASE Takes(t)
  BY <1>1, <1>2, <1>3, <1>5 DEF Takes, PlaceInv, RunsOnce
<1>6. CASE Mints(t)
  <2>1. PICK u : u = Current(t) /\ u \in Triples /\ ~Met(u)
    BY <1>6, MintedIsNew
  <2>2. subject'[t].use = u /\ UNCHANGED <<pending, parked, effects>>
    BY <1>6, <2>1 DEF Mints
  <2> QED
    BY <1>1, <1>2, <1>3, <2>1, <2>2 DEF Met, PlaceInv, RunsOnce
<1>7. CASE Settles(t)
  <2> DEFINE u == subject[t].use
  <2>1. u \in Triples /\ subject'[t].use = None
    BY <1>7 DEF Settles
  <2>2. CASE /\ \E tok : tok.use = u /\ pending' = pending \cup {tok}
             /\ UNCHANGED <<parked, effects>>
    BY <1>1, <1>2, <1>3, <2>1, <2>2 DEF PlaceInv, RunsOnce
  <2>3. CASE parked' = u /\ UNCHANGED <<pending, effects>>
    BY <1>1, <1>2, <1>3, <2>1, <2>3 DEF PlaceInv, RunsOnce
  <2>4. CASE /\ \E run : run[2] = u /\ effects' = effects \cup {run}
             /\ UNCHANGED <<pending, parked>>
    BY <1>1, <1>2, <1>3, <2>1, <2>4 DEF PlaceInv, RunsOnce
  <2> QED
    BY <1>7, <2>2, <2>3, <2>4 DEF Settles
<1> QED
  BY <1>4, <1>5, <1>6, <1>7, StepMoves

LEMMA OnceInductive == Spec => []OnceInv
<1>1. Init => OnceInv
  <2>1. SUFFICES ASSUME Init PROVE OnceInv
    OBVIOUS
  <2>2. \A t \in Turns : subject[t].use = None
    BY <2>1 DEF Init, Nothing
  <2>3. pending = {} /\ effects = {} /\ parked = None
    BY <2>1 DEF Init
  <2>4. OrderInv
    BY <2>1, <2>2, <2>3, NoneAssumption DEF Init, OrderInv, Met, Triples
  <2>5. PlaceInv
    BY <2>2, <2>3 DEF PlaceInv, RunsOnce
  <2> QED
    BY <2>1, <2>4, <2>5, InitTyped DEF OnceInv
<1>2. OnceInv /\ [Next]_vars => OnceInv'
  <2>1. SUFFICES ASSUME OnceInv, [Next]_vars PROVE OnceInv'
    OBVIOUS
  <2>2. Typed'
    BY <2>1, TypedStep DEF OnceInv
  <2>3. CASE \E t \in Turns : Step(t)
    BY <2>1, <2>2, <2>3, OrderStep, PlaceStep DEF OnceInv
  <2>4. CASE FlagExpires \/ UNCHANGED vars
    <3>1. UNCHANGED <<phase, turn, pending, parked, effects>>
      BY <2>4 DEF FlagExpires, vars, stores, record
    <3>2. OrderInv' /\ PlaceInv'
      BY <2>1, <3>1 DEF OnceInv, OrderInv, PlaceInv, RunsOnce, Met, Reached, turn
    <3> QED
      BY <2>2, <3>2 DEF OnceInv
  <2> QED
    BY <2>1, <2>3, <2>4, NextIsStep
<1> QED
  BY <1>1, <1>2, PTL DEF Spec

\* A tool use runs at most once, however many turns confirm, defer and resume, and
\* what has run waits for nothing.  (take before the adjudication,
\* resumeDeferredIntent)
THEOREM RunsOnceHolds == Spec => []RunsOnce
<1>1. OnceInv => RunsOnce
  BY DEF OnceInv, PlaceInv
<1> QED
  BY <1>1, OnceInductive, PTL


-------------------------------------------------------------------------------
(* What pays for a run *)

\* Turns that hold a unit of the grant, and runs that have used one.
Spenders ==
    {t \in Turns : phase[t] = "again" \/ (phase[t] = "act" /\ subject[t].by = "grant")}
Spent == {run \in effects : run[3] = "grant"}

PaidInv ==
    /\ \A t \in Turns :
        /\ subject[t].by = "receipt" => subject[t].use \in redeemed
        /\ subject[t].by = "grant" => phase[t] = "act"
    /\ \A run \in effects : run[3] = "receipt" => run[2] \in redeemed
    /\ budget \in 0 .. Limit
    /\ IsFiniteSet(Spent) /\ IsFiniteSet(Spenders)
    /\ Cardinality(Spent) + Cardinality(Spenders) <= budget

\* A turn uses no unit, takes one, or runs on the one it holds.
Frugal(t) ==
    /\ Spenders' \subseteq Spenders
    /\ Spent' = Spent
    /\ budget' = budget \/ (budget < Limit /\ budget' = budget + 1)

TakesUnit(t) ==
    /\ Spenders' \subseteq Spenders \cup {t}
    /\ Spent' = Spent
    /\ budget < Limit /\ budget' = budget + 1

SpendsUnit(t) ==
    /\ t \in Spenders /\ Spenders' \subseteq Spenders \ {t}
    /\ \E run : Spent' = Spent \cup {run}
    /\ budget' = budget

LEMMA StepSpends ==
    ASSUME Typed, PaidInv, NEW t \in Turns, Step(t)
    PROVE  Frugal(t) \/ TakesUnit(t) \/ SpendsUnit(t)
<1> USE DEF Typed, TypedTurn
<1>1. \A s \in Turns \ {t} : phase'[s] = phase[s] /\ subject'[s] = subject[s]
  BY StepIsLocal
<1>2. ASSUME UNCHANGED <<effects, budget>>,
             \/ phase'[t] \notin {"again", "act"}
             \/ phase'[t] = "act" /\ subject'[t].by # "grant"
             \/ phase[t] = "again"
      PROVE  Frugal(t)
  BY <1>1, <1>2 DEF Frugal, Spenders, Spent
<1>3. CASE Starts(t) \/ Clear(t) \/ Call(t) \/ Block(t) \/ Read(t) \/ Put(t)
           \/ FeedBack(t) \/ Dies(t)
  BY <1>2, <1>3 DEF Starts, Send, Confirm, Resume, Clear, Call, Block, Read, Put, FeedBack,
     Dies, GoesOn, Returns, Goes, stores, record
<1>4. CASE Load(t)
  <2>1. subject'[t].by # "grant"
    BY <1>4 DEF Load, Goes, PaidInv
  <2>2. phase'[t] # "again" /\ UNCHANGED <<effects, budget>>
    BY <1>4 DEF Load, Goes, stores, record
  <2> QED
    BY <1>2, <2>1, <2>2
<1>5. CASE Propose(t)
  <2>1. subject'[t].by = "kernel"
    BY <1>5 DEF Propose
  <2> QED
    BY <1>2, <1>5, <2>1 DEF Propose, Goes, stores, record
<1>6. CASE Burn(t)
  <2>1. phase[t] = "burn" /\ subject' = subject /\ effects' = effects
    BY <1>6 DEF Burn, Goes, turn, record
  <2>2. subject[t].by # "grant"
    BY <2>1 DEF PaidInv
  <2>3. CASE InBudget /\ Goes(t, "burn", "again") /\ budget' = budget + 1
    BY <1>1, <2>1, <2>3 DEF InBudget, TakesUnit, Spenders, Spent
  <2>4. CASE /\ Goes(t, "burn", "act")
             /\ budget' = budget \/ (budget < Limit /\ budget' = budget + 1)
    BY <1>1, <2>1, <2>2, <2>4 DEF Goes, Frugal, Spenders, Spent
  <2> QED
    BY <1>6, <2>3, <2>4 DEF Burn
<1>7. CASE Again(t)
  BY <1>2, <1>7 DEF Again, Goes, stores, record
<1>8. CASE Act(t)
  <2> DEFINE run == <<t, subject[t].use, subject[t].by>>
  <2>1. /\ phase[t] = "act" /\ phase'[t] \notin {"again", "act"} /\ budget' = budget
        /\ effects' \in {effects, effects \cup {run}}
    BY <1>8 DEF Act, Does, GoesOn, Returns, Goes
  <2>2. CASE subject[t].by = "grant" /\ effects' = effects \cup {run}
    <3>1. t \in Spenders /\ Spenders' \subseteq Spenders \ {t}
      BY <1>1, <2>1, <2>2 DEF Spenders
    <3>2. Spent' = Spent \cup {run}
      BY <2>2 DEF Spent
    <3> QED
      BY <2>1, <3>1, <3>2 DEF SpendsUnit
  <2>3. CASE ~(subject[t].by = "grant" /\ effects' = effects \cup {run})
    <3>1. Spent' = Spent
      BY <2>1, <2>3 DEF Spent
    <3>2. Spenders' \subseteq Spenders
      BY <1>1, <2>1 DEF Spenders
    <3> QED
      BY <2>1, <3>1, <3>2 DEF Frugal
  <2> QED
    BY <2>2, <2>3
<1> QED
  BY <1>3, <1>4, <1>5, <1>6, <1>7, <1>8 DEF Step, Proceeds

LEMMA OneMore ==
    ASSUME NEW S, NEW x, IsFiniteSet(S)
    PROVE  IsFiniteSet(S \cup {x}) /\ Cardinality(S \cup {x}) <= Cardinality(S) + 1
<1>1. Cardinality(S) \in Nat
  BY FS_CardinalityType
<1>2. /\ IsFiniteSet(S \cup {x})
      /\ Cardinality(S \cup {x}) = IF x \in S THEN Cardinality(S) ELSE Cardinality(S) + 1
  BY FS_AddElement
<1> QED
  BY <1>1, <1>2

LEMMA RedeemedGrows ==
    ASSUME NEW t \in Turns, Step(t)
    PROVE  redeemed \subseteq redeemed'
BY DEF Step, Starts, Proceeds, Send, Confirm, Resume, Clear, Load, Call, Block, Read, Put,
   Propose, Burn, Again, Act, FeedBack, Dies, stores, record

LEMMA PaidStep ==
    ASSUME Typed, PaidInv, NEW t \in Turns, Step(t)
    PROVE  PaidInv'
<1> DEFINE n == Cardinality(Spent)
           m == Cardinality(Spenders)
<1>1. /\ IsFiniteSet(Spent) /\ IsFiniteSet(Spenders)
      /\ n \in Nat /\ m \in Nat /\ n + m <= budget
      /\ Limit \in Nat /\ budget \in 0 .. Limit
  BY FS_CardinalityType, ConstantsAssumption DEF PaidInv
<1>2. /\ budget' \in 0 .. Limit
      /\ IsFiniteSet(Spent)' /\ IsFiniteSet(Spenders)'
      /\ Cardinality(Spent') + Cardinality(Spenders') <= budget'
  <2>1. CASE Frugal(t)
    <3>1. IsFiniteSet(Spenders') /\ Cardinality(Spenders') <= m
      BY <1>1, <2>1, FS_Subset DEF Frugal
    <3>2. Cardinality(Spenders') \in Nat
      BY <3>1, FS_CardinalityType
    <3> QED
      BY <1>1, <2>1, <3>1, <3>2 DEF Frugal
  <2>2. CASE TakesUnit(t)
    <3>1. /\ IsFiniteSet(Spenders \cup {t})
          /\ Cardinality(Spenders \cup {t}) <= m + 1
      BY <1>1, OneMore
    <3>2. /\ IsFiniteSet(Spenders')
          /\ Cardinality(Spenders') <= Cardinality(Spenders \cup {t})
      BY <2>2, <3>1, FS_Subset DEF TakesUnit
    <3>3. Cardinality(Spenders') \in Nat /\ Cardinality(Spenders \cup {t}) \in Nat
      BY <3>1, <3>2, FS_CardinalityType
    <3>4. Cardinality(Spenders') <= m + 1
      BY <1>1, <3>1, <3>2, <3>3
    <3> QED
      BY <1>1, <2>2, <3>2, <3>3, <3>4 DEF TakesUnit
  <2>3. CASE SpendsUnit(t)
    <3>1. /\ IsFiniteSet(Spenders \ {t})
          /\ Cardinality(Spenders \ {t}) = m - 1
      BY <1>1, <2>3, FS_RemoveElement DEF SpendsUnit
    <3>2. /\ IsFiniteSet(Spenders')
          /\ Cardinality(Spenders') <= Cardinality(Spenders \ {t})
      BY <2>3, <3>1, FS_Subset DEF SpendsUnit
    <3>3. PICK run : Spent' = Spent \cup {run}
      BY <2>3 DEF SpendsUnit
    <3>4. IsFiniteSet(Spent') /\ Cardinality(Spent') <= n + 1
      BY <1>1, <3>3, OneMore
    <3>5. Cardinality(Spenders') \in Nat /\ Cardinality(Spent') \in Nat
      BY <3>2, <3>4, FS_CardinalityType
    <3>6. Cardinality(Spent') + Cardinality(Spenders') <= n + m
      BY <1>1, <3>1, <3>2, <3>4, <3>5
    <3> QED
      BY <1>1, <2>3, <3>2, <3>4, <3>5, <3>6 DEF SpendsUnit
  <2> QED
    BY <2>1, <2>2, <2>3, StepSpends
<1> USE DEF Typed, TypedTurn
<1>3. redeemed \subseteq redeemed'
  BY RedeemedGrows
<1>4. /\ subject'[t].by = "receipt" => subject'[t].use \in redeemed'
      /\ subject'[t].by = "grant" => phase'[t] = "act"
  <2>1. Nothing.by = "kernel"
    BY DEF Nothing
  <2>2. \A u, decision, by : /\ Seed(u, decision, by).use = u
                            /\ Seed(u, decision, by).by = by
    BY DEF Seed
  <2>3. CASE subject'[t] = Nothing
    BY <2>1, <2>3
  <2>4. CASE subject'[t] = subject[t] /\ phase[t] # "act"
    BY <1>3, <2>4 DEF PaidInv
  <2>5. CASE Confirm(t)
    <3>1. PICK tok \in pending :
            /\ redeemed' = redeemed \cup {tok.use}
            /\ \/ \E decision \in Decisions :
                     Begins(t, tok.history, Seed(tok.use, decision, "receipt"))
               \/ Ends(t)
               \/ UNCHANGED turn
      BY <2>5 DEF Confirm, Returns
    <3>2. phase[t] = "idle"
      BY <2>5 DEF Confirm, GoesOn, Returns, Goes
    <3>3. CASE Ends(t)
      BY <2>3, <3>3 DEF Ends
    <3>4. CASE UNCHANGED turn
      BY <2>4, <3>2, <3>4 DEF turn
    <3>5. CASE \E decision \in Decisions :
                   Begins(t, tok.history, Seed(tok.use, decision, "receipt"))
      BY <2>2, <3>1, <3>5 DEF Begins
    <3> QED
      BY <3>1, <3>3, <3>4, <3>5
  <2>6. CASE Send(t)
    BY <2>3, <2>6 DEF Send, Begins
  <2>7. CASE Resume(t)
    BY <2>2, <2>7 DEF Resume, Begins
  <2>8. CASE Clear(t) \/ Load(t) \/ Block(t) \/ Read(t) \/ Put(t) \/ Burn(t) \/ FeedBack(t)
    BY <2>4, <2>8 DEF Clear, Load, Block, Read, Put, Burn, FeedBack, Goes, GoesOn, turn
  <2>9. CASE Call(t)
    BY <2>3, <2>4, <2>9 DEF Call, GoesOn, Returns, Goes, Ends
  <2>10. CASE Propose(t)
    BY <2>10 DEF Propose
  <2>11. CASE Again(t)
    <3>1. PICK decision \in Decisions :
            subject' = [subject EXCEPT ![t] =
                            [[subject[t] EXCEPT !.decision = decision] EXCEPT !.by = "grant"]]
      BY <2>11 DEF Again, Decisions
    <3>2. subject'[t].by = "grant"
      BY <3>1 DEF Subjects
    <3> QED
      BY <2>11, <3>2 DEF Again, Goes
  <2>12. CASE Act(t) \/ Dies(t)
    BY <2>3, <2>12 DEF Act, Dies, Returns, Ends
  <2> QED
    BY <2>5, <2>6, <2>7, <2>8, <2>9, <2>10, <2>11, <2>12 DEF Step, Starts, Proceeds
<1>5. \A run \in effects' : run[3] = "receipt" => run[2] \in redeemed'
  <2>1. CASE Act(t)
    <3>1. effects' \subseteq effects \cup {<<t, subject[t].use, subject[t].by>>}
      BY <2>1 DEF Act, Does
    <3> QED
      BY <1>3, <3>1 DEF PaidInv
  <2>2. CASE ~Act(t)
    <3>1. effects' = effects
      BY <2>2 DEF Step, Starts, Proceeds, Send, Confirm, Resume, Clear, Load, Call, Block,
         Read, Put, Propose, Burn, Again, FeedBack, Dies, stores, record
    <3> QED
      BY <1>3, <3>1 DEF PaidInv
  <2> QED
    BY <2>1, <2>2
<1>6. \A s \in Turns \ {t} : phase'[s] = phase[s] /\ subject'[s] = subject[s]
  BY StepIsLocal
<1> QED
  BY <1>2, <1>3, <1>4, <1>5, <1>6 DEF PaidInv

\* What was asked about runs on a yes or on a unit of the grant of its own, for
\* any number of turns and any limit.  (runBudgetBurnDown, confirm)
THEOREM AskedIsPaidHolds == Spec => []AskedIsPaid
<1>1. Init => Typed /\ PaidInv
  <2>1. SUFFICES ASSUME Init PROVE Typed /\ PaidInv
    OBVIOUS
  <2>2. Spent = {} /\ Spenders = {}
    BY <2>1 DEF Init, Spent, Spenders
  <2>3. budget = 0 /\ Limit \in Nat /\ effects = {}
    BY <2>1, ConstantsAssumption DEF Init
  <2>4. \A t \in Turns : subject[t].by = "kernel"
    BY <2>1 DEF Init, Nothing
  <2> QED
    BY <2>1, <2>2, <2>3, <2>4, InitTyped, FS_EmptySet DEF PaidInv
<1>2. Typed /\ PaidInv /\ [Next]_vars => (Typed /\ PaidInv)'
  <2>1. SUFFICES ASSUME Typed, PaidInv, [Next]_vars PROVE Typed' /\ PaidInv'
    OBVIOUS
  <2>2. CASE FlagExpires \/ UNCHANGED vars
    <3>1. UNCHANGED <<phase, subject, effects, budget, redeemed>>
      BY <2>2 DEF FlagExpires, vars, turn, stores, record
    <3> QED
      BY <2>1, <3>1, TypedStep DEF PaidInv, Spent, Spenders
  <2> QED
    BY <2>1, <2>2, TypedStep, PaidStep, NextIsStep
<1>3. Typed /\ PaidInv => AskedIsPaid
  <2>1. SUFFICES ASSUME PaidInv PROVE Cardinality(Spent) <= Limit
    BY DEF PaidInv, AskedIsPaid, Spent
  <2>2. Cardinality(Spent) \in Nat /\ Cardinality(Spenders) \in Nat
    BY <2>1, FS_CardinalityType DEF PaidInv
  <2> QED
    BY <2>1, <2>2, ConstantsAssumption DEF PaidInv
<1> QED
  BY <1>1, <1>2, <1>3, PTL DEF Spec

-------------------------------------------------------------------------------
(* Uses without a result *)

InReply(t) ==
    \/ phase[t] \in {"use", "put"}
    \/ phase[t] \in {"burn", "again", "act"} /\ ~subject[t].seed

\* Somebody has answered the question of this reply.
Settled(u) == Siblings(u) \cap redeemed # {}

\* The first uses of the reply at hand.
Span(t, n) == {<<t, iteration[t], k>> : k \in 1 .. n}

\* In a reply the uses with a result come first and the rest are to be handled;
\* nothing else is open but what a user's answer has left.
ReplyInv(t) ==
    LET n == Cardinality(answered[t])
    IN  /\ answered[t] = Span(t, n)
        /\ iteration[t] \in Iterations
        /\ n + Len(reply[t]) \in Lengths
        /\ \A u \in history[t].open : Settled(u) \/ u \in Span(t, n + Len(reply[t]))
        /\ phase[t] \in {"burn", "again", "act"} =>
               reply[t] # <<>> /\ subject[t].use = Current(t)

TurnInv(t) ==
    /\ subject[t].use \in Uses \cup {None}
    /\ iteration[t] \in 0 .. MaxIterations
    /\ InReply(t) => ReplyInv(t)
    /\ ~InReply(t) => answered[t] = {} /\ \A u \in history[t].open : Settled(u)

WaitInv ==
    /\ redeemed \subseteq Uses
    /\ parked \in Uses \cup {None}
    /\ \A h \in held : \A u \in h.open : Settled(u)
    /\ \A tok \in pending :
        /\ tok.use \in Uses
        /\ \A u \in tok.history.open :
               Settled(u) \/ (u[1] = tok.use[1] /\ u[2] = tok.use[2])

OpenInv ==
    /\ Typed
    /\ size \in Sizes
    /\ reply \in [Turns -> Seq(Classes)]
    /\ WaitInv
    /\ \A t \in Turns : TurnInv(t)

LEMMA Sized ==
    ASSUME size \in Sizes
    PROVE  MaxIterations \in Nat /\ 1 .. MaxIterations \subseteq Iterations
BY ConstantsAssumption DEF MaxIterations, Iterations

LEMMA SettledStays ==
    ASSUME NEW t \in Turns, Step(t), NEW u, Settled(u)
    PROVE  Settled(u)'
BY RedeemedGrows DEF Settled, Siblings

LEMMA CurrentIsUse ==
    ASSUME OpenInv, NEW t \in Turns, InReply(t), reply[t] # <<>>
    PROVE  Current(t) \in Uses
<1> DEFINE n == Cardinality(answered[t])
<1>1. n \in Nat
  BY FS_CardinalityType DEF OpenInv, Typed, TypedTurn
<1>2. Len(reply[t]) \in Nat \ {0}
  BY DEF OpenInv, TurnInv, ReplyInv
<1>3. PICK r \in Replies : Len(r) = n + Len(reply[t])
  BY DEF OpenInv, TurnInv, ReplyInv, Lengths
<1>4. n + 1 \in 1 .. Len(r)
  BY <1>1, <1>2, <1>3
<1>5. n + 1 \in UNION {1 .. m : m \in Lengths}
  BY <1>4 DEF Lengths
<1> QED
  BY <1>5 DEF Current, Uses, OpenInv, TurnInv, ReplyInv

LEMMA ActUse ==
    ASSUME OpenInv, NEW t \in Turns, Act(t)
    PROVE  /\ subject[t].use \in Uses
           /\ \A u \in history[t].open :
                  \/ Settled(u)
                  \/ ~subject[t].seed /\ u \in OfReply(t)
                     /\ u[1] = subject[t].use[1] /\ u[2] = subject[t].use[2]
<1> USE DEF OpenInv
<1>1. phase[t] = "act" /\ subject[t].use \in Triples
  BY DEF Act, Typed, SubjectInv
<1>2. subject[t].use \in Uses
  BY <1>1, NoneAssumption DEF TurnInv, Triples
<1>3. CASE subject[t].seed
  BY <1>1, <1>2, <1>3 DEF TurnInv, InReply
<1>4. CASE ~subject[t].seed
  <2>1. ReplyInv(t) /\ subject[t].use = Current(t)
    BY <1>1, <1>4 DEF TurnInv, InReply, ReplyInv
  <2>2. Current(t)[1] = t /\ Current(t)[2] = iteration[t]
    BY DEF Current
  <2>3. ASSUME NEW u \in history[t].open, ~Settled(u)
        PROVE  u \in OfReply(t) /\ u[1] = t /\ u[2] = iteration[t]
    <3>1. u \in Span(t, Cardinality(answered[t]) + Len(reply[t]))
      BY <2>1, <2>3 DEF ReplyInv
    <3>2. u[1] = t /\ u[2] = iteration[t]
      BY <3>1 DEF Span
    <3> QED
      BY <3>2 DEF OfReply
  <2> QED
    BY <1>2, <1>4, <2>1, <2>2, <2>3
<1> QED
  BY <1>3, <1>4

LEMMA RedeemedSettles ==
    ASSUME OpenInv, NEW t \in Turns, Step(t),
           NEW tok \in pending, tok.use \in redeemed'
    PROVE  \A u \in tok.history.open : Settled(u)'
<1>1. SUFFICES ASSUME NEW u \in tok.history.open PROVE Settled(u)'
  OBVIOUS
<1>2. CASE Settled(u)
  BY <1>2, SettledStays
<1>3. CASE u[1] = tok.use[1] /\ u[2] = tok.use[2]
  <2>1. tok.use \in Siblings(u)
    BY <1>3 DEF Siblings, OpenInv, WaitInv
  <2>2. Siblings(u) \cap redeemed' # {}
    BY <2>1
  <2> QED
    BY <2>2 DEF Settled, Siblings
<1> QED
  BY <1>2, <1>3 DEF OpenInv, WaitInv

LEMMA WaitStep ==
    ASSUME OpenInv, NEW t \in Turns, Step(t)
    PROVE  WaitInv'
<1> USE DEF OpenInv
<1>1. CASE Confirm(t)
  <2>1. PICK tok \in pending :
          /\ pending' = pending \ {tok}
          /\ redeemed' = redeemed \cup {tok.use}
          /\ parked' = parked
          /\ held' \subseteq held \cup {tok.history}
    BY <1>1 DEF Confirm, Remaining, Returns, GoesOn
  <2>2. \A u \in tok.history.open : Settled(u)'
    BY <2>1, RedeemedSettles
  <2>3. \A h \in held : \A u \in h.open : Settled(u)'
    BY SettledStays DEF WaitInv
  <2>4. \A k \in pending : \A u \in k.history.open :
            Settled(u)' \/ (u[1] = k.use[1] /\ u[2] = k.use[2])
    BY SettledStays DEF WaitInv
  <2>5. redeemed' \subseteq Uses /\ \A k \in pending : k.use \in Uses
    BY <2>1 DEF WaitInv
  <2> QED
    BY <2>1, <2>2, <2>3, <2>4, <2>5 DEF WaitInv
<1>2. CASE Act(t)
  <2> DEFINE h == WithResults(t, IF subject[t].seed THEN OfSeed(t) ELSE OfReply(t))
             tok == [use |-> subject[t].use, history |-> history[t]]
  <2>1. redeemed' = redeemed /\ held' \subseteq held \cup {h}
    BY <1>2 DEF Act, Returns, GoesOn
  <2>2. pending' \subseteq pending \cup {tok} /\ parked' \in {parked, subject[t].use}
    BY <1>2 DEF Act, Does
  <2>3. \A u \in h.open : Settled(u)
    <3>1. h.open = history[t].open \ (IF subject[t].seed THEN OfSeed(t) ELSE OfReply(t))
      BY DEF WithResults
    <3> HIDE DEF h
    <3> QED
      BY <1>2, <3>1, ActUse
  <2>4. tok.use \in Uses /\ \A u \in tok.history.open :
            Settled(u) \/ (u[1] = tok.use[1] /\ u[2] = tok.use[2])
    BY <1>2, ActUse
  <2>5. \A u : Settled(u)' <=> Settled(u)
    BY <2>1 DEF Settled, Siblings
  <2> HIDE DEF h, tok
  <2>6. parked' \in Uses \cup {None}
    BY <1>2, <2>2, ActUse DEF WaitInv
  <2> QED
    BY <2>1, <2>2, <2>3, <2>4, <2>5, <2>6 DEF WaitInv
<1>3. CASE Call(t)
  <2>1. /\ UNCHANGED <<redeemed, pending, parked>> /\ phase[t] = "call"
        /\ held' \subseteq held \cup {history[t]}
    BY <1>3 DEF Call, Returns, GoesOn, Goes, stores
  <2>2. \A u \in history[t].open : Settled(u)
    BY <2>1 DEF TurnInv, InReply
  <2>3. \A u : Settled(u)' <=> Settled(u)
    BY <2>1 DEF Settled, Siblings
  <2> QED
    BY <2>1, <2>2, <2>3 DEF WaitInv
<1>4. CASE ~Confirm(t) /\ ~Act(t) /\ ~Call(t)
  <2>1. UNCHANGED <<redeemed, pending, held>> /\ parked' \in {parked, None}
    BY <1>4 DEF Step, Starts, Proceeds, Send, Resume, Clear, Load, Block, Read, Put, Propose,
       Burn, Again, FeedBack, Dies, GoesOn, stores, record
  <2>2. \A u : Settled(u)' <=> Settled(u)
    BY <2>1 DEF Settled, Siblings
  <2> QED
    BY <2>1, <2>2 DEF WaitInv
<1> QED
  BY <1>1, <1>2, <1>3, <1>4

\* The result of the use at hand.
LEMMA AnswerKeepsReply ==
    ASSUME OpenInv, NEW t \in Turns, Step(t), InReply(t), reply[t] # <<>>, Answer(t),
           iteration' = iteration, history' = history,
           phase'[t] \in {"use", "put"}
    PROVE  ReplyInv(t)'
<1> USE DEF OpenInv
<1> DEFINE n == Cardinality(answered[t])
<1>1. ReplyInv(t) /\ IsFiniteSet(answered[t]) /\ n \in Nat
  BY FS_CardinalityType DEF TurnInv, Typed, TypedTurn
<1>2. /\ reply'[t] = Tail(reply[t]) /\ Tail(reply[t]) \in Seq(Classes)
      /\ Len(Tail(reply[t])) = Len(reply[t]) - 1
      /\ Len(reply[t]) \in Nat \ {0}
  <2>1. reply'[t] = Tail(reply[t]) /\ reply[t] \in Seq(Classes)
    BY DEF Answer
  <2>2. Tail(reply[t]) \in Seq(Classes) /\ Len(Tail(reply[t])) = Len(reply[t]) - 1
    BY <2>1
  <2>3. Len(reply[t]) \in Nat \ {0}
    BY <2>1
  <2> QED
    BY <2>1, <2>2, <2>3
<1>3. answered'[t] = answered[t] \cup {<<t, iteration[t], n + 1>>}
  BY DEF Answer, Current, Typed, TypedTurn
<1>4. answered'[t] = Span(t, n + 1) /\ <<t, iteration[t], n + 1>> \notin answered[t]
  BY <1>1, <1>3 DEF ReplyInv, Span
<1>5. Cardinality(answered'[t]) = n + 1
  BY <1>1, <1>3, <1>4, FS_AddElement
<1>6. \A m : Span(t, m)' = Span(t, m)
  BY DEF Span
<1>7. \A u \in history[t].open : Settled(u)' \/ u \in Span(t, n + Len(reply[t]))
  BY <1>1, SettledStays DEF ReplyInv
<1>8. (n + 1) + Len(reply'[t]) = n + Len(reply[t])
  BY <1>1, <1>2
<1> QED
  BY <1>1, <1>2, <1>4, <1>5, <1>6, <1>7, <1>8 DEF ReplyInv, Span

\* The replies of the other turns.
LEMMA ReplyStep ==
    ASSUME OpenInv, NEW t \in Turns, Step(t)
    PROVE  /\ reply' \in [Turns -> Seq(Classes)]
           /\ \A s \in Turns \ {t} : reply'[s] = reply[s]
<1> USE DEF OpenInv
<1>1. <<>> \in Seq(Classes)
  OBVIOUS
<1>2. CASE Ends(t)
  BY <1>1, <1>2 DEF Ends
<1>3. CASE UNCHANGED reply
  BY <1>3
<1>4. CASE reply[t] # <<>> /\ Answer(t)
  <2>1. Tail(reply[t]) \in Seq(Classes)
    BY <1>4
  <2> QED
    BY <1>4, <2>1 DEF Answer
<1>5. CASE Call(t)
  BY <1>2, <1>5, ConstantsAssumption DEF Call, Returns
<1>6. CASE Act(t)
  <2>1. ~subject[t].seed => reply[t] # <<>>
    BY <1>6 DEF Act, TurnInv, InReply, ReplyInv
  <2>2. Ends(t) \/ UNCHANGED reply \/ (~subject[t].seed /\ Answer(t))
    BY <1>6 DEF Act, Returns
  <2> QED
    BY <1>2, <1>3, <1>4, <2>1, <2>2
<1>7. CASE Block(t) \/ Read(t)
  BY <1>4, <1>7 DEF Block, Read
<1>8. CASE Confirm(t)
  BY <1>2, <1>3, <1>8 DEF Confirm, Returns, Begins, turn
<1>9. CASE Dies(t)
  BY <1>2, <1>9 DEF Dies
<1> QED
  BY <1>3, <1>5, <1>6, <1>7, <1>8, <1>9
     DEF Step, Starts, Proceeds, Send, Resume, Clear, Load, Put, Propose, Burn, Again,
         FeedBack, Begins, turn

\* A turn begins with nothing open but what is settled.
LEMMA StartOpens ==
    ASSUME OpenInv, NEW t \in Turns, Starts(t), UNCHANGED size
    PROVE  TurnInv(t)'
<1> USE DEF OpenInv, Typed, TypedTurn
<1>1. Step(t)
  BY DEF Step
<1>2. phase[t] = "idle"
  BY DEF Starts, Send, Confirm, Resume, GoesOn, Returns, Goes
<1>3. /\ answered[t] = {} /\ iteration[t] \in 0 .. MaxIterations
      /\ \A u \in history[t].open : Settled(u)
      /\ subject[t].use \in Uses \cup {None}
  BY <1>2 DEF TurnInv, InReply
<1>4. phase'[t] \in {"clear", "load", "done", "rejected"}
  BY DEF Starts, Send, Confirm, Resume, GoesOn, Returns, Goes
<1>5. answered'[t] = {} /\ iteration'[t] \in {0, iteration[t]}
  BY <1>3 DEF Starts, Send, Confirm, Resume, Returns, Begins, Ends, turn
<1>6. Nothing.use = None /\ \A u, decision, by : Seed(u, decision, by).use = u
  BY DEF Nothing, Seed
<1>7. /\ subject'[t].use \in Uses \cup {None}
      /\ \A u \in history'[t].open : Settled(u)'
  <2>1. CASE Ends(t)
    BY <1>6, <2>1 DEF Ends, EmptyHistory
  <2>2. CASE UNCHANGED turn
    BY <1>1, <1>3, <2>2, SettledStays DEF turn
  <2>3. CASE \E h \in held : Begins(t, h, Nothing)
    BY <1>1, <1>6, <2>3, SettledStays DEF Begins, WaitInv
  <2>4. CASE Resume(t)
    <3>1. PICK h \in held, decision \in Decisions : Begins(t, h, Seed(parked, decision, "kernel"))
      BY <2>4 DEF Resume
    <3> QED
      BY <1>1, <1>6, <3>1, SettledStays DEF Begins, WaitInv
  <2>5. CASE Confirm(t) /\ ~Ends(t) /\ ~UNCHANGED turn
    <3>1. PICK tok \in pending :
            /\ redeemed' = redeemed \cup {tok.use}
            /\ \E decision \in Decisions :
                   Begins(t, tok.history, Seed(tok.use, decision, "receipt"))
      BY <2>5 DEF Confirm, Returns
    <3>2. history'[t] = tok.history /\ subject'[t].use = tok.use
      BY <1>6, <3>1 DEF Begins
    <3> QED
      BY <1>1, <3>1, <3>2, RedeemedSettles DEF WaitInv
  <2> QED
    BY <2>1, <2>2, <2>3, <2>4, <2>5 DEF Starts, Send
<1>8. iteration'[t] \in 0 .. MaxIterations'
  <2>1. MaxIterations' = MaxIterations /\ MaxIterations \in Nat
    BY Sized DEF MaxIterations
  <2> QED
    BY <1>3, <1>5, <2>1
<1> QED
  BY <1>4, <1>5, <1>7, <1>8 DEF TurnInv, InReply

\* The steps that get on with a reply.
LEMMA TurnStep ==
    ASSUME OpenInv, NEW t \in Turns, Step(t), UNCHANGED size
    PROVE  TurnInv(t)'
<1> USE DEF OpenInv, Typed, TypedTurn
<1> DEFINE n == Cardinality(answered[t])
<1>1. TurnInv(t) /\ IsFiniteSet(answered[t]) /\ n \in Nat
  BY FS_CardinalityType
<1>2. MaxIterations' = MaxIterations /\ MaxIterations \in Nat
  BY Sized DEF MaxIterations
<1>3. /\ \A u : Settled(u) => Settled(u)'
      /\ \A m : iteration'[t] = iteration[t] => Span(t, m)' = Span(t, m)
  BY SettledStays DEF Span
<1>4. CASE Starts(t)
  BY <1>4, StartOpens
<1>5. ASSUME Ends(t), phase'[t] \in {"done", "rejected"} PROVE TurnInv(t)'
  BY <1>2, <1>5 DEF Ends, EmptyHistory, Nothing, TurnInv, InReply
<1>6. ASSUME UNCHANGED <<history, iteration, answered, reply, subject>>,
             InReply(t)' <=> InReply(t),
             phase'[t] \in {"burn", "again", "act"} => phase[t] \in {"burn", "again", "act"}
                                                      \/ subject[t].seed
      PROVE  TurnInv(t)'
  BY <1>1, <1>2, <1>3, <1>6 DEF TurnInv, InReply, ReplyInv, Span, Current
<1>7. CASE Clear(t) \/ Load(t) \/ Put(t) \/ Burn(t)
  BY <1>6, <1>7 DEF Clear, Load, Put, Burn, Goes, turn, InReply
<1>8. CASE Dies(t)
  BY <1>5, <1>8 DEF Dies
<1>9. CASE Call(t)
  <2>1. CASE Returns(t, "call", history[t])
    BY <1>5, <2>1 DEF Returns, Goes
  <2>2. CASE ~Returns(t, "call", history[t])
    <3>1. PICK r \in Replies :
            /\ phase[t] = "call" /\ phase'[t] = "use"
            /\ iteration'[t] = iteration[t] + 1
            /\ reply'[t] = r
            /\ history' = [history EXCEPT ![t].open =
                               @ \cup UsesOf(t, iteration[t] + 1, r)]
            /\ iteration[t] < MaxIterations
            /\ UNCHANGED <<answered, subject>>
      BY <1>9, <2>2 DEF Call, GoesOn, Goes
    <3>2. /\ answered[t] = {} /\ subject[t].use \in Uses \cup {None}
          /\ \A u \in history[t].open : Settled(u)
          /\ iteration[t] \in 0 .. MaxIterations
      BY <1>1, <3>1 DEF TurnInv, InReply
    <3>3. iteration[t] + 1 \in 1 .. MaxIterations
      BY <1>2, <3>1, <3>2
    <3>4. iteration[t] + 1 \in Iterations
      BY <3>3, Sized
    <3>5. r \in Seq(Classes) /\ Len(r) \in Lengths /\ Len(r) \in Nat
      BY <3>1, ConstantsAssumption DEF Lengths
    <3>6. history[t] \in Wide
      OBVIOUS
    <3>7. history'[t].open = history[t].open \cup UsesOf(t, iteration[t] + 1, r)
      BY <3>1, <3>6 DEF Wide
    <3>8. UsesOf(t, iteration[t] + 1, r) = Span(t, Len(r))'
      <4>1. DOMAIN r = 1 .. Len(r)
        BY <3>5
      <4>2. Span(t, Len(r))' = {<<t, iteration[t] + 1, k>> : k \in 1 .. Len(r)}
        BY <3>1 DEF Span
      <4> QED
        BY <4>1, <4>2 DEF UsesOf
    <3>9. Cardinality(answered'[t]) = 0 /\ answered'[t] = {}
      BY <3>1, <3>2, FS_EmptySet
    <3>10. answered'[t] = Span(t, 0)'
      BY <3>9 DEF Span
    <3>11. 0 + Len(reply'[t]) = Len(r)
      BY <3>1, <3>5
    <3>12. ReplyInv(t)'
      BY <1>3, <3>1, <3>2, <3>4, <3>5, <3>7, <3>8, <3>9, <3>10, <3>11 DEF ReplyInv
    <3>13. iteration'[t] \in 0 .. MaxIterations' /\ InReply(t)'
      BY <1>2, <3>1, <3>3 DEF InReply
    <3> QED
      BY <3>1, <3>2, <3>12, <3>13 DEF TurnInv
  <2> QED
    BY <2>1, <2>2
<1>10. CASE Block(t) \/ Read(t)
  <2>1. /\ phase[t] = "use" /\ phase'[t] \in {"use", "put"}
        /\ reply[t] # <<>> /\ Answer(t)
        /\ UNCHANGED <<history, iteration, subject>>
    BY <1>10 DEF Block, Read, Goes
  <2>2. InReply(t) /\ InReply(t)'
    BY <2>1 DEF InReply
  <2>3. ReplyInv(t)'
    BY <2>1, <2>2, AnswerKeepsReply
  <2> QED
    BY <1>1, <1>2, <2>1, <2>2, <2>3 DEF TurnInv
<1>11. CASE Propose(t)
  <2>1. /\ phase[t] = "use" /\ phase'[t] \in {"burn", "act"} /\ reply[t] # <<>>
        /\ subject'[t].use = Current(t) /\ ~subject'[t].seed
        /\ UNCHANGED <<history, iteration, reply, answered>>
    BY <1>11 DEF Propose, Goes
  <2>2. InReply(t) /\ InReply(t)'
    BY <2>1 DEF InReply
  <2>3. Current(t)' = Current(t)
    BY <2>1 DEF Current
  <2>4. ReplyInv(t)'
    BY <1>1, <1>3, <2>1, <2>2, <2>3 DEF TurnInv, ReplyInv
  <2>5. Current(t) \in Uses
    BY <2>1, <2>2, CurrentIsUse
  <2> QED
    BY <1>1, <1>2, <2>1, <2>2, <2>4, <2>5 DEF TurnInv
<1>12. CASE Again(t)
  <2>1. PICK decision \in Decisions :
          subject' = [subject EXCEPT ![t] =
                          [[subject[t] EXCEPT !.decision = decision] EXCEPT !.by = "grant"]]
    BY <1>12 DEF Again, Decisions
  <2>2. subject'[t].use = subject[t].use /\ subject'[t].seed = subject[t].seed
    BY <2>1 DEF Subjects
  <2>3. /\ phase[t] = "again" /\ phase'[t] = "act"
        /\ UNCHANGED <<history, iteration, reply, answered>>
    BY <1>12 DEF Again, Goes
  <2> QED
    BY <1>1, <1>2, <1>3, <2>2, <2>3 DEF TurnInv, InReply, ReplyInv, Current
<1>13. CASE Act(t)
  <2> DEFINE h == WithResults(t, IF subject[t].seed THEN OfSeed(t) ELSE OfReply(t))
  <2>1. CASE Pauses(t)
    BY <1>5, <1>13, <2>1 DEF Act, Returns, Goes
  <2>2. CASE ~Pauses(t) /\ subject[t].seed
    <3>1. /\ phase[t] = "act" /\ phase'[t] = "call"
          /\ history'[t] = h /\ subject'[t] = Nothing
          /\ UNCHANGED <<answered, iteration>>
      BY <1>13, <2>2 DEF Act, GoesOn, Goes
    <3>2. h.open \subseteq history[t].open
      BY DEF WithResults
    <3> HIDE DEF h
    <3>3. answered[t] = {} /\ \A u \in history[t].open : Settled(u)
      BY <1>1, <2>2, <3>1 DEF TurnInv, InReply
    <3> QED
      BY <1>1, <1>2, <1>3, <3>1, <3>2, <3>3 DEF TurnInv, InReply, Nothing
  <2>3. CASE ~Pauses(t) /\ ~subject[t].seed
    <3>1. /\ phase[t] = "act" /\ phase'[t] = "use" /\ Answer(t)
          /\ subject'[t] = Nothing
          /\ UNCHANGED <<history, iteration>>
      BY <1>13, <2>3 DEF Act, GoesOn, Goes
    <3>2. InReply(t) /\ InReply(t)' /\ reply[t] # <<>>
      BY <1>1, <2>3, <3>1 DEF TurnInv, InReply, ReplyInv
    <3>3. ReplyInv(t)'
      BY <3>1, <3>2, AnswerKeepsReply
    <3> QED
      BY <1>1, <1>2, <3>1, <3>2, <3>3 DEF TurnInv, Nothing
  <2> QED
    BY <2>1, <2>2, <2>3
<1>14. CASE FeedBack(t)
  <2>1. /\ phase[t] = "use" /\ phase'[t] = "call" /\ reply[t] = <<>>
        /\ history'[t].open = history[t].open \ answered[t]
        /\ answered'[t] = {}
        /\ UNCHANGED <<iteration, subject>>
    BY <1>14 DEF FeedBack, GoesOn, Goes, WithResults
  <2>2. ReplyInv(t)
    BY <1>1, <2>1 DEF TurnInv, InReply
  <2>3. n + Len(reply[t]) = n
    BY <1>1, <2>1
  <2>4. \A u \in history'[t].open : Settled(u)
    BY <2>1, <2>2, <2>3 DEF ReplyInv
  <2> QED
    BY <1>1, <1>2, <1>3, <2>1, <2>4 DEF TurnInv, InReply
<1> QED
  BY <1>4, <1>7, <1>8, <1>9, <1>10, <1>11, <1>12, <1>13, <1>14 DEF Step, Proceeds

LEMMA OpenStep ==
    ASSUME OpenInv, [Next]_vars
    PROVE  OpenInv'
<1> USE DEF OpenInv
<1>1. Typed' /\ UNCHANGED size
  BY TypedStep DEF Next, vars
<1>2. ASSUME NEW t \in Turns, Step(t) PROVE OpenInv'
  <2>1. ASSUME NEW s \in Turns, s # t PROVE TurnInv(s)'
    <3>1. /\ phase'[s] = phase[s] /\ history'[s] = history[s]
          /\ iteration'[s] = iteration[s] /\ answered'[s] = answered[s]
          /\ subject'[s] = subject[s] /\ reply'[s] = reply[s]
      BY <1>2, <2>1, StepIsLocal, ReplyStep
    <3>2. \A u : Settled(u) => Settled(u)'
      BY <1>2, SettledStays
    <3>3. MaxIterations' = MaxIterations
      BY <1>1 DEF MaxIterations
    <3>4. TurnInv(s)
      BY <2>1
    <3> QED
      BY <3>1, <3>2, <3>3, <3>4 DEF TurnInv, InReply, ReplyInv, Span, Current
  <2>2. TurnInv(t)' /\ WaitInv' /\ reply' \in [Turns -> Seq(Classes)]
    BY <1>1, <1>2, TurnStep, WaitStep, ReplyStep
  <2> QED
    BY <1>1, <2>1, <2>2
<1>3. CASE FlagExpires \/ UNCHANGED vars
  <2>1. UNCHANGED <<phase, turn, pending, parked, held, redeemed>>
    BY <1>3 DEF FlagExpires, vars, stores, record
  <2>2. WaitInv'
    BY <2>1 DEF WaitInv, Settled, Siblings
  <2>3. \A t \in Turns : TurnInv(t)'
    BY <1>1, <2>1 DEF TurnInv, InReply, ReplyInv, Settled, Siblings, Span, Current, turn,
       MaxIterations
  <2> QED
    BY <1>1, <2>1, <2>2, <2>3 DEF turn
<1> QED
  BY <1>2, <1>3, NextIsStep

LEMMA OpenInductive == Spec => []OpenInv
<1>1. Init => OpenInv
  <2>1. SUFFICES ASSUME Init PROVE OpenInv
    OBVIOUS
  <2>2. size \in Sizes /\ MaxIterations \in Nat
    BY <2>1, Sized DEF Init
  <2>3. WaitInv
    BY <2>1 DEF Init, WaitInv, EmptyHistory
  <2>4. \A t \in Turns : TurnInv(t)
    BY <2>1, <2>2 DEF Init, TurnInv, InReply, EmptyHistory, Nothing
  <2>5. reply \in [Turns -> Seq(Classes)]
    BY <2>1 DEF Init
  <2> QED
    BY <2>1, <2>2, <2>3, <2>4, <2>5, InitTyped DEF OpenInv
<1> QED
  BY <1>1, OpenStep, PTL DEF Spec

\* The model is called with every earlier use answered, but for the replies whose
\* question a user has answered, however long replies and turns are.
\* ("Not processed: prior tool_use paused this turn.")
THEOREM AnsweredBeforeNextCallHolds == Spec => []AnsweredBeforeNextCall
<1>1. OpenInv => AnsweredBeforeNextCall
  BY DEF OpenInv, TurnInv, InReply, Settled, AnsweredBeforeNextCall
<1> QED
  BY <1>1, OpenInductive, PTL

-------------------------------------------------------------------------------
(* The bounds of a run *)

\* Whatever is read, open, on its way or has run is a use that a reply can have.
Bounded ==
    /\ history \in [Turns -> Histories]
    /\ answered \in [Turns -> SUBSET Uses]
    /\ served \in [Turns -> SUBSET Uses]
    /\ held \in SUBSET Histories
    /\ \A tok \in pending : tok.history \in Histories
    /\ kept \in SUBSET Uses
    /\ \A run \in effects : run[2] \in Uses
    /\ budget \in 0 .. Limit

LEMMA ResultsBounded ==
    ASSUME Bounded, NEW t \in Turns, NEW uses
    PROVE  WithResults(t, uses) \in Histories
BY DEF Bounded, WithResults, Histories

LEMMA EndsBounded ==
    ASSUME Bounded, NEW t \in Turns, Ends(t)
    PROVE  /\ history' \in [Turns -> Histories]
           /\ answered' \in [Turns -> SUBSET Uses]
           /\ served' \in [Turns -> SUBSET Uses]
BY DEF Bounded, Ends, EmptyHistory, Histories

LEMMA ActBounded ==
    ASSUME OpenInv, Bounded, NEW t \in Turns, Act(t)
    PROVE  Bounded'
<1> DEFINE h == WithResults(t, IF subject[t].seed THEN OfSeed(t) ELSE OfReply(t))
<1>1. /\ Does(t) /\ UNCHANGED <<stored, budget, kept, redeemed>>
      /\ IF Pauses(t) THEN Returns(t, "act", h)
         ELSE /\ GoesOn(t, "act", IF subject[t].seed THEN "call" ELSE "use")
              /\ IF subject[t].seed
                 THEN /\ history' = [history EXCEPT ![t] = h]
                      /\ UNCHANGED <<reply, answered>>
                 ELSE Answer(t) /\ UNCHANGED history
              /\ UNCHANGED <<iteration, served, flag>>
  BY DEF Act
<1>2. h \in Histories
  BY ResultsBounded
<1> HIDE DEF h
<1>3. subject[t].use \in Uses
  BY ActUse
<1>4. /\ history' \in [Turns -> Histories]
      /\ answered' \in [Turns -> SUBSET Uses]
      /\ served' \in [Turns -> SUBSET Uses]
  <2>1. CASE Pauses(t)
    BY <1>1, <2>1, EndsBounded DEF Returns
  <2>2. CASE ~Pauses(t) /\ subject[t].seed
    BY <1>1, <1>2, <2>2 DEF Bounded
  <2>3. CASE ~Pauses(t) /\ ~subject[t].seed
    <3>1. Current(t) \in Uses
      BY <2>3, CurrentIsUse DEF Act, OpenInv, TurnInv, InReply, ReplyInv
    <3> QED
      BY <1>1, <2>3, <3>1 DEF Answer, Bounded
  <2> QED
    BY <2>1, <2>2, <2>3
<1>5. held' \in SUBSET Histories
  BY <1>1, <1>2 DEF Returns, GoesOn, Bounded
<1>6. \A tok \in pending' : tok.history \in Histories
  <2>1. pending' \in {pending, pending \cup {[use |-> subject[t].use,
                                             history |-> history[t]]}}
    BY <1>1 DEF Does
  <2> QED
    BY <2>1 DEF Bounded
<1>7. \A run \in effects' : run[2] \in Uses
  <2>1. effects' \in {effects, effects \cup {<<t, subject[t].use, subject[t].by>>}}
    BY <1>1 DEF Does
  <2> QED
    BY <1>3, <2>1 DEF Bounded
<1> QED
  BY <1>1, <1>4, <1>5, <1>6, <1>7 DEF Bounded

LEMMA BoundedStep ==
    ASSUME OpenInv, Bounded, NEW t \in Turns, Step(t)
    PROVE  Bounded'
<1> USE DEF Bounded
<1>1. CASE Send(t) \/ Resume(t)
  BY <1>1 DEF Send, Resume, Begins, stores, record
<1>2. CASE Confirm(t)
  <2>1. PICK tok \in pending :
          /\ pending' = pending \ {tok}
          /\ \/ \E decision \in Decisions :
                   /\ GoesOn(t, "idle", "load")
                   /\ Begins(t, tok.history, Seed(tok.use, decision, "receipt"))
             \/ Returns(t, "idle", tok.history)
             \/ GoesOn(t, "idle", "rejected") /\ UNCHANGED turn
          /\ UNCHANGED <<budget, kept, effects>>
    BY <1>2 DEF Confirm, Remaining
  <2>2. CASE Returns(t, "idle", tok.history)
    BY <2>1, <2>2, EndsBounded DEF Returns
  <2>3. CASE ~Returns(t, "idle", tok.history)
    BY <2>1, <2>3 DEF GoesOn, Begins, turn
  <2> QED
    BY <2>2, <2>3
<1>3. CASE Clear(t) \/ Load(t) \/ Propose(t) \/ Again(t)
  BY <1>3 DEF Clear, Load, Propose, Again, turn, stores, record
<1>4. CASE Call(t)
  <2>1. CASE Returns(t, "call", history[t])
    BY <1>4, <2>1, EndsBounded DEF Call, Returns, stores
  <2>2. CASE ~Returns(t, "call", history[t])
    <3>1. PICK r \in Replies :
            /\ phase[t] = "call" /\ iteration[t] < MaxIterations
            /\ history' = [history EXCEPT ![t].open =
                               @ \cup UsesOf(t, iteration[t] + 1, r)]
            /\ UNCHANGED <<answered, served, held, stores, kept, effects>>
      BY <1>4, <2>2 DEF Call, GoesOn, Goes
    <3>2. iteration[t] + 1 \in Iterations
      <4>1. iteration[t] \in 0 .. MaxIterations /\ MaxIterations \in Nat
        BY Sized DEF OpenInv, TurnInv
      <4>2. iteration[t] + 1 \in 1 .. MaxIterations
        BY <3>1, <4>1
      <4> QED
        BY <4>2, Sized DEF OpenInv
    <3>3. DOMAIN r \subseteq UNION {1 .. n : n \in Lengths}
      <4>1. r \in Seq(Classes) /\ Len(r) \in Lengths
        BY ConstantsAssumption DEF Lengths
      <4> QED
        BY <4>1
    <3>4. UsesOf(t, iteration[t] + 1, r) \in SUBSET Uses
      BY <3>2, <3>3 DEF UsesOf, Uses
    <3>5. [history[t] EXCEPT !.open = @ \cup UsesOf(t, iteration[t] + 1, r)] \in Histories
      BY <3>4 DEF Histories
    <3>6. history' \in [Turns -> Histories]
      BY <3>1, <3>5
    <3> QED
      BY <3>1, <3>6 DEF stores
  <2> QED
    BY <2>1, <2>2
<1>5. CASE Block(t) \/ Read(t)
  <2>1. Current(t) \in Uses
    BY <1>5, CurrentIsUse DEF Block, Read, Goes, InReply
  <2> QED
    BY <1>5, <2>1 DEF Block, Read, Answer, stores, record
<1>6. CASE Put(t)
  BY <1>6 DEF Put
<1>7. CASE Burn(t)
  BY <1>7, ConstantsAssumption DEF Burn, InBudget, turn, record
<1>8. CASE Act(t)
  BY <1>8, ActBounded
<1>9. CASE FeedBack(t)
  BY <1>9, ResultsBounded DEF FeedBack, GoesOn, stores
<1>10. CASE Dies(t)
  BY <1>10, EndsBounded DEF Dies, stores, record
<1> QED
  BY <1>1, <1>2, <1>3, <1>4, <1>5, <1>6, <1>7, <1>8, <1>9, <1>10
     DEF Step, Starts, Proceeds

\* Every variable keeps its type, the bounds of the run and of the grant
\* included: no turn has more replies than maxIterations, and no unit beyond the
\* limit is burnt.  (runLoop, runBudgetBurnDown)
THEOREM TypeCorrect == Spec => []TypeOK
<1>1. Init => Bounded
  BY ConstantsAssumption DEF Init, Bounded, EmptyHistory, Histories
<1>2. OpenInv /\ Bounded /\ [Next]_vars => Bounded'
  <2> SUFFICES ASSUME OpenInv, Bounded, [Next]_vars PROVE Bounded'
    OBVIOUS
  <2>1. CASE FlagExpires \/ UNCHANGED vars
    BY <2>1 DEF FlagExpires, vars, turn, stores, record, Bounded
  <2> QED
    BY <2>1, BoundedStep, NextIsStep
<1>3. OpenInv /\ Bounded => TypeOK
  <2> SUFFICES ASSUME OpenInv, Bounded PROVE TypeOK
    OBVIOUS
  <2>1. iteration \in [Turns -> 0 .. MaxIterations]
    BY DEF OpenInv, Typed, TypedTurn, TurnInv
  <2>2. subject \in [Turns -> [use : Uses \cup {None}, decision : Decisions,
                              by : {"kernel", "grant", "receipt"},
                              seed : BOOLEAN, stamped : BOOLEAN]]
    <3>1. \A t \in Turns : subject[t] \in Subjects /\ subject[t].use \in Uses \cup {None}
      BY DEF OpenInv, Typed, TypedTurn, TurnInv
    <3>2. subject \in [Turns -> Subjects]
      BY DEF OpenInv, Typed, TypedTurn
    <3> QED
      BY <3>1, <3>2 DEF Subjects
  <2>3. pending \subseteq [use : Uses, history : Histories]
    <3>1. \A tok \in pending : /\ tok \in [use : Triples, history : Wide]
                                /\ tok.use \in Uses /\ tok.history \in Histories
      BY DEF OpenInv, Typed, TypedStores, WaitInv, Bounded
    <3> QED
      BY <3>1
  <2>4. effects \subseteq Turns \X Uses \X {"kernel", "grant", "receipt"}
    <3>1. \A run \in effects :
            /\ run \in Turns \X Triples \X {"kernel", "grant", "receipt"}
            /\ run[2] \in Uses
      BY DEF OpenInv, Typed, TypedStores, Bounded
    <3> QED
      BY <3>1
  <2> QED
    BY <2>1, <2>2, <2>3, <2>4
       DEF OpenInv, Typed, TypedTurn, TypedStores, WaitInv, Bounded, TypeOK, Phases
<1> QED
  BY <1>1, <1>2, <1>3, OpenInductive, PTL DEF Spec

-------------------------------------------------------------------------------
(* Every turn comes to its end *)

Ended(t) == phase[t] \in {"done", "rejected"}

\* Where a turn stands within an iteration: before the loop, in a reply, or about
\* to ask the model.
Stage(t) ==
    CASE phase[t] \in {"idle", "clear", "load"}                     -> 2
      [] phase[t] \in {"burn", "again", "act"} /\ subject[t].seed   -> 2
      [] phase[t] = "call"                                          -> 0
      [] OTHER                                                      -> 1

\* Awaits of one use.
Rank(t) ==
    CASE phase[t] = "idle"  -> 6
      [] phase[t] = "clear" -> 5
      [] phase[t] \in {"load", "put"} -> 4
      [] phase[t] = "use"   -> 3
      [] phase[t] = "burn"  -> 2
      [] phase[t] = "again" -> 1
      [] OTHER              -> 0

\* A turn gets nearer to its end: it is over, or has one iteration less to go, or
\* is further in its iteration, or has fewer uses to handle, or is further with
\* the one at hand.
Nearer(t) ==
    /\ ~Ended(t)
    /\ \/ Ended(t)'
       \/ iteration'[t] > iteration[t]
       \/ /\ iteration'[t] = iteration[t]
          /\ \/ Stage(t)' < Stage(t)
             \/ /\ Stage(t)' = Stage(t)
                /\ \/ Len(reply'[t]) < Len(reply[t])
                   \/ Len(reply'[t]) = Len(reply[t]) /\ Rank(t)' < Rank(t)

Same(t) ==
    UNCHANGED <<phase[t], iteration[t], reply[t], subject[t].seed>>

LEMMA NearerIfOver ==
    ASSUME NEW t \in Turns, ~Ended(t), Ended(t)'
    PROVE  Nearer(t)
BY DEF Nearer

\* Steps that stay in the iteration and handle no use.
LEMMA NearerByRank ==
    ASSUME NEW t \in Turns, ~Ended(t), iteration'[t] = iteration[t],
           reply'[t] = reply[t], Stage(t)' = Stage(t), Rank(t)' < Rank(t)
    PROVE  Nearer(t)
BY DEF Nearer

LEMMA NearerByUse ==
    ASSUME OpenInv, NEW t \in Turns, ~Ended(t), iteration'[t] = iteration[t],
           Stage(t)' = Stage(t), reply[t] # <<>>, Answer(t)
    PROVE  Nearer(t)
<1>1. reply[t] \in Seq(Classes) /\ reply'[t] = Tail(reply[t])
  BY DEF OpenInv, Answer
<1>2. Len(Tail(reply[t])) < Len(reply[t])
  BY <1>1
<1> QED
  BY <1>1, <1>2 DEF Nearer

LEMMA StartsNearer ==
    ASSUME Typed, NEW t \in Turns, Starts(t)
    PROVE  Nearer(t)
<1> USE DEF Typed, TypedTurn
<1>1. phase[t] = "idle" /\ ~Ended(t) /\ Stage(t) = 2 /\ Rank(t) = 6
  BY DEF Starts, Send, Confirm, Resume, GoesOn, Returns, Goes, Ended, Stage, Rank
<1>2. phase'[t] \in {"clear", "load", "done", "rejected"}
  BY DEF Starts, Send, Confirm, Resume, GoesOn, Returns, Goes
<1>3. CASE phase'[t] \in {"done", "rejected"}
  BY <1>1, <1>3, NearerIfOver DEF Ended
<1>4. CASE phase'[t] \in {"clear", "load"}
  <2>1. Stage(t)' = 2 /\ Rank(t)' < 6
    BY <1>4 DEF Stage, Rank
  <2>2. iteration' = iteration /\ reply' = reply
    BY <1>4 DEF Starts, Send, Confirm, Resume, GoesOn, Returns, Goes, Begins
  <2> QED
    BY <1>1, <2>1, <2>2, NearerByRank
<1> QED
  BY <1>2, <1>3, <1>4

LEMMA ProceedsNearer ==
    ASSUME OpenInv, NEW t \in Turns, Proceeds(t)
    PROVE  Nearer(t)
<1> USE DEF OpenInv, Typed, TypedTurn
<1>1. ~Ended(t)
  BY StepNotOver DEF Step, Ended
<1>2. CASE Clear(t)
  <2>1. Stage(t) = 2 /\ Stage(t)' = 2 /\ Rank(t) = 5 /\ Rank(t)' = 4
    BY <1>2 DEF Clear, Goes, Stage, Rank
  <2> QED
    BY <1>1, <1>2, <2>1, NearerByRank DEF Clear, turn
<1>3. CASE Load(t)
  <2>1. /\ phase[t] = "load" /\ iteration' = iteration /\ reply' = reply
        /\ subject' = subject
        /\ phase'[t] = IF subject[t].seed THEN "act" ELSE "call"
    BY <1>3 DEF Load, Goes
  <2>2. CASE subject[t].seed
    <3>1. Stage(t) = 2 /\ Stage(t)' = 2 /\ Rank(t) = 4 /\ Rank(t)' = 0
      BY <2>1, <2>2 DEF Stage, Rank
    <3> QED
      BY <1>1, <2>1, <3>1, NearerByRank
  <2>3. CASE ~subject[t].seed
    <3>1. Stage(t) = 2 /\ Stage(t)' = 0
      BY <2>1, <2>3 DEF Stage
    <3> QED
      BY <1>1, <2>1, <3>1 DEF Nearer
  <2> QED
    BY <2>2, <2>3
<1>4. CASE Call(t)
  <2>1. CASE Returns(t, "call", history[t])
    BY <1>1, <2>1, NearerIfOver DEF Returns, Goes, Ended
  <2>2. CASE ~Returns(t, "call", history[t])
    <3>1. iteration'[t] = iteration[t] + 1
      BY <1>4, <2>2 DEF Call
    <3> QED
      BY <1>1, <3>1 DEF Nearer
  <2> QED
    BY <2>1, <2>2
<1>5. CASE Block(t) \/ Read(t)
  <2>1. /\ phase[t] = "use" /\ phase'[t] \in {"use", "put"} /\ reply[t] # <<>>
        /\ Answer(t) /\ iteration' = iteration
    BY <1>5 DEF Block, Read, Goes
  <2>2. Stage(t) = 1 /\ Stage(t)' = 1
    BY <2>1 DEF Stage
  <2> QED
    BY <1>1, <2>1, <2>2, NearerByUse
<1>6. CASE Put(t)
  <2>1. Stage(t) = 1 /\ Stage(t)' = 1 /\ Rank(t) = 4 /\ Rank(t)' = 3
    BY <1>6 DEF Put, Goes, Stage, Rank
  <2> QED
    BY <1>1, <1>6, <2>1, NearerByRank DEF Put
<1>7. CASE Propose(t)
  <2>1. /\ phase[t] = "use" /\ phase'[t] \in {"burn", "act"} /\ ~subject'[t].seed
        /\ iteration' = iteration /\ reply' = reply
    BY <1>7 DEF Propose, Goes
  <2>2. Stage(t) = 1 /\ Stage(t)' = 1 /\ Rank(t) = 3 /\ Rank(t)' < 3
    BY <2>1 DEF Stage, Rank
  <2> QED
    BY <1>1, <2>1, <2>2, NearerByRank
<1>8. CASE Burn(t) \/ Again(t)
  <2>1. /\ \/ phase[t] = "burn" /\ phase'[t] \in {"again", "act"}
           \/ phase[t] = "again" /\ phase'[t] = "act"
        /\ iteration' = iteration /\ reply' = reply
    BY <1>8 DEF Burn, Again, Goes, turn
  <2>2. subject'[t].seed = subject[t].seed
    BY <1>8 DEF Burn, Again, turn, Subjects
  <2>3. Stage(t)' = Stage(t) /\ Rank(t)' < Rank(t)
    BY <2>1, <2>2 DEF Stage, Rank
  <2> QED
    BY <1>1, <2>1, <2>3, NearerByRank
<1>9. CASE Act(t)
  <2>1. CASE Pauses(t)
    BY <1>1, <1>9, <2>1, NearerIfOver DEF Act, Returns, Goes, Ended
  <2>2. CASE ~Pauses(t) /\ subject[t].seed
    <3>1. phase[t] = "act" /\ phase'[t] = "call" /\ iteration' = iteration
      BY <1>9, <2>2 DEF Act, GoesOn, Goes
    <3>2. Stage(t) = 2 /\ Stage(t)' = 0
      BY <2>2, <3>1 DEF Stage
    <3> QED
      BY <1>1, <3>1, <3>2 DEF Nearer
  <2>3. CASE ~Pauses(t) /\ ~subject[t].seed
    <3>1. /\ phase[t] = "act" /\ phase'[t] = "use" /\ iteration' = iteration
          /\ Answer(t)
      BY <1>9, <2>3 DEF Act, GoesOn, Goes
    <3>2. Stage(t) = 1 /\ Stage(t)' = 1
      BY <2>3, <3>1 DEF Stage
    <3>3. reply[t] # <<>>
      BY <2>3, <3>1 DEF TurnInv, InReply, ReplyInv
    <3> QED
      BY <1>1, <3>1, <3>2, <3>3, NearerByUse
  <2> QED
    BY <2>1, <2>2, <2>3
<1>10. CASE FeedBack(t)
  <2>1. phase[t] = "use" /\ phase'[t] = "call" /\ iteration' = iteration
    BY <1>10 DEF FeedBack, GoesOn, Goes
  <2>2. Stage(t) = 1 /\ Stage(t)' = 0
    BY <2>1 DEF Stage
  <2> QED
    BY <1>1, <2>1, <2>2 DEF Nearer
<1> QED
  BY <1>2, <1>3, <1>4, <1>5, <1>6, <1>7, <1>8, <1>9, <1>10 DEF Proceeds

\* Every step but the expiry of the flag brings one turn nearer to its end and
\* leaves the others where they are: no turn goes round without using up an
\* iteration, of which TypeCorrect allows maxIterations, or handling a use of its
\* reply.  (runLoop, the loop over the tool uses of a reply)
THEOREM TurnsEnd ==
    Spec => [][FlagExpires \/ \E t \in Turns : /\ Nearer(t)
                                               /\ \A s \in Turns \ {t} : Same(s)]_vars
<1>1. OpenInv /\ [Next]_vars =>
        [FlagExpires \/ \E t \in Turns : /\ Nearer(t)
                                         /\ \A s \in Turns \ {t} : Same(s)]_vars
  <2> SUFFICES ASSUME OpenInv, Next
               PROVE  FlagExpires \/ \E t \in Turns : /\ Nearer(t)
                                                      /\ \A s \in Turns \ {t} : Same(s)
    OBVIOUS
  <2>1. CASE ~FlagExpires
    <3>1. PICK t \in Turns : Step(t)
      BY <2>1, NextIsStep
    <3>2. Nearer(t)
      <4>1. CASE Dies(t)
        BY <4>1, NearerIfOver DEF Dies, Ended, OpenInv, Typed, TypedTurn
      <4> QED
        BY <3>1, <4>1, StartsNearer, ProceedsNearer DEF Step, OpenInv
    <3>3. \A s \in Turns \ {t} : Same(s)
      BY <3>1, StepIsLocal, ReplyStep DEF Same, OpenInv
    <3> QED
      BY <3>2, <3>3
  <2> QED
    BY <2>1
<1> QED
  BY <1>1, OpenInductive, PTL DEF Spec
================================================================================
