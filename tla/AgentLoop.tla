------------------------------- MODULE AgentLoop -------------------------------
(***************************************************************************)
(* The agent loop of @adjudicate/adapter-core for one session: send(),     *)
(* confirm() and resume() each run a turn, and a turn calls the model, puts *)
(* the tool uses of its reply through the kernel and feeds the results     *)
(* back, until the model is done, a decision pauses the turn or the        *)
(* iterations are used up.                                                 *)
(*                                                                         *)
(* Turns of a session overlap: a user writes while a webhook resumes.  Of  *)
(* a conversation the model keeps which retrieved data it holds and which  *)
(* tool uses it leaves without a result.  The kernel's decision about a    *)
(* use is any decision.  REWRITE goes the way of EXECUTE.                   *)
(***************************************************************************)
EXTENDS Naturals, Sequences, FiniteSets

CONSTANTS
    Replies,       \* the model's replies: sequences of classes of tool uses
    Sizes,         \* bound on the turns of a session, and maxIterations
    Limit,         \* limit of the budget grant
    Faults,        \* faults a run admits
    None           \* nobody, nothing

Classes == {"blocked", "read", "intent"}

ASSUME ConstantsAssumption ==
    /\ Replies \subseteq Seq(Classes)
    /\ Sizes \subseteq (Nat \ {0}) \X (Nat \ {0})
    /\ IsFiniteSet(Sizes)
    /\ Limit \in Nat
    /\ Faults \subseteq {"dies", "expires", "store", "drift"}

\* Turns are numbered in the order in which they begin.
Turns == UNION {1 .. n[1] : n \in Sizes}
Iterations == UNION {1 .. n[2] : n \in Sizes}

Lengths == {Len(r) : r \in Replies}

\* A tool use: the turn and the iteration of the reply, and its place in it.
Uses == Turns \X Iterations \X UNION {1 .. n : n \in Lengths}

ASSUME NoneAssumption == None \notin Turns \X Nat \X Nat

\* A conversation: the reads whose data it holds, the uses without a result.
Histories == [data : SUBSET Uses, open : SUBSET Uses]
EmptyHistory == [data |-> {}, open |-> {}]

Decisions == {"EXECUTE", "REFUSE", "REQUEST_CONFIRMATION", "DEFER", "ESCALATE"}

VARIABLES
    size,      \* the element of Sizes
    phase,     \* the await at which each turn stands
    history,   \* the turn's history
    iteration, \* replies the turn has had
    reply,     \* tool uses of the reply that are still to be handled
    answered,  \* uses of the reply with a result
    served,    \* those among them whose result is retrieved data
    flag,      \* sessionContamination of the turn
    subject,   \* the intent the turn works on
    stored,    \* the session's flag in the contamination store
    pending,   \* confirmation store: the use and the history of each token
    parked,    \* the parked use
    budget,    \* units burnt of the grant
    held,      \* the histories the host has been given
    kept,      \* reads whose flag was written and since neither cleared nor expired
    redeemed,  \* uses whose token was taken
    effects    \* the executor's runs

turn == <<history, iteration, reply, answered, served, flag, subject>>
stores == <<stored, pending, parked, budget>>
record == <<held, kept, redeemed, effects>>
vars == <<size, phase, turn, stores, record>>

Nothing == [use |-> None, decision |-> "REFUSE", by |-> "kernel",
            seed |-> FALSE, stamped |-> FALSE]

MaxTurns == size[1]
MaxIterations == size[2]

TypeOK ==
    /\ size \in Sizes
    /\ phase \in [Turns -> {"idle", "clear", "load", "call", "use", "put", "burn",
                            "again", "act", "done", "rejected"}]
    /\ history \in [Turns -> Histories]
    /\ iteration \in [Turns -> 0 .. MaxIterations]
    /\ reply \in [Turns -> Seq(Classes)]
    /\ answered \in [Turns -> SUBSET Uses]
    /\ served \in [Turns -> SUBSET Uses]
    /\ flag \in [Turns -> BOOLEAN]
    /\ subject \in [Turns -> [use : Uses \cup {None}, decision : Decisions,
                              by : {"kernel", "grant", "receipt"},
                              seed : BOOLEAN, stamped : BOOLEAN]]
    /\ stored \in BOOLEAN
    /\ pending \subseteq [use : Uses, history : Histories]
    /\ parked \in Uses \cup {None}
    /\ budget \in 0 .. Limit
    /\ held \subseteq Histories
    /\ kept \subseteq Uses
    /\ redeemed \subseteq Uses
    /\ effects \subseteq Turns \X Uses \X {"kernel", "grant", "receipt"}

Init ==
    /\ size \in Sizes
    /\ phase = [t \in Turns |-> "idle"]
    /\ history = [t \in Turns |-> EmptyHistory]
    /\ iteration = [t \in Turns |-> 0]
    /\ reply = [t \in Turns |-> <<>>]
    /\ answered = [t \in Turns |-> {}]
    /\ served = [t \in Turns |-> {}]
    /\ flag = [t \in Turns |-> FALSE]
    /\ subject = [t \in Turns |-> Nothing]
    /\ stored = FALSE
    /\ pending = {}
    /\ parked = None
    /\ budget = 0
    /\ held = {EmptyHistory}
    /\ kept = {}
    /\ redeemed = {}
    /\ effects = {}

Goes(t, from, to) ==
    /\ phase[t] = from
    /\ phase' = [phase EXCEPT ![t] = to]

\* The locals of a turn that is over are gone.
Ends(t) ==
    /\ history' = [history EXCEPT ![t] = EmptyHistory]
    /\ iteration' = [iteration EXCEPT ![t] = 0]
    /\ reply' = [reply EXCEPT ![t] = <<>>]
    /\ answered' = [answered EXCEPT ![t] = {}]
    /\ served' = [served EXCEPT ![t] = {}]
    /\ flag' = [flag EXCEPT ![t] = FALSE]
    /\ subject' = [subject EXCEPT ![t] = Nothing]

\* The turn returns a history to its caller, or goes on.
Returns(t, from, h) == Goes(t, from, "done") /\ held' = held \cup {h} /\ Ends(t)
GoesOn(t, from, to) == Goes(t, from, to) /\ UNCHANGED held

Begins(t, h, seed) ==
    /\ history' = [history EXCEPT ![t] = h]
    /\ subject' = [subject EXCEPT ![t] = seed]
    /\ UNCHANGED <<iteration, reply, answered, served, flag>>

Seed(u, decision, by) ==
    [use |-> u, decision |-> decision, by |-> by, seed |-> TRUE,
     stamped |-> FALSE]

-------------------------------------------------------------------------------
(* The calls of the host *)

\* send() with a history the host was given before.
Send(t) ==
    /\ Goes(t, "idle", "load")
    /\ \E h \in held : Begins(t, h, Nothing)
    /\ UNCHANGED <<stores, record>>

NotDeleted(token) == pending

\* What is left of the confirmation store once a token is taken.
Remaining(token) == pending \ {token}

\* confirm(): the token is used up before anything is verified or decided; a
\* yes is adjudicated with its receipt and continues where the token was made.
Confirm(t) ==
    \E token \in pending :
        /\ pending' = Remaining(token)
        /\ redeemed' = redeemed \cup {token.use}
        /\ \/ \E decision \in Decisions :
                 /\ GoesOn(t, "idle", "load")
                 /\ Begins(t, token.history, Seed(token.use, decision, "receipt"))
           \/ Returns(t, "idle", token.history)
           \/ /\ "drift" \in Faults
              /\ GoesOn(t, "idle", "rejected")
              /\ UNCHANGED turn
        /\ UNCHANGED <<stored, parked, budget, kept, effects>>

\* resume(): the parked intent, adjudicated as the system's own.
Resume(t) ==
    /\ parked # None
    /\ Goes(t, "idle", "clear")
    /\ parked' = None
    /\ \E h \in held, decision \in Decisions :
           Begins(t, h, Seed(parked, decision, "kernel"))
    /\ UNCHANGED <<stored, pending, budget, record>>

-------------------------------------------------------------------------------
(* The turn *)

\* contaminationStore.clear before the resumed turn; a failure leaves the flag.
Clear(t) ==
    /\ Goes(t, "clear", "load")
    /\ \/ stored' = FALSE /\ kept' = {}
       \/ "store" \in Faults /\ UNCHANGED <<stored, kept>>
    /\ UNCHANGED <<turn, pending, parked, budget, held, redeemed, effects>>

StartsClean == FALSE

\* The flag of earlier turns is read at the top of every turn.
Loaded == stored

Load(t) ==
    /\ Goes(t, "load", IF subject[t].seed THEN "act" ELSE "call")
    /\ flag' = [flag EXCEPT ![t] = Loaded]
    /\ UNCHANGED <<history, iteration, reply, answered, served, subject,
                   stores, record>>

UsesOf(t, i, r) == {<<t, i, k>> : k \in DOMAIN r}

\* bridge.send: a reply without tool uses ends the turn; so does the limit.
Call(t) ==
    \/ /\ iteration[t] < MaxIterations
       /\ \E r \in Replies :
              IF r = <<>>
              THEN Returns(t, "call", history[t])
              ELSE /\ GoesOn(t, "call", "use")
                   /\ iteration' = [iteration EXCEPT ![t] = @ + 1]
                   /\ reply' = [reply EXCEPT ![t] = r]
                   /\ history' = [history EXCEPT ![t].open =
                                      @ \cup UsesOf(t, iteration[t] + 1, r)]
                   /\ UNCHANGED <<answered, served, flag, subject>>
       /\ UNCHANGED <<stores, kept, redeemed, effects>>
    \/ /\ iteration[t] = MaxIterations
       /\ Returns(t, "call", history[t])
       /\ UNCHANGED <<stores, kept, redeemed, effects>>

\* The use whose turn it is.
Current(t) == <<t, iteration[t], Cardinality(answered[t]) + 1>>

\* A result for the use at hand, and the next one of the reply.
Answer(t) ==
    /\ answered' = [answered EXCEPT ![t] = @ \cup {Current(t)}]
    /\ reply' = [reply EXCEPT ![t] = Tail(@)]

\* makeOutOfPlanToolResult for a tool that is not in the plan.
Block(t) ==
    /\ reply[t] # <<>>
    /\ Head(reply[t]) = "blocked"
    /\ Goes(t, "use", "use")
    /\ Answer(t)
    /\ UNCHANGED <<history, iteration, served, flag, subject, stores, record>>

\* A read crosses the kernel and may be served; its data is then on its way
\* into the conversation.
Read(t) ==
    /\ reply[t] # <<>>
    /\ Head(reply[t]) = "read"
    /\ \/ Goes(t, "use", "use") /\ UNCHANGED served
       \/ /\ Goes(t, "use", "put")
          /\ served' = [served EXCEPT ![t] = @ \cup {Current(t)}]
    /\ Answer(t)
    /\ UNCHANGED <<history, iteration, flag, subject, stores, record>>

\* contaminationStore.put for every read served, a failure of which is
\* swallowed; the turn's own flag is raised in either case.
Put(t) ==
    /\ Goes(t, "put", "use")
    /\ flag' = [flag EXCEPT ![t] = TRUE]
    /\ \/ /\ stored' = TRUE
          /\ kept' = kept \cup served[t]
       \/ "store" \in Faults /\ UNCHANGED <<stored, kept>>
    /\ UNCHANGED <<history, iteration, reply, answered, served, subject,
                   pending, parked, budget, held, redeemed, effects>>

\* The envelope is minted, with the flag, and adjudicated.
Propose(t) ==
    /\ reply[t] # <<>>
    /\ Head(reply[t]) = "intent"
    /\ \E decision \in Decisions :
        /\ Goes(t, "use", IF decision = "REQUEST_CONFIRMATION" THEN "burn" ELSE "act")
        /\ subject' = [subject EXCEPT ![t] =
               [use |-> Current(t), decision |-> decision, by |-> "kernel",
                seed |-> FALSE, stamped |-> flag[t]]]
    /\ UNCHANGED <<history, iteration, reply, answered, served, flag,
                   stores, record>>

OneOver == budget <= Limit
InBudget == budget < Limit

\* runBudgetBurnDown: a unit of the grant, if there is a grant and a unit left.
Burn(t) ==
    /\ \/ InBudget /\ Goes(t, "burn", "again") /\ budget' = budget + 1
       \/ Goes(t, "burn", "act") /\ UNCHANGED budget
       \/ /\ "store" \in Faults
          /\ budget < Limit
          /\ Goes(t, "burn", "act")
          /\ budget' = budget + 1
    /\ UNCHANGED <<turn, stored, pending, parked, record>>

\* The same envelope adjudicated with the grant: the kernel asks no more, unless
\* about a rewrite, but it may refuse by now.
Again(t) ==
    /\ Goes(t, "again", "act")
    /\ \E decision \in {"EXECUTE", "REFUSE", "REQUEST_CONFIRMATION"} :
           subject' = [subject EXCEPT ![t].decision = decision, ![t].by = "grant"]
    /\ UNCHANGED <<history, iteration, reply, answered, served, flag,
                   stores, record>>

\* translateDecision.  The executor, or the gates in front of it, may fail.
Does(t) ==
    LET u == subject[t].use
        token == [use |-> u, history |-> history[t]]
    IN  CASE subject[t].decision = "EXECUTE" ->
                /\ effects' \in {effects, effects \cup {<<t, u, subject[t].by>>}}
                /\ UNCHANGED <<pending, parked>>
          [] subject[t].decision = "REQUEST_CONFIRMATION" ->
                /\ pending' = pending \cup {token}
                /\ UNCHANGED <<parked, effects>>
          [] subject[t].decision = "DEFER" ->
                /\ parked' \in {parked, u}
                /\ UNCHANGED <<pending, effects>>
          [] OTHER -> UNCHANGED <<pending, parked, effects>>

\* A park beyond the quota is answered and the turn goes on.
Pauses(t) ==
    \/ subject[t].decision \in {"REQUEST_CONFIRMATION", "ESCALATE"}
    \/ subject[t].decision = "DEFER" /\ parked' = subject[t].use

HandledOnly(t) == answered[t] \cup {Current(t)}

\* The uses of the reply at hand.  Those after one that pauses the turn get a
\* result too: not processed.
OfReply(t) == {u \in history[t].open : u[1] = t /\ u[2] = iteration[t]}

\* The results of a reply are appended to the history.
WithResults(t, uses) ==
    [data |-> history[t].data \cup served[t], open |-> history[t].open \ uses]

\* The use a seed answers: a resumption makes up an id that no reply has.
OfSeed(t) == IF subject[t].by = "receipt" THEN {subject[t].use} ELSE {}

\* The result of a seed goes into the history at once, that of a use of the
\* reply with the rest.
Act(t) ==
    LET seed == subject[t].seed
        h == WithResults(t, IF seed THEN OfSeed(t) ELSE OfReply(t))
    IN  /\ phase[t] = "act"
        /\ Does(t)
        /\ IF Pauses(t) THEN Returns(t, "act", h)
           ELSE /\ GoesOn(t, "act", IF seed THEN "call" ELSE "use")
                /\ IF seed
                   THEN /\ history' = [history EXCEPT ![t] = h]
                        /\ UNCHANGED <<reply, answered>>
                   ELSE Answer(t) /\ UNCHANGED history
                /\ subject' = [subject EXCEPT ![t] = Nothing]
                /\ UNCHANGED <<iteration, served, flag>>
        /\ UNCHANGED <<stored, budget, kept, redeemed>>

\* The results of a reply that nothing paused go back to the model.
FeedBack(t) ==
    /\ reply[t] = <<>>
    /\ GoesOn(t, "use", "call")
    /\ history' = [history EXCEPT ![t] = WithResults(t, answered[t])]
    /\ answered' = [answered EXCEPT ![t] = {}]
    /\ served' = [served EXCEPT ![t] = {}]
    /\ UNCHANGED <<iteration, reply, flag, subject, stores, kept, redeemed, effects>>

-------------------------------------------------------------------------------
(* Faults *)

\* The process dies, or the model or a store that is not guarded throws.
Dies(t) ==
    /\ "dies" \in Faults
    /\ phase[t] \notin {"idle", "done", "rejected"}
    /\ phase' = [phase EXCEPT ![t] = "rejected"]
    /\ Ends(t)
    /\ UNCHANGED <<stores, record>>

\* The time to live of the session's flag.
FlagExpires ==
    /\ "expires" \in Faults
    /\ stored
    /\ stored' = FALSE
    /\ kept' = {}
    /\ UNCHANGED <<phase, turn, pending, parked, budget, held, redeemed, effects>>

-------------------------------------------------------------------------------
Starts(t) ==
    /\ t <= MaxTurns
    /\ \A s \in 1 .. t - 1 : phase[s] # "idle"
    /\ Send(t) \/ Confirm(t) \/ Resume(t)

Proceeds(t) ==
    \/ Clear(t) \/ Load(t) \/ Call(t)
    \/ Block(t) \/ Read(t) \/ Put(t) \/ Propose(t) \/ Burn(t) \/ Again(t)
    \/ Act(t) \/ FeedBack(t)

Next ==
    /\ \/ \E t \in Turns : Starts(t) \/ Proceeds(t) \/ Dies(t)
       \/ FlagExpires
    /\ UNCHANGED size

Spec == Init /\ [][Next]_vars

-------------------------------------------------------------------------------
(* Properties *)

Working(t) == phase[t] \in {"burn", "again", "act"} /\ ~subject[t].seed

\* No intent is minted clean from a conversation that holds retrieved data: not
\* in the turn that read it, and not in a later or an overlapping turn as long
\* as the flag was written and has neither been cleared by a resumption nor
\* expired.  A turn in between that is confirmed, declined, refused or that dies
\* does not wash it.  (contaminationStore in runLoop and resume)
NoLaunder ==
    \A t \in Turns :
        Working(t) /\ ~subject[t].stamped =>
            /\ history[t].data \cap kept = {}
            /\ \A d \in history[t].data \cup served[t] : d[1] # t

\* A tool use runs at most once, over confirmation, deferral and resumption by
\* overlapping turns, and what has run waits for nothing any more.  (take before
\* the adjudication, resumeDeferredIntent)
RunsOnce ==
    /\ \A run1, run2 \in effects : run1[2] = run2[2] => run1 = run2
    /\ \A run \in effects :
        /\ run[2] # parked
        /\ \A token \in pending : token.use # run[2]

\* What the kernel asked about runs on a user's yes to a token, or on a unit of
\* the grant that nothing else has spent, however many turns burn it at once
\* and whatever became of the unit.  (runBudgetBurnDown)
AskedIsPaid ==
    /\ \A run \in effects : run[3] = "receipt" => run[2] \in redeemed
    /\ Cardinality({run \in effects : run[3] = "grant"}) <= Limit

Siblings(u) == {v \in Uses : v[1] = u[1] /\ v[2] = u[2]}

\* The model is called with every earlier tool use answered, except those of a
\* reply whose confirmation a user has answered.  ("Not processed: prior
\* tool_use paused this turn.")
AnsweredBeforeNextCall ==
    \A t \in Turns :
        phase[t] = "call" =>
            \A u \in history[t].open : Siblings(u) \cap redeemed # {}
================================================================================
