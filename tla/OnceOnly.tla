------------------------------- MODULE OnceOnly -------------------------------
(***************************************************************************)
(* What the execution ledger promises for an intent hash: its side effect  *)
(* is performed at most once, and only while the hash is held.  A hash may *)
(* be handed back as long as nobody performed its effect; afterwards it    *)
(* stays held.  Who holds it, how the claim is recorded and what is        *)
(* audited are left to the specifications that implement this one.         *)
(***************************************************************************)
CONSTANTS Hashes, Performers

VARIABLES
    held,  \* is the hash taken?
    by     \* who performed its effect

TypeOK ==
    /\ held \in [Hashes -> BOOLEAN]
    /\ by \in [Hashes -> SUBSET Performers]

Init ==
    /\ held = [h \in Hashes |-> FALSE]
    /\ by = [h \in Hashes |-> {}]

Acquire(h) ==
    /\ ~held[h] /\ by[h] = {}
    /\ held' = [held EXCEPT ![h] = TRUE]
    /\ UNCHANGED by

GiveBack(h) ==
    /\ held[h] /\ by[h] = {}
    /\ held' = [held EXCEPT ![h] = FALSE]
    /\ UNCHANGED by

Perform(h, c) ==
    /\ held[h] /\ by[h] = {}
    /\ by' = [by EXCEPT ![h] = {c}]
    /\ UNCHANGED held

Next ==
    \E h \in Hashes :
        Acquire(h) \/ GiveBack(h) \/ \E c \in Performers : Perform(h, c)

Spec == Init /\ [][Next]_<<held, by>>

===============================================================================
