------------------------------- MODULE RateLimit -------------------------------
(***************************************************************************)
(* checkRateLimit, createRateLimitGuard and the in-memory store of         *)
(* @adjudicate/core, for one key: a request is counted before it is        *)
(* adjudicated, the guard reads the count it was given, and a request that *)
(* executes nothing gives its increment back.                              *)
(*                                                                         *)
(* Time is the expiry of the key's entry; the entries are numbered, and a  *)
(* window is the life of an entry.                                         *)
(***************************************************************************)
EXTENDS Naturals, FiniteSets

CONSTANTS
    Requests,
    Cap,        \* max
    MaxWindows  \* bound: how many windows are opened

ASSUME LimitAssumption ==
    /\ IsFiniteSet(Requests)
    /\ Cap \in Nat
    /\ MaxWindows \in Nat \ {0}

VARIABLES
    window,  \* the number of the key's entry, 0 before the first
    expired, \* its expiresAt has passed
    count,   \* its count
    pc,      \* where each request stands
    given,   \* the count a request was given
    opened,  \* the window it was counted in
    calls    \* how often its rollback hook was called

limitVars == <<window, expired, count, pc, given, opened, calls>>

Standings == {"idle", "counted", "executed", "unauthorized"}

LimitTypeOK ==
    /\ window \in 0..MaxWindows
    /\ expired \in BOOLEAN
    /\ count \in Nat
    /\ pc \in [Requests -> Standings]
    /\ given \in [Requests -> Nat]
    /\ opened \in [Requests -> 0..MaxWindows]
    /\ calls \in [Requests -> 0..2]

LimitInit ==
    /\ window = 0
    /\ expired = TRUE
    /\ count = 0
    /\ pc = [r \in Requests |-> "idle"]
    /\ given = [r \in Requests |-> 0]
    /\ opened = [r \in Requests |-> 0]
    /\ calls = [r \in Requests |-> 0]

-------------------------------------------------------------------------------
\* incrementAndGet: an absent or expired entry is replaced by a fresh one.
NextCount == IF expired THEN 1 ELSE count + 1

Check(r) ==
    /\ pc[r] = "idle"
    /\ expired => window < MaxWindows
    /\ pc' = [pc EXCEPT ![r] = "counted"]
    /\ window' = IF expired THEN window + 1 ELSE window
    /\ expired' = FALSE
    /\ count' = NextCount
    /\ given' = [given EXCEPT ![r] = NextCount]
    /\ opened' = [opened EXCEPT ![r] = window']
    /\ UNCHANGED calls

\* The guard lets a request pass that was given at most the cap; the rest of
\* the policy may refuse it all the same.
OffByOne(r) == given[r] > Cap + 1
Exceeded(r) == given[r] > Cap
Passes(r) == ~Exceeded(r)

Decide(r, verdict) ==
    /\ pc[r] = "counted"
    /\ verdict = "executed" => Passes(r)
    /\ pc' = [pc EXCEPT ![r] = verdict]
    /\ UNCHANGED <<window, expired, count, given, opened, calls>>

\* The rollback hook works once.
NotIdempotent(r) == TRUE
FirstCall(r) == calls[r] = 0

\* The store decrements the entry it finds, down to 0.
OneLess == IF count = 0 THEN 0 ELSE count - 1

\* The shell calls the hook of a request that executes nothing; so may its
\* caller, who was given the hook too.
Rollback(r) ==
    /\ pc[r] = "unauthorized"
    /\ calls[r] < 2
    /\ calls' = [calls EXCEPT ![r] = @ + 1]
    /\ count' = IF FirstCall(r) THEN OneLess ELSE count
    /\ UNCHANGED <<window, expired, pc, given, opened>>

\* A swallowed failure of the store: the hook is used up.
RollbackFails(r) ==
    /\ pc[r] = "unauthorized"
    /\ calls[r] = 0
    /\ calls' = [calls EXCEPT ![r] = 2]
    /\ UNCHANGED <<window, expired, count, pc, given, opened>>

\* windowMs have passed since the entry was made.
Expire ==
    /\ ~expired
    /\ window < MaxWindows
    /\ expired' = TRUE
    /\ UNCHANGED <<window, count, pc, given, opened, calls>>

LimitNext ==
    \/ \E r \in Requests :
        \/ Check(r) \/ Rollback(r) \/ RollbackFails(r)
        \/ \E verdict \in {"executed", "unauthorized"} : Decide(r, verdict)
    \/ Expire

LimitSpec == LimitInit /\ [][LimitNext]_limitVars

-------------------------------------------------------------------------------
(* Properties *)

ExecutedIn(w) == {r \in Requests : pc[r] = "executed" /\ opened[r] = w}

\* Requests whose increment was given back after their window had ended.
Stragglers(w) == {r \in Requests : opened[r] \in 1..w - 1 /\ calls[r] > 0}

\* No window executes more requests than the cap, whatever requests come, race
\* and roll back in it and however often a hook is called, save one for each
\* rollback that outlives its window.  (count > max, and the one-shot hook)
CapUpToStragglers ==
    \A w \in 1..MaxWindows :
        Cardinality(ExecutedIn(w)) <= Cap + Cardinality(Stragglers(w))

\* While the first window lasts the counter never forgets a request that
\* executed or still may, and never counts more requests than there were: what
\* it loses it loses to rolled back requests only.
CountCoversLive ==
    window = 1 =>
        /\ count >= Cardinality({r \in Requests :
                        pc[r] \in {"counted", "executed"}})
        /\ count <= Cardinality({r \in Requests : pc[r] # "idle"})
===============================================================================
