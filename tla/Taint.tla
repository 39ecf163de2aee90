--------------------------------- MODULE Taint ---------------------------------
(***************************************************************************)
(* The taint lattice of @adjudicate/core: levels of trust, their meet, the *)
(* gate on a proposal and the contamination of a session by what it reads. *)
(***************************************************************************)
EXTENDS Integers

Taints == {"UNTRUSTED", "TRUSTED", "SYSTEM"}
Origins == {"Human", "Retrieved", "ExternalAPI", "LLM", "System"}

Rank == [t \in Taints |->
            IF t = "UNTRUSTED" THEN 1 ELSE IF t = "TRUSTED" THEN 2 ELSE 3]

\* Lattice meet: the lower trust wins.
MergeTaint(a, b) == IF Rank[a] <= Rank[b] THEN a ELSE b

IsContaminating(origin) == origin \in {"Retrieved", "ExternalAPI"}

\* A taint policy gives the minimum for the intent kind and says whether the
\* kind wants an origin that is not contaminating.
TaintPolicies == [minimum : Taints, uncontaminated : BOOLEAN]

CanPropose(taint, policy) == Rank[taint] >= Rank[policy.minimum]

CanProposeWithOrigin(taint, origin, policy) ==
    /\ CanPropose(taint, policy)
    /\ ~(policy.uncontaminated /\ IsContaminating(origin))

\* The flag of a session: absent, or the meet of what contaminated it.
NoFlag == [taint |-> "none"]
Flags == [taint : Taints] \cup {NoFlag}

ContaminateSession(flag, datum) ==
    IF ~IsContaminating(datum.origin) THEN flag
    ELSE IF flag = NoFlag THEN [taint |-> datum.taint]
    ELSE [taint |-> MergeTaint(flag.taint, datum.taint)]

ApplySessionContamination(declared, flag) ==
    IF flag = NoFlag THEN declared ELSE MergeTaint(declared, flag.taint)
================================================================================
