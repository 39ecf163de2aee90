\* Two replicas, one that separates duties; a quorum of two.  No symmetry:
\* liveness.
SPECIFICATION FairSpec
CONSTANTS
    r1 = r1  r2 = r2  maker = maker  a = a  b = b
    NoCall = NoCall  NoRow = NoRow
    MaxCalls = 3
    Replicas = {r1, r2}
    Approvers = {maker, a, b}
    Maker = maker
    Quorum = 2
    FourEyes = {r1}
    Faults = {"crash", "expiry", "throws", "drift"}
INVARIANTS
    QuorumBehindEffect
    VotesKept
    DeclineIsFinal
PROPERTIES
    ResolvedStays
    ImplementsOnceOnly
    ResolveSettles
CHECK_DEADLOCK FALSE
