\* Three parks, one of them unverifiable, and two deliveries, with and without
\* the script and the cycle cap, under every fault.  No symmetry: liveness.
SPECIFICATION FairSpec
CONSTANTS
    p1 = p1  p2 = p2  p3 = p3
    d1 = d1  d2 = d2
    i1 = i1  i2 = i2  s1 = s1  s2 = s2
    NoPark = NoPark
    Parks = {p1, p2, p3}
    Deliveries = {d1, d2}
    Intents = {i1}
    Signals = {s1, s2}
    Unverifiable = {p3}
    Quota = 1
    Caps = {0, 1}
    Faults = {"crash", "expiry", "swallowed"}
INVARIANTS
    ResumedOnce
    NoOverCommit
PROPERTIES
    RefusedOnlyAtQuota
    ImplementsOnceOnly
    DeliverySettles
CHECK_DEADLOCK FALSE
