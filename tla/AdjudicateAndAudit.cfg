\* Two concurrent attempts on two hashes, every fault.  No symmetry: liveness.
SPECIFICATION FairSpec
CONSTANTS
    Calls = {c1, c2}
    Hashes = {h1, h2}
    NoCall = NoCall
    HasRelease = TRUE
    Faults = {"ledger_io", "telemetry", "crash"}
INVARIANTS
    TypeOK
    AtMostOnce
    EffectIsCovered
    CountedWhileItMayRun
    NoSilentOrphan
PROPERTIES
    OnlyOwnerReleases
    ImplementsOnceOnly
    ClaimIsResolved
CHECK_DEADLOCK FALSE
