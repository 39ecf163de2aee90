\* A signal handled twice and two approvals, with and without a ledger, while
\* the incident changes and every awaited call may throw.
SPECIFICATION FairSpec
CONSTANTS
    h1 = h1  h2 = h2  r1 = r1  r2 = r2  n1 = n1
    Handles = {h1, h2}
    Resolves = {r1, r2}
    Signals = {n1}
    Radii <- InterestingRadii
    MaxPasses = 4
    NoCall = NoCall
    Faults = {"throw"}
INVARIANTS
    OnePerNonce
    BlastRadiusBounded
    
PROPERTIES
    ClaimLeadsToRun
CHECK_DEADLOCK FALSE
