\* One signal, no fault.
SPECIFICATION Spec
CONSTANTS
    h1 = h1  h2 = h2  r1 = r1  r2 = r2  n1 = n1
    Handles = {h1}
    Resolves = {}
    Signals = {n1}
    Radii <- InterestingRadii
    MaxPasses = 4
    NoCall = NoCall
    Faults = {}
INVARIANT ClampExecutes
CHECK_DEADLOCK FALSE
