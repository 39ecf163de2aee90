\* The metrics sink throws between the claim and the try block.
SPECIFICATION Spec
CONSTANTS
    Calls = {c1, c2}
    Hashes = {h1}
    NoCall = NoCall
    HasRelease = TRUE
    Faults = {"telemetry"}
INVARIANT OnlyEmitPropagates
SYMMETRY Symmetry
CHECK_DEADLOCK FALSE
