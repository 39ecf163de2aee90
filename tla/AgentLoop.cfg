\* Turns of one session that overlap, with every fault.
SPECIFICATION Spec

CONSTANTS
    Replies <- OneOfEach
    Sizes <- ChainOrLoop
    Limit = 1
    Faults = {"dies", "expires", "store", "drift"}
    None = None

INVARIANTS
    NoLaunder
    
    
    AnsweredBeforeNextCall

CHECK_DEADLOCK FALSE
