\* A fleet that is half upgraded, under every fault.  No symmetry: liveness.
SPECIFICATION FairSpec
CONSTANTS
    old = old  new = new  o1 = o1  o2 = o2  o3 = o3
    Replicas = {old, new}
    Operators = {o1, o2, o3}
    PubSub = {new, o1, o2}
    Faults = {"redis_io", "lossy", "stop"}
INVARIANTS
    ShowsDurable
PROPERTIES
    PollersNeverRegress
    PollersStayQuiet
    Converges
CHECK_DEADLOCK FALSE
