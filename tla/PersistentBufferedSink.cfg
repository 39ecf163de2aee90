\* A queue of one and a storage of two, under every fault.
SPECIFICATION FairSpec
CONSTANTS
    MaxRecords = 5
    Capacity = 1
    MaxSize = 2
    Faults = {"inner", "ack", "append", "crash"}
INVARIANTS
    NoSilentLoss
    SuccessVouchesForThePast
    FirstArrivalsInOrder
PROPERTIES
    EmissionSettles
CHECK_DEADLOCK FALSE
