\* Five racing requests over three windows.
SPECIFICATION LimitSpec
CONSTANTS
    Requests = {q1, q2, q3, q4, q5}
    Cap = 2
    MaxWindows = 3
SYMMETRY Symmetry
INVARIANTS
    
    CountCoversLive
CHECK_DEADLOCK FALSE
