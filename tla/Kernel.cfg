\* Every envelope of one content, every answer of the guards that the order
\* tells apart: DEFER and ESCALATE are refusals here.
SPECIFICATION Spec
CONSTANTS
    b1 = b1  b2 = b2
    Bytes = {b1, b2}
    Levels = {"UNTRUSTED", "TRUSTED"}
    Sources = {"LLM", "Retrieved"}
    Answers = {"none", "throw", "EXECUTE", "REQUEST_CONFIRMATION", "REWRITE"}
    MaxCalls = 2
    Nothing = Nothing
INVARIANTS
    RunsAreAuthorised
    NeverElevates
    GateOnSubmission
CHECK_DEADLOCK FALSE
