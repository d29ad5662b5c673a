SPECIFICATION Spec
CONSTANTS
    Heads = {h1, h2}
    NoHead = none
    Callers = {"action", "shell"}
    MaxAttempts = 1
INVARIANTS
    RefusalExitsTwo
CHECK_DEADLOCK FALSE
