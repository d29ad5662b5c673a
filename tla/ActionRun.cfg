SPECIFICATION Spec
CONSTANTS
    Heads = {h1, h2}
    NoHead = none
    Callers = {"action", "shell"}
    MaxAttempts = 3
INVARIANTS
    TypeOK
    ReceiptIsWhole
    GreenIsEarned
    ReportIsOfThisAttempt
    StatusHasReceipt
CHECK_DEADLOCK FALSE
