SPECIFICATION Spec
CONSTANTS
    MaxTxn = 5
    Scenarios <- Safety
INVARIANTS
    RecordInStep
    NeverReplays
    LogoutConfirmed
CHECK_DEADLOCK FALSE
