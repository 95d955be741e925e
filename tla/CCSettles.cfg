SPECIFICATION FairSpec
CONSTANTS
    MaxTxn = 3
    Scenarios <- Progress
PROPERTIES
    OperationsSettle
CHECK_DEADLOCK FALSE
