SPECIFICATION Spec
CONSTANTS
    Keys = {"a", "b"}
    TaskSeq <- ThreeRuns
    Realtime = {"r1"}
    Loads = {"l1", "l2"}
    Scenarios <- Scenes
INVARIANTS
    OneHolderEach
    PartsOfRoute
    WritesSurviveLoads
CHECK_DEADLOCK FALSE
