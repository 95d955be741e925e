SPECIFICATION Spec
CONSTANTS
    Keys = {"a", "b"}
    TaskSeq <- ThreeRuns
    Realtime = {"r1"}
    Loads = {"l1", "l2"}
    Scenarios <- PasteScene
INVARIANT AllPartsOfRoute
CHECK_DEADLOCK FALSE
