SPECIFICATION Spec
CONSTANTS
    MaxGen = 9
    MaxSessions = 2
    MaxFaults = 2
    Disturbances = {"logout", "unauthorized"}
PROPERTIES
    VerdictMeetsItsSession
CHECK_DEADLOCK FALSE
