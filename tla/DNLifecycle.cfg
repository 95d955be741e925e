\* Any two disturbances, in any order, from every part of the system.
SPECIFICATION FairSpec
CONSTANTS
    MaxGen = 9
    MaxSessions = 2
    MaxFaults = 2
    Disturbances = {"suspend", "close", "logout", "revoke", "expire", "eof",
                    "unauthorized", "invalid", "network", "click", "write"}
INVARIANTS
    SessionsKeptApart
    MutationsSentOnce
PROPERTIES
    Reconnects
CHECK_DEADLOCK FALSE
