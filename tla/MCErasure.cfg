\* The clean-up task erases every stored result: liveness, so no symmetry.
SPECIFICATION FairSpec
CONSTANTS
    Auths = {a1}
    Users = {u1}
    Installations = {i1}
    Txns = {t1, t2}
    NoUser = NoUser
    NoTxn = NoTxn
    AuthorizationTtl = 1
    PollInterval = 1
    AccessTtl = 1
    RefreshSlidingTtl = 2
    RefreshAbsoluteTtl = 2
    IdempotencyTtl = 1
    Retention = 2
    MaxActiveAuthorizations = 1
    CleanupLimit = 1
    MaxGeneration = 2
    MaxTime = 3
    MaxNextPoll = 2
    MaxLag = 0
CHECK_DEADLOCK FALSE
PROPERTIES
    ResultsErased
