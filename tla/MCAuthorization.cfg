\* Two authorizations and two users racing to decide, expire, exchange and
\* purge; families are not rotated here.
SPECIFICATION Spec
CONSTANTS
    Auths = {a1, a2}
    Users = {u1, u2}
    Installations = {i1}
    Txns = {t1, t2}
    NoUser = NoUser
    NoTxn = NoTxn
    AuthorizationTtl = 2
    PollInterval = 1
    AccessTtl = 1
    RefreshSlidingTtl = 1
    RefreshAbsoluteTtl = 1
    IdempotencyTtl = 1
    Retention = 1
    MaxActiveAuthorizations = 1
    CleanupLimit = 1
    MaxGeneration = 0
    MaxTime = 4
    MaxNextPoll = 4
    MaxLag = 1
SYMMETRY Symmetry
CHECK_DEADLOCK FALSE
INVARIANTS
    CapacityRespected
    ConsumedHasFamily
PROPERTIES
    RefusalFinal
