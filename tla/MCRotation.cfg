\* One family, rotated, replayed, recovered, revoked: time is the dimension.
SPECIFICATION Spec
CONSTANTS
    Auths = {a1}
    Users = {u1}
    Installations = {i1}
    Txns = {t1, t2, t3}
    NoUser = NoUser
    NoTxn = NoTxn
    AuthorizationTtl = 2
    PollInterval = 1
    AccessTtl = 1
    RefreshSlidingTtl = 2
    RefreshAbsoluteTtl = 3
    IdempotencyTtl = 1
    Retention = 2
    MaxActiveAuthorizations = 1
    CleanupLimit = 1
    MaxGeneration = 2
    MaxTime = 4
    MaxNextPoll = 4
    MaxLag = 1
SYMMETRY Symmetry
CHECK_DEADLOCK FALSE
INVARIANTS
    LivesItsTime
    TypeOK
    Lineage
    SupersededTokensDie
    OneHolder
    LeaseAgreement
PROPERTIES
    RevocationFinal
    FreshGrantsAreLive
    FamiliesRefine
