SPECIFICATION FairSpec
CONSTANTS
    Picks = {p1, p2, p3}
    Uploads = {u1, u2}
    Downloads = {d1, d2}
    Previews = {v1, v2}
    Contents = {a, b}
    Targets = {"plain", "encrypted"}
    SpoolLimit = 2
    VaultLimit = 1
    MaxActive = 1
    PreviewLimit = 1
    Scenarios <- AnyTransfers
INVARIANTS
    SpoolKept
    TransfersEndWithTheirPage
    FilesArriveWhole
PROPERTY Settles
CHECK_DEADLOCK FALSE
