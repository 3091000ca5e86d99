SPECIFICATION Spec
\* Clients may stop sending requests.
CHECK_DEADLOCK FALSE
CONSTANTS
    Docs = {d1}
    Contents = {c1, c2}
    Requests = {r1, r2}
    Bucket = Bucket
    Nobody = Nobody
    Nothing = Nothing
    Handlers <- AllHandlers
    ClusterLock = TRUE
    SessionsBreak = TRUE
    MaxRows = 2
SYMMETRY Symmetry
INVARIANTS
    TypeOK
    SnapshotsTruthful
    AcknowledgedUpdateApplied
PROPERTY
    DeletedFrozen
