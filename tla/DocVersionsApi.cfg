SPECIFICATION FairSpec
\* Clients may stop sending requests.
CHECK_DEADLOCK FALSE
CONSTANTS
    Docs = {d1}
    Contents = {c1, c2}
    Requests = {r1, r2}
    Bucket = Bucket
    Nobody = Nobody
    Nothing = Nothing
    Handlers <- ApiHandlers
    ClusterLock = TRUE
    SessionsBreak = FALSE
    MaxRows = 2
INVARIANTS
    HistoryComplete
    ReferencedContentPresent
    NoLostUpdate
PROPERTIES
    ImplementsVersionHistory
    EveryRequestAnswered
