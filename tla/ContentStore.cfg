SPECIFICATION Spec
CONSTANTS
    Puts = {p1, p2, p3}
    Contents = {c1, c2}
    Nothing = Nothing
    Backends = {"local", "s3", "gcs", "azure"}
INVARIANTS
    TempsReclaimed
PROPERTY
    ImplementsBlobStore
