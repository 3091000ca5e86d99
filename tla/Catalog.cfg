SPECIFICATION Spec
CONSTANTS
    Requests = {r1, r2}
    Projects = {p1, p2}
    Buckets = {b1}
    Documents = {d1}
    Names = {n1, n2}
    Root = Root
    NoName = NoName
SYMMETRY Symmetric
INVARIANTS
    DeletionHides
    PathSeenTogether
    RenameAcknowledged
    NamesStayTaken
PROPERTIES
    RowsOnlyAge
