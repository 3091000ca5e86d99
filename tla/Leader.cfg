SPECIFICATION FairElection
CONSTANTS
    Nodes = {n1, n2}
    Nobody = Nobody
INVARIANTS
    SoleLeader
    HolderKnows
    UnmarkedOnceStopped
PROPERTY
    LeaderEmerges
