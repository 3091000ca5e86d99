SPECIFICATION Spec
CONSTANTS
    N = 4
    Moment <- MCMoment
    Asked <- MCAsked
    DefaultPageLimit = 2
    MaxPageLimit = 3
    WebDefault = 1
    WebMax = 2
    Matching = {1, 3, 4}
    Tagged = {2, 3, 4}
INVARIANTS
    QuietWalkExact
    NoneSkipped
    NoneTwice
