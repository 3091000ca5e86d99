SPECIFICATION ServerSpec
CONSTANTS
    Requests = {q1, q2}
    Served <- MCServed
INVARIANTS
    DrainedBeforeClose
    EventsTell
PROPERTIES
    StopEnds
