SPECIFICATION Spec
CONSTANTS
    Admins = {a1}
    Project = Project
    b1 = b1
    b2 = b2
    d1 = d1
    Buckets = {b1, b2}
    Documents = {d1}
    BucketOf <- MCBucketOf
    Every = Every
    Wild = {"bucket"}
    Calls <- MCCalls
    Levels = {"read"}
    Given <- MCGiven
    Mode = "open"
    MaxPageLimit = 2
INVARIANTS
    CascadeReaches
    AdmissionJustified
