SPECIFICATION Spec
CONSTANTS
    c1 = c1
    c2 = c2
    width = width
    height = height
    Requests = {r1, r2}
    Contents = {c1, c2}
    Keys = {width, height}
    SysKeys = {}
    Extracted <- FoundInImages
    Handlers <- MCHandlers
    User = User
    Absent = Absent
    Nobody = Nobody
    NoKey = NoKey
INVARIANTS
    ReplacesNeverMix
    ExtractionCurrent
    OnlyUploadsDeadlock
