SPECIFICATION FairSpec
CONSTANTS
    Requests = {r1, r2}
    Replicas = {p1, p2}
    Vessels = {v1}
    Fleets = {f1, f2}
    Equipment = {e1}
    NoFleet = NoFleet
    NoRow = NoRow
    Unknown = Unknown
    r1 = r1
    r2 = r2
    p1 = p1
    p2 = p2
    v1 = v1
    v2 = v2
    f1 = f1
    f2 = f2
    e1 = e1
    VesselOf <- MCVesselOf
INVARIANTS
    RepliesAreTrue
    BoardIsCurrent
PROPERTIES
    OwnedAtEffect
    ImplementsLedger
    Answered
CHECK_DEADLOCK FALSE
