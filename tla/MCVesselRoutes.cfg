SPECIFICATION Spec
CONSTANTS
    Requests = {r1, r2}
    Replicas = {p1}
    Fleets = {f1, f2}
    Imos = {i1, i2}
    Seeded = {v1}
    SeedRow <- MCSeedRow
    Names = {n1, n2}
    Bodies <- MCBodies
    Keep = Keep
    NoFleet = NoFleet
    Absent = Absent
    r1 = r1
    r2 = r2
    p1 = p1
    f1 = f1
    f2 = f2
    i1 = i1
    i2 = i2
    v1 = v1
    n1 = n1
    n2 = n2
SYMMETRY Symmetry
CHECK_DEADLOCK FALSE
INVARIANTS
    NoPhantom
    AuditIsDurable
PROPERTIES
    OwnFleetOnly
