SPECIFICATION Spec
CONSTANTS
    Vessels <- MCVessels
    FleetOf <- MCFleetOf
    NoFleet = NoFleet
    Omitted = Omitted
    Voyages <- MCVoyages
    VesselOf <- MCVesselOf
    Surveyed = {v1}
    Conns = {c1, c2}
    Users <- MCUsers
    Nobody <- MCNobody
    Workloads <- MCWorkloads
    AiMax = 1
    ApiMax = 2
    AuthMax = 1
    MaxFeed = 2
    Idle = Idle
    v1 = v1
    v2 = v2
    v3 = v3
    f1 = f1
    f2 = f2
    e1 = e1
    e3 = e3
    y1 = y1
    y3 = y3
    m1 = m1
    c1 = c1
    c2 = c2
CHECK_DEADLOCK FALSE
INVARIANTS
    AboutTheVesselNamed
