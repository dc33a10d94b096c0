SPECIFICATION Spec
CONSTANTS
    m1 = m1
    m2 = m2
    Vessels = {m1, m2}
    Window = 1
    Latency = 2
    InitialDelay = 1
    MaxDelay = 3
    p1 = p1
    p2 = p2
    r1 = r1
    r2 = r2
    Points = {p1, p2}
    LastHour = 1
    Runs = {r1, r2}
    MaxRestarts = 1
    MaxManual = 1
    Fetching = Fetching
    Settled = Settled
    Sheets <- MCSheets
    Styles <- MCStyles
    FleetOfImo <- MCFleetOfImo
    Fleet = "ours"
    NoFleet = "none"
    Figure <- MCFigure
    MaxUploads = 2
    Deliveries <- MCDeliveries
    Unknown = Unknown
    NullIsland = NullIsland
    OffTheMap = OffTheMap
    IdleSpeed = 1
    IdleMin = 30
    MaxGap = 45
    MaxKnots = 50
    Day = 3600
    MaxBuilds = 2
CHECK_DEADLOCK FALSE
INVARIANTS
    OneStream
    LagIsBounded
    RoundTrip
    ReportIsTrue
    Represented
    EpisodesAreRuns
    DistanceIsPossible
PROPERTIES
    KeepsUp
    SelfHeals
