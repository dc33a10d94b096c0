SPECIFICATION Spec
CONSTANTS
    Frames <- MCFrames
    Parts = 2
    MaxQuestions = 3
    Recent = 2
    HistoryLimit = 4
    NoCall = NoCall
    Hello = Hello
    Notice = Notice
    Reason = Reason
    Tools = {"compute_fuel", "get_route_info"}
    MaxSteps = 2
    MaxBlocks = 2
    NoResult = NoResult
    Vessels <- MCVessels
    FleetOf <- MCFleetOf
    NoFleet = NoFleet
    Omitted = Omitted
    Voyages <- MCVoyages
    VesselOf <- MCVesselOf
    Surveyed = {v1}
    Fixtures <- MCFixtures
    BackendOf <- MCBackendOf
    Caller <- MCCaller
    Nobody = Nobody
    Flagged <- MCFlagged
    MaxAsks = 4
    Terms = {"", "a", "a ", "b"}
    Blank = ""
    ParamOf <- MCParamOf
    Statuses = {"all", "idle"}
    All = "all"
    Matches <- MCMatches
    PageSize = 2
    MaxTyped = 4
    v1 = v1
    v2 = v2
    x1 = x1
    x2 = x2
    f1 = f1
    e1 = e1
    e2 = e2
    x = x
CHECK_DEADLOCK FALSE
INVARIANTS
    ReadsTheBody
    ThreadsStayApart
    OneAnswer
    Conversation
    EventsTellTrace
    WithinBudget
    ReconciledUnlessFallback
    ShownIsSelected
    FailuresAreTold
    TableShowsTheTerm
PROPERTIES
    StopsWaiting
