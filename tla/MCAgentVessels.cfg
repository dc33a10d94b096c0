SPECIFICATION Spec
CONSTANTS
    Tools = {"compute_fuel", "get_route_info"}
    MaxSteps = 2
    MaxBlocks = 2
    Vessels = {v1, v2}
    NoResult = NoResult
    v1 = v1
    v2 = v2
INVARIANTS
    SeparatePerVessel
