CONSTANTS
    Companies = {"acme", "nova"}
    Employees <- MCEmployees
    Requests = {r1, r2, r3}
    Workers = {w1, w2}
    MaxFaults = 1
    None = None
SPECIFICATION Spec
CHECK_DEADLOCK FALSE
INVARIANTS
    MarkerHasFiles
    DeployedIsWhole
    CowrieIsCurrent
    ErrorsHaveReasons
