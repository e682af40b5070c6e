\* A crash between a retry and its record: what resolve-session accepts.
SPECIFICATION Spec
CONSTANTS
    Clip = 2
    Tolerance = 1
    MinRetry = 1
    MaxLoss = 1
    MaxCloses = 2
    LagBounded = TRUE
    MaxExecutions = 1
    MaxOrders = 4
    MaxOutside = 0
PROPERTIES
    ResolvesNamedOnly
