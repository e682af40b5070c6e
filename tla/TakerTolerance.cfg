\* Reads within a tolerance of the fills count as showing them.
SPECIFICATION Spec
CONSTANTS
    Clip = 5
    Tolerance = 1
    MinRetry = 4
    MaxLoss = 1
    MaxCloses = 3
    LagBounded = TRUE
    MaxExecutions = 1
    MaxOrders = 5
    MaxOutside = 0
PROPERTIES
    NextCloseOnce
