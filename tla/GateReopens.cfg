\* One edge, and a window whose samples expire one by one.
SPECIFICATION GateSpec
CONSTANTS
    Edges = {1}
    Floor = 1
    Percent = 60
    Window = 2
    Interval = 1
    MinSamples = 1
    Capacity = 2
    Shadow = FALSE
    MaxTime = 5
    MaxRecorded = 3
PROPERTIES Reopens
CHECK_DEADLOCK FALSE
