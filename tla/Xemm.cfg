\* Each of XEMM's models by itself, and the dry run's feed and servers.  Two orders of one
\* lot, a strategy at most two answers behind the worker, and one trouble.
SPECIFICATION XSpec
CONSTANTS
    None = None
    Equities <- MCEquities
    Limit = 1
    Samples = 3
    Streak = 2
    MaxReads = 6
    MaxSessions = 1
    MaxOrders = 2
    Lots = 1
    MaxEvents = 2
    MaxTroubles = 1
    Equity <- MCEquity
    Buffer <- MCBuffer
    Cap <- MCCap
    MinHedge = 2
    MaxQty = 2
    MaxPlaced = 2
    LeastHedge = 2
    Step = 1
    MaxFill = 3
    MaxAttempts = 3
INVARIANTS
    NoGhost
    Settles
    Accounted
    UnpricedIsSeen
    MarginHolds
PROPERTIES
    EndsClean
    QuotesHold
    DryRunServes
CHECK_DEADLOCK FALSE
