\* Whole legs, and REST positions that may lag for ever: the barrier and the batches; the
\* gate before an entry, the journal behind it, and the cells XEMM prices from.
SPECIFICATION TSpec
CONSTANTS
    Clip = 1
    Tolerance = 0
    MinRetry = 1
    MaxLoss = 1
    MaxCloses = 2
    LagBounded = FALSE
    MaxExecutions = 2
    MaxOrders = 4
    MaxOutside = 1
INVARIANTS
    IInv
    Barrier
    OneBatch
PROPERTIES
    OneAtATime
    LossStops
    EvidenceGrows
    EntriesAreBacked
    CellsArePriced
