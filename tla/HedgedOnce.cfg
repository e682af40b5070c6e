CONSTANTS
  LeastHedge = 2
  Step = 1
  MaxFill = 3
  MaxAttempts = 3
SPECIFICATION LedgerSpec
INVARIANT HedgedOnce
CHECK_DEADLOCK FALSE
