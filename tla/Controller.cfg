\* The controller's models, each by itself: thresholds, equity baseline, tailed files,
\* summary; and the dry run's matching and clock.
SPECIFICATION CSpec
CONSTANTS
    BlockedConfirm = 1
    ResumeConfirm = 1
    SwitchHeadroomClips = 1
    SwitchMarginClips = 1
    ResumeHeadroomClips = 2
    ResumeMarginClips = 2
    NearFlatNotional = 0
    DefaultClip = 1
    Unknown = Unknown
    NoReport = NoReport
    Reports <- MCReports
    XemmStatus <- MCXemmStatus
    None = None
    Equities <- MCEquities
    MaxLoss = 2
    MaxGap = 3
    PersistEvery = 2
    DiskFails = FALSE
    NoTrade = NoTrade
    Rows <- MCRows
    Trades <- MCTrades
    XemmImpacts <- MCXemmImpacts
    MaxCells = 6
    MaxSize = 2
    MaxTrims = 1
INVARIANTS NeverBoth BooksAreTrue
PROPERTIES HandBackCrossesBand LossesStop ReportIsTrue ExchangeIsFair
CHECK_DEADLOCK FALSE
