CONSTANTS
    BlockedConfirm = 1
    ResumeConfirm = 1
    SwitchHeadroomClips = 2
    SwitchMarginClips = 2
    ResumeHeadroomClips = 3
    ResumeMarginClips = 3
    NearFlatNotional = 0
    DefaultClip = 1
    Unknown = Unknown
    NoReport = NoReport
    TakerReports <- MCTakerReports
    XemmReports <- MCXemmReports
    MaxStatusFailures = 1
    StableTicks = 2
    CrashLoopExits = 2
    BurstFresh = 0
    LeaseTicks = 1
    LeaseMaxTicks = 1
    MinExtension = 0
    MaxAge = 1
    ObserverEnabled = TRUE
    CanCrash = TRUE
    DiskFails = FALSE
SPECIFICATION FairSpec
INVARIANTS HaltLatched
PROPERTIES StopEnds PauseLifts ExpiredHandsBack
