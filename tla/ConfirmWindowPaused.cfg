CONSTANTS
    BlockedConfirm = 2
    ResumeConfirm = 2
    SwitchHeadroomClips = 2
    SwitchMarginClips = 2
    ResumeHeadroomClips = 3
    ResumeMarginClips = 3
    NearFlatNotional = 0
    DefaultClip = 1
    Unknown = Unknown
    NoReport = NoReport
    TakerReports <- MCTakerReports
    XemmReports <- MCXemmReports
    MaxStatusFailures = 1
    StableTicks = 2
    CrashLoopExits = 1
    BurstFresh = 0
    LeaseTicks = 1
    LeaseMaxTicks = 1
    MinExtension = 0
    MaxAge = 2
    ObserverEnabled = FALSE
    CanCrash = FALSE
    DiskFails = FALSE
    CountsPaused = TRUE
SPECIFICATION WSpec
PROPERTIES StaysBlocked
