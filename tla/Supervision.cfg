CONSTANTS
    BlockedConfirm = 2
    ResumeConfirm = 2
    SwitchHeadroomClips = 2
    SwitchMarginClips = 2
    ResumeHeadroomClips = 3
    ResumeMarginClips = 3
    NearFlatNotional = 0
    DefaultClip = 1
    Unknown = Unknown
    NoReport = NoReport
    TakerReports <- MCTakerReports
    XemmReports <- MCXemmReports
    MaxStatusFailures = 2
    StableTicks = 2
    CrashLoopExits = 2
    BurstFresh = 1
    LeaseTicks = 3
    LeaseMaxTicks = 5
    MinExtension = 1
    MaxAge = 2
    ObserverEnabled = TRUE
    CanCrash = TRUE
    DiskFails = FALSE
    CountsPaused = FALSE
SPECIFICATION WSpec
INVARIANTS IInv OneWriter NoObserverBesideTaker
PROPERTIES ImplementsRights LeaseTerm Sustained
