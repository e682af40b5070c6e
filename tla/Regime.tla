-------------------------------- MODULE Regime --------------------------------
(***************************************************************************)
(* The regime switch of controller/regime.rs: from the status reports of   *)
(* the two engines it decides which engine should hold the execution      *)
(* rights.  Pure operators; Supervisor.tla runs them.                      *)
(*                                                                         *)
(* A report is the record of the fields `decide` reads, with Unknown for a *)
(* number the lenient reader could not take (regime.rs: "anything else is  *)
(* unknown").  An empty JSON object never gets here: read_status only      *)
(* accepts a report that names the market.  Dollar amounts are integers in *)
(* a unit small enough for the comparisons; edges are in basis points.     *)
(***************************************************************************)
EXTENDS Integers

CONSTANTS
    BlockedConfirm,     \* ticks a normal taker must stay blocked
    ResumeConfirm,      \* ticks the taker must stay ready while XEMM is active
    SwitchHeadroomClips, SwitchMarginClips,   \* blocked below these many clips
    ResumeHeadroomClips, ResumeMarginClips,   \* ready again above these
    NearFlatNotional,   \* <= 0 means one clip
    DefaultClip,        \* the clip when a report names none
    Unknown,            \* a field that could not be read
    NoReport            \* the poll failed

\* ControllerCfg::validate: the hysteresis band.
ASSUME HysteresisBand ==
    /\ {SwitchHeadroomClips, SwitchMarginClips} \subseteq Nat
    /\ {ResumeHeadroomClips, ResumeMarginClips} \subseteq Nat
    /\ ResumeHeadroomClips > SwitchHeadroomClips
    /\ ResumeMarginClips > SwitchMarginClips
    /\ BlockedConfirm \in Nat /\ ResumeConfirm \in Nat
    /\ NearFlatNotional \in Int /\ DefaultClip \in Nat \ {0}
    /\ Unknown \notin Int

-----------------------------------------------------------------------------
(* Bots and modes                                                          *)

Bots  == {"taker", "xemm"}
Modes == {"normal", "reduce"}

Opportunity == [edge : Int \cup {Unknown}, effect : {"increase", "reduce"},
                limit : {"ok", "headroom", "margin", "depth"}]

TakerReport ==
    [required : Int, opportunities : SUBSET Opportunity, clip : Nat,
     headroom : Int \cup {Unknown}, available : Int \cup {Unknown},
     buffer : Int, position : Nat \cup {Unknown}]

XemmReport == [position : Nat \cup {Unknown}, clip : Nat, reduceOnly : BOOLEAN]

-----------------------------------------------------------------------------
(* Helpers of decide()                                                     *)

\* clip(): a zero clip falls through to the default.
Clip(report) == IF report.clip = 0 THEN DefaultClip ELSE report.clip

NearFlat(report) ==
    /\ report.position # Unknown
    /\ report.position <= (IF NearFlatNotional <= 0 THEN Clip(report) ELSE NearFlatNotional)

\* The profitable opportunities whose size the position limit or the margin cut.
MarginBinding(report) ==
    {o \in report.opportunities :
        /\ o.edge # Unknown
        /\ o.edge >= report.required
        /\ o.limit \in {"headroom", "margin"}}

LowHeadroom(report, clips) ==
    report.headroom # Unknown /\ report.headroom < Clip(report) * clips

LowMargin(report, clips) ==
    report.available # Unknown /\ report.available - report.buffer < Clip(report) * clips

\* taker_margin_state
MarginLimited(report, headroomClips, marginClips) ==
    \/ MarginBinding(report) # {}
    \/ LowHeadroom(report, headroomClips)
    \/ LowMargin(report, marginClips)

ExecutableReduce(report) ==
    \E o \in report.opportunities : o.limit = "ok" /\ o.effect = "reduce"

\* Mutant of TakerBlocked: an executable reducing trade does not count.
BlockedByMargin(taker) ==
    taker # NoReport /\ MarginLimited(taker, SwitchHeadroomClips, SwitchMarginClips)

\* A missing taker report says nothing: it neither blocks nor is ready.
TakerBlocked(taker) ==
    /\ taker # NoReport
    /\ MarginLimited(taker, SwitchHeadroomClips, SwitchMarginClips)
    /\ ~ExecutableReduce(taker)

\* Mutant of ReadyForTaker: ready again at the switch clips.
ReadyAtSwitchClips(taker) ==
    /\ taker # NoReport
    /\ \/ NearFlat(taker)
       \/ ExecutableReduce(taker)
       \/ ~MarginLimited(taker, SwitchHeadroomClips, SwitchMarginClips)

\* ready_for_taker: near flat, something to reduce, or above the resume clips.  Without
\* a taker report nothing is ready, whatever XEMM's position.
ReadyForTaker(taker) ==
    /\ taker # NoReport
    /\ \/ NearFlat(taker)
       \/ ExecutableReduce(taker)
       \/ ~MarginLimited(taker, ResumeHeadroomClips, ResumeMarginClips)

-----------------------------------------------------------------------------
(* Confirm windows.  condition_since is kept as the time the condition has *)
(* been observed to hold: Since is unset, or the ticks since its start,    *)
(* which stop counting once they pass the longest window.                  *)

Unset == -1

\* Mutant of Observe: a false condition keeps the start.
NeverForgets(since, condition) == IF condition /\ since = Unset THEN 0 ELSE since

\* sustained(): a false condition forgets the start, a true one keeps the first.
Observe(since, condition) ==
    IF ~condition THEN Unset ELSE IF since = Unset THEN 0 ELSE since

Held(since, window) == since # Unset /\ since >= window

-----------------------------------------------------------------------------
(* decide()                                                                *)

Stay(bot, mode) == [target |-> bot, mode |-> mode]
Halt            == [target |-> "halt", mode |-> "normal"]

\* Mutant of DecideReduce: the reduce taker keeps the rights until flat.
ReduceUntilFlat(status, leaseActive) ==
    IF NearFlat(status) THEN Stay("taker", "normal") ELSE Stay("taker", "reduce")

\* The active reduce taker: flat -> normal taker, lease gone -> XEMM, else itself.
DecideReduce(status, leaseActive) ==
    IF NearFlat(status)  THEN Stay("taker", "normal")
    ELSE IF ~leaseActive THEN Stay("xemm", "normal")
    ELSE Stay("taker", "reduce")

\* since' = [blocked, ready]: decide() reads and updates only the window of the active mode.
Windows(bot, mode, since, taker) ==
    [blocked |-> IF bot = "taker" /\ mode = "normal"
                 THEN Observe(since.blocked, TakerBlocked(taker)) ELSE since.blocked,
     ready   |-> IF bot = "xemm"
                 THEN Observe(since.ready, ReadyForTaker(taker)) ELSE since.ready]

NextWindows(bot, mode, since, taker, xemm) ==
    IF \/ xemm # NoReport /\ ~xemm.reduceOnly
       \/ taker = NoReport /\ xemm = NoReport
    THEN since
    ELSE Windows(bot, mode, since, taker)

Decide(bot, mode, leaseActive, since, taker, xemm) ==
    LET status == IF taker # NoReport THEN taker ELSE xemm
        next   == Windows(bot, mode, since, taker)
    IN  IF xemm # NoReport /\ ~xemm.reduceOnly THEN Halt
        ELSE IF status = NoReport THEN Halt
        ELSE CASE bot = "taker" /\ mode = "reduce" -> DecideReduce(status, leaseActive)
               [] bot = "taker" /\ mode = "normal" ->
                    Stay(IF Held(next.blocked, BlockedConfirm) THEN "xemm" ELSE "taker", "normal")
               [] bot = "xemm" ->
                    Stay(IF Held(next.ready, ResumeConfirm) THEN "taker" ELSE "xemm", "normal")
               [] bot = "none" ->
                    Stay(IF ReadyForTaker(taker) THEN "taker" ELSE "xemm", "normal")
=============================================================================
