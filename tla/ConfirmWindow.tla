---------------------------- MODULE ConfirmWindow ----------------------------
(***************************************************************************)
(* The confirm windows of controller/regime.rs in the running supervisor:  *)
(* "a blocked normal taker must stay blocked this long before XEMM takes   *)
(* over", "XEMM hands back once the taker has been ready this long"        *)
(* (controller/mod.rs).  Supervisor.tla with a history variable.           *)
(***************************************************************************)
EXTENDS Supervisor

CONSTANT CountsPaused  \* whether a report that was read but not decided upon counts

VARIABLE kept  \* ticks since a report that counts last broke the active window

windowVars == <<vars, kept>>

\* The report contradicts a change of engine: an unblocked normal taker, or a
\* taker that is not ready, or not even readable, while XEMM is active.
Breaks(t) ==
    \/ bot = "taker" /\ mode = "normal" /\ ~TakerBlocked(t)
    \/ bot = "xemm" /\ ~ReadyForTaker(t)

WInit == Init /\ kept = 0

WDecide == \E t \in TakerReports \cup {NoReport}, x \in XemmReports \cup {NoReport} :
    DecideTick(t, x) /\ kept' = IF Breaks(t) THEN 0 ELSE kept

\* Polled but not decided upon: a status is missing, or the network pause is on.
WPass == \E t \in TakerReports \cup {NoReport}, x \in XemmReports \cup {NoReport} :
    /\ StatusLost(t, x) \/ LossStop(t, x) \/ HoldWhilePaused(t, x)
    /\ kept' = IF CountsPaused /\ t # NoReport /\ Breaks(t) THEN 0 ELSE kept

WTick == Tick /\ kept' = Least(kept + 1, MaxAge)

\* A new stint starts the history afresh.
WGrant == (GrantBot \/ GrantReduce) /\ kept' = 0

WOther ==
    /\ ControlStep \/ EngineStep \/ Environment
    /\ ~(pc = "grant" /\ bot' # "none")
    /\ UNCHANGED kept

WNext == WDecide \/ WPass \/ WTick \/ WGrant \/ WOther

WSpec == WInit /\ [][WNext]_windowVars

-----------------------------------------------------------------------------
Replaced(from, to) == pc = "poll" /\ plan'.why = "switch" /\ bot = from /\ plan'.target = to

\* The engine that holds the rights is replaced only if every report that counts
\* called for it during the whole confirm window of its stint.
Confirmed ==
    /\ mode = "normal" /\ Replaced("taker", "xemm") => kept >= BlockedConfirm
    /\ Replaced("xemm", "taker") => kept >= ResumeConfirm
Sustained == [][Confirmed]_windowVars

\* The comment on blocked_confirm_sec, of every readable report (CountsPaused): what
\* the taker itself said while the network pause held the decision back counts too.
StaysBlocked ==
    [][mode = "normal" /\ Replaced("taker", "xemm") => kept >= BlockedConfirm]_windowVars
=============================================================================
