------------------------------ MODULE Hysteresis ------------------------------
(***************************************************************************)
(* The hysteresis band of controller/regime.rs: "blocking uses the switch  *)
(* clips, resuming the higher resume clips, so headroom hovering at one    *)
(* boundary cannot flip every tick".  decide() runs, tick after tick, on   *)
(* reports that move freely; what a change of engine takes to happen (the  *)
(* drain, the checks, the failures) is Supervisor.tla's.                   *)
(***************************************************************************)
EXTENDS Regime

CONSTANTS Reports,   \* the taker reports of a market, all naming the same clip
          XemmStatus \* a readable report of a reduce-only XEMM

ASSUME ReportsAssumption ==
    /\ Reports \subseteq TakerReport
    /\ \A r, s \in Reports : Clip(r) = Clip(s)
    /\ XemmStatus \in XemmReport /\ XemmStatus # NoReport /\ XemmStatus.reduceOnly
    /\ NoReport \notin Reports

VARIABLES
    bot,      \* regime.active
    since,    \* regime.condition_since
    report,   \* what the taker's status says now
    left      \* what it said when the taker last lost the rights to XEMM

hysteresisVars == <<bot, since, report, left>>

NoWindow == [blocked |-> Unset, ready |-> Unset]

Init == bot \in Bots /\ since = NoWindow /\ report \in Reports /\ left = NoReport

\* Positions, margin and opportunities move.
Drift == report' \in Reports /\ UNCHANGED <<bot, since, left>>

\* One controller tick, with no reduce lease: decide(), and the new engine's windows
\* start empty.
Switch ==
    LET target == Decide(bot, "normal", FALSE, since, report, XemmStatus).target
    IN  /\ bot' = target
        /\ since' = IF target = bot THEN NextWindows(bot, "normal", since, report, XemmStatus)
                    ELSE NoWindow
        /\ left' = IF bot = "taker" /\ target = "xemm" THEN report ELSE left
        /\ UNCHANGED report

Aged(age) == IF age = Unset \/ age >= BlockedConfirm + ResumeConfirm THEN age ELSE age + 1

Tick ==
    /\ since' = [blocked |-> Aged(since.blocked), ready |-> Aged(since.ready)]
    /\ UNCHANGED <<bot, report, left>>

Next == Drift \/ Switch \/ Tick

Spec == Init /\ [][Next]_hysteresisVars

-----------------------------------------------------------------------------
TypeOK ==
    /\ bot \in Bots /\ report \in Reports /\ left \in Reports \cup {NoReport}
    /\ \A age \in {since.blocked, since.ready} : age \in Int

\* A report never reads as blocked and ready at once, except near flat, where XEMM
\* hands back whatever the taker's margin (ready_for_taker).
NeverBoth == TakerBlocked(report) /\ ReadyForTaker(report) => NearFlat(report)

\* What is left of the tighter venue's margin after the buffer.
Free(r) == IF r.available = Unknown THEN Unknown ELSE r.available - r.buffer

Rose(now, before, clips) == now = Unknown \/ now - before > Clip(report) * clips

\* XEMM hands back away from flat, with nothing to reduce.
HandBack ==
    /\ bot = "xemm" /\ bot' = "taker" /\ left # NoReport
    /\ ~NearFlat(report) /\ ~ExecutableReduce(report)

\* A taker replaced for low headroom or low margin gets the rights back only after
\* that very quantity has risen by more than the whole band since (or can no longer
\* be read): hovering at one boundary never flips the engines.
HandBackCrossesBand ==
    [][HandBack =>
          /\ LowHeadroom(left, SwitchHeadroomClips) =>
                Rose(report.headroom, left.headroom, ResumeHeadroomClips - SwitchHeadroomClips)
          /\ LowMargin(left, SwitchMarginClips) =>
                Rose(Free(report), Free(left), ResumeMarginClips - SwitchMarginClips)]_hysteresisVars
=============================================================================
