------------------------------ MODULE Supervisor ------------------------------
(***************************************************************************)
(* The supervisor loop of controller/supervisor.rs, with the engine tasks  *)
(* it runs and the venues' open orders.                                    *)
(*                                                                         *)
(* The supervisor is one asynchronous task.  Every `await` during which    *)
(* the engines, the clock or a stop request can move is a value of pc;     *)
(* what runs between two awaits is one action.  The engines run on other   *)
(* threads, so their steps interleave with every supervisor step.          *)
(*                                                                         *)
(* Times are kept as time left (the lease), age (a burst, the mode) or     *)
(* time since (the confirm windows), all moved by Tick and saturating      *)
(* where no guard can tell the difference: the clock needs no bound.       *)
(***************************************************************************)
EXTENDS Regime, FiniteSets

CONSTANTS
    TakerReports, XemmReports,  \* the reports the two status pollers may return
    MaxStatusFailures,          \* missing statuses in a row before the network pause
    StableTicks,                \* readable statuses in a row before it lifts
    CrashLoopExits,             \* short spontaneous exits of the active engine that halt
    BurstFresh,                 \* a burst older than this many ticks is ignored
    LeaseTicks, LeaseMaxTicks,  \* a grant or extension, and the cap from the first grant
    MinExtension,               \* an extension by no more than this is dropped
    MaxAge,                     \* ages and windows saturate here
    ObserverEnabled,            \* cfg.observer
    CanCrash,                   \* the process may die (kill -9, power, OOM)
    DiskFails                   \* the breaker file may fail to be written

ASSUME SupervisorAssumption ==
    /\ TakerReports \subseteq TakerReport /\ XemmReports \subseteq XemmReport
    /\ NoReport \notin TakerReports \cup XemmReports
    /\ {MaxStatusFailures, StableTicks, CrashLoopExits, LeaseTicks} \subseteq Nat \ {0}
    /\ {BurstFresh, LeaseMaxTicks, MinExtension, MaxAge} \subseteq Nat
    /\ LeaseMaxTicks >= LeaseTicks
    /\ MaxAge >= BlockedConfirm /\ MaxAge >= ResumeConfirm
    /\ {ObserverEnabled, CanCrash, DiskFails} \subseteq BOOLEAN

VARIABLES
    \* the supervisor's volatile state
    pc,          \* where its loop is
    plan,        \* the handover under way: why, target, mode, verify
    bot, mode,   \* regime.active ("none" or a bot) and regime.taker_mode
    since,       \* regime.condition_since
    lease,       \* regime.lease, always equal to what lease_tx publishes
    burst,       \* age of the newest unconsumed burst; BurstFresh + 1: none
    failures, paused, stable,   \* status_failures, paused_since, stable_ticks
    exits,       \* active_exit_count
    observerWait,\* observer_retry_after lies in the future
    halted,      \* safe_halt has begun; kept while the process is down
    stopReq,     \* the stop token or the shutdown flag
    \* the engine tasks
    task,        \* the active and the observer slot
    \* what outlives the process
    breaker,     \* bot-<M>.breaker.json exists
    markers,     \* the engines' unclean-session markers
    resting      \* some order of the bot rests on a venue

regimeVars  == <<bot, mode, since>>
networkVars == <<failures, paused, stable>>
durableVars == <<breaker, markers, resting>>
controlVars == <<halted, stopReq, exits, observerWait>>
vars == <<pc, plan, regimeVars, lease, burst, networkVars, controlVars, task, durableVars>>

-----------------------------------------------------------------------------
(* Engine tasks                                                            *)

Slots == {"active", "observer"}
Roles == {"taker", "reduce", "xemm", "observer"}

\* st: running, asked to stop (draining), returned Ok, returned an error.
\* phase: starting up; between scans; past the stop check; executing or hedging.
\* seen: a lease-bound taker's cache holds a valid lease.
Task == [role : Roles \cup {"none"}, st : {"none", "run", "stopping", "ok", "err"},
         phase : {"init", "wait", "scan", "exec"}, seen : BOOLEAN]

NoTask      == [role |-> "none", st |-> "none", phase |-> "init", seen |-> FALSE]
Spawn(role) == [role |-> role, st |-> "run", phase |-> "init", seen |-> FALSE]

Alive(t)      == t.st \in {"run", "stopping"}
Finished(t)   == t.st \in {"ok", "err"}
LeaseBound(t) == t.role \in {"reduce", "observer"}

\* Task::stop cancels the token; a task that already finished keeps its result.
Cancel(t)    == IF t.st = "run" THEN [t EXCEPT !.st = "stopping"] ELSE t
Done(t, st)  == [t EXCEPT !.st = st, !.phase = "init", !.seen = FALSE]

\* The marker an engine's session leaves: both kinds of taker share one.
SessionOf(t) == IF t.role = "xemm" THEN "xemm" ELSE "taker"

\* Could submit an order now: an armed engine with full rights, or a lease-bound
\* taker that sees a lease or is still inside an execution it began under one.
CanWrite(t) ==
    /\ Alive(t)
    /\ IF LeaseBound(t) THEN t.seen \/ t.phase = "exec" ELSE t.phase # "init"

Writers == {s \in Slots : CanWrite(task[s])}

-----------------------------------------------------------------------------
(* The lease                                                               *)

NoLease == [left |-> -1, cap |-> -1]
Lease   == [left : 0..LeaseMaxTicks, cap : 0..LeaseMaxTicks]

Least(a, b) == IF a <= b THEN a ELSE b

\* grant_lease: a fresh cap unless a lease is held.
Granted(l) ==
    LET cap == IF l = NoLease THEN LeaseMaxTicks ELSE l.cap
    IN  [left |-> Least(LeaseTicks, cap), cap |-> cap]

\* Mutant of Extended: an expired lease is revived.
Revived(l) ==
    IF l = NoLease THEN Granted(l) ELSE [l EXCEPT !.left = Least(LeaseTicks, l.cap)]

\* extend_lease: an expired lease stays expired.
Extended(l) ==
    LET desired == Least(LeaseTicks, l.cap)
    IN  IF l = NoLease THEN Granted(l)
        ELSE IF l.left = 0 \/ desired <= l.left + MinExtension THEN l
        ELSE [l EXCEPT !.left = desired]

LeaseActive == lease # NoLease /\ lease.left > 0

\* stop_active: the reduce lease is revoked before its holder is stopped.
Revoked == IF bot = "taker" /\ mode = "reduce" THEN NoLease ELSE lease

-----------------------------------------------------------------------------
NoPlan == [why |-> "none", target |-> "none", mode |-> "normal", verify |-> FALSE]
Plan   == [why : {"none", "burst", "switch"}, target : Bots \cup {"none"},
           mode : Modes, verify : BOOLEAN]

NoWindows == [blocked |-> Unset, ready |-> Unset]
NoBurst   == BurstFresh + 1
Stopping  == halted \/ stopReq

PCs == {"verifyStart", "fast", "burst", "tick", "poll", "readXemm", "ensure", "switch",
        "stopObserver", "stopActive", "verify", "grant",
        "halt", "haltActive", "haltObserver", "latch", "shutActive", "shutObserver", "down"}

Init ==
    /\ pc = "verifyStart" /\ plan = NoPlan
    /\ bot = "none" /\ mode = "normal" /\ since = NoWindows
    /\ lease = NoLease /\ burst = NoBurst
    /\ failures = 0 /\ paused = FALSE /\ stable = 0
    /\ exits = 0 /\ observerWait = FALSE /\ halted = FALSE /\ stopReq = FALSE
    /\ task = [s \in Slots |-> NoTask]
    /\ breaker = FALSE /\ markers = {}
    /\ resting \in BOOLEAN      \* orders a crashed process left behind

\* Entering safe_halt; SafeHalt then runs it.
Halting == halted' = TRUE /\ pc' = "halt" /\ plan' = NoPlan /\ UNCHANGED <<stopReq, observerWait>>

-----------------------------------------------------------------------------
(* run(): startup and restart                                              *)

\* Mutant of VerifyStartClear: the startup check is skipped.
StartUnverified ==
    /\ pc = "verifyStart" /\ pc' = "fast"
    /\ UNCHANGED <<plan, regimeVars, lease, burst, networkVars, controlVars, task, durableVars>>

\* verify_orders_clear reads XEMM's status until it shows no open order; an
\* unreadable status and a lapsed deadline both count as not clear.
VerifyStartClear ==
    /\ pc = "verifyStart" /\ ~resting
    /\ pc' = "fast"
    /\ UNCHANGED <<plan, regimeVars, lease, burst, networkVars, controlVars, task, durableVars>>

VerifyStartFails ==
    /\ pc = "verifyStart"
    /\ Halting
    /\ UNCHANGED <<regimeVars, lease, burst, networkVars, exits, task, durableVars>>

\* run_with: refused while an engine session is unresolved, or while the breaker
\* is latched and not acknowledged; acknowledging archives the file.
Launch(ack) ==
    /\ pc = "down" /\ markers = {}
    /\ breaker => ack
    /\ breaker' = FALSE
    /\ pc' = "verifyStart" /\ halted' = FALSE /\ stopReq' = FALSE
    /\ UNCHANGED <<plan, regimeVars, lease, burst, networkVars, exits, observerWait, task, markers, resting>>

\* The operator settles an unclean session from the venues' records.
ResolveSessions ==
    /\ pc = "down" /\ markers # {}
    /\ markers' = {}
    /\ UNCHANGED <<pc, plan, regimeVars, lease, burst, networkVars, controlVars, task, breaker, resting>>

-----------------------------------------------------------------------------
(* check_exits, called at the top of fast_tick, of tick and of ensure_bot  *)

Reaped(o) == IF Finished(o) THEN NoTask ELSE o

CheckExits(from, next) ==
    /\ pc = from
    /\ from = "fast" => ~Stopping
    /\ ~Finished(task["active"])
    /\ task' = [task EXCEPT !["observer"] = Reaped(@)]
    /\ observerWait' = (observerWait \/ Finished(task["observer"]))
    /\ pc' = IF Stopping THEN "fast" ELSE next
    /\ UNCHANGED <<plan, regimeVars, lease, burst, networkVars, halted, stopReq, exits, durableVars>>

\* The active engine returned by itself.  The rights are dropped, a reduce
\* taker's lease revoked; an error halts, and so does a third short run.
ReapActive(from, next) ==
    LET t == task["active"]
    IN  /\ pc = from
        /\ from = "fast" => ~Stopping
        /\ Finished(t)
        /\ bot' = "none" /\ mode' = "normal" /\ since' = NoWindows
        /\ lease' = IF t.role = "reduce" THEN NoLease ELSE lease
        /\ \E short \in BOOLEAN :
              LET count == IF t.st = "err" THEN exits ELSE IF short THEN Least(exits + 1, CrashLoopExits) ELSE 0
              IN  /\ exits' = count
                  /\ IF t.st = "err" \/ count >= CrashLoopExits
                     THEN /\ Halting
                          /\ task' = [task EXCEPT !["active"] = NoTask]
                     ELSE /\ pc' = IF Stopping THEN "fast" ELSE next
                          /\ task' = [s \in Slots |-> IF s = "active" THEN NoTask ELSE Reaped(task[s])]
                          /\ observerWait' = (observerWait \/ Finished(task["observer"]))
                          /\ UNCHANGED <<plan, halted, stopReq>>
        /\ UNCHANGED <<burst, networkVars, durableVars>>

Exits(from, next) == CheckExits(from, next) \/ ReapActive(from, next)

-----------------------------------------------------------------------------
(* fast_tick: consume a fresh confirmed burst                              *)

FreshBurst == burst <= BurstFresh

\* Paused, no fresh burst, or a burst nobody consumes (normal taker, bootstrap).
IgnoreBurst ==
    /\ pc = "burst"
    /\ paused \/ ~FreshBurst \/ bot = "none" \/ (bot = "taker" /\ mode = "normal")
    /\ pc' = "tick"
    /\ UNCHANGED <<plan, regimeVars, lease, burst, networkVars, controlVars, task, durableVars>>

ExtendOnBurst ==
    /\ pc = "burst" /\ ~paused /\ FreshBurst /\ bot = "taker" /\ mode = "reduce"
    /\ burst' = NoBurst /\ lease' = Extended(lease)
    /\ pc' = "tick"
    /\ UNCHANGED <<plan, regimeVars, networkVars, controlVars, task, durableVars>>

\* activate_reduce, up to the await of XEMM's drain.
ActivateReduce ==
    /\ pc = "burst" /\ ~paused /\ FreshBurst /\ bot = "xemm"
    /\ burst' = NoBurst /\ since' = NoWindows
    /\ task' = [task EXCEPT !["active"] = Cancel(@)]
    /\ plan' = [why |-> "burst", target |-> "taker", mode |-> "reduce", verify |-> TRUE]
    /\ pc' = "stopActive"
    /\ UNCHANGED <<bot, mode, lease, networkVars, controlVars, durableVars>>

\* The loop comes round without a tick: not due yet, or stopping.
SkipTick ==
    /\ pc = "tick"
    /\ pc' = "fast"
    /\ UNCHANGED <<plan, regimeVars, lease, burst, networkVars, controlVars, task, durableVars>>

-----------------------------------------------------------------------------
(* tick: statuses, pause, loss stops, decision                             *)

\* poll_statuses: the taker alone while it is active, both while XEMM is (the
\* idle taker under a backoff, so possibly missing), XEMM at bootstrap only if
\* the taker's report is missing.
Polled(t, x) ==
    /\ t \in TakerReports \cup {NoReport} /\ x \in XemmReports \cup {NoReport}
    /\ bot = "taker" => x = NoReport
    /\ bot = "none" /\ t # NoReport => x = NoReport

Required(t, x) ==
    CASE bot = "taker" -> t # NoReport
      [] bot = "xemm"  -> x # NoReport
      [] bot = "none"  -> t # NoReport \/ x # NoReport

\* Missing statuses pause new exposure instead of halting.
StatusLost(t, x) ==
    /\ pc = "poll" /\ Polled(t, x) /\ ~Required(t, x)
    /\ failures' = Least(failures + 1, MaxStatusFailures)
    /\ stable' = 0
    /\ paused' = (paused \/ failures + 1 >= MaxStatusFailures)
    /\ pc' = "fast"
    /\ UNCHANGED <<plan, regimeVars, lease, burst, controlVars, task, durableVars>>

\* The part of every readable tick before the loss stops.
StatusRead(t, x) ==
    /\ pc = "poll" /\ Polled(t, x) /\ Required(t, x)
    /\ failures' = 0
    /\ \E traded \in BOOLEAN :
          lease' = IF traded /\ bot = "taker" /\ mode = "reduce" THEN Extended(lease) ELSE lease

\* Equity drawdown or realized losses; EquityBaseline and RealizedTrades decide
\* which samples breach.
LossStop(t, x) ==
    /\ StatusRead(t, x)
    /\ Halting
    /\ UNCHANGED <<regimeVars, burst, paused, stable, exits, task, durableVars>>

\* Mutant of HoldWhilePaused: the readable statuses are not counted.
HoldForever(t, x) ==
    /\ StatusRead(t, x)
    /\ paused /\ stable + 1 < StableTicks
    /\ pc' = "fast"
    /\ UNCHANGED <<plan, regimeVars, burst, paused, stable, controlVars, task, durableVars>>

\* Loss stops run on every readable status; switching waits for a stable network.
HoldWhilePaused(t, x) ==
    /\ StatusRead(t, x)
    /\ paused /\ stable + 1 < StableTicks
    /\ stable' = stable + 1
    /\ pc' = "fast"
    /\ UNCHANGED <<plan, regimeVars, burst, paused, controlVars, task, durableVars>>

\* The pause lifts if one was on, and the regime decides.
DecideTick(t, x) ==
    LET active   == lease' # NoLease /\ lease'.left > 0
        decision == Decide(bot, mode, active, since, t, x)
    IN  /\ StatusRead(t, x)
        /\ ~paused \/ stable + 1 >= StableTicks
        /\ paused' = FALSE
        /\ stable' = IF paused THEN Least(stable + 1, StableTicks) ELSE stable
        /\ since' = NextWindows(bot, mode, since, t, x)
        /\ IF decision.target = "halt"
           THEN Halting
           ELSE /\ plan' = [why |-> "switch", target |-> decision.target,
                            mode |-> decision.mode, verify |-> FALSE]
                /\ pc' = IF decision.target = "xemm" /\ x = NoReport THEN "readXemm" ELSE "ensure"
                /\ UNCHANGED <<halted, stopReq, observerWait>>
        /\ UNCHANGED <<bot, mode, burst, exits, task, durableVars>>

Poll(t, x) == StatusLost(t, x) \/ LossStop(t, x) \/ HoldWhilePaused(t, x) \/ DecideTick(t, x)

\* XEMM's status is read before a switch to it: missing defers the switch, and
\* an XEMM that may open positions halts.
ReadXemm(x) ==
    /\ pc = "readXemm" /\ x \in XemmReports \cup {NoReport}
    /\ IF x # NoReport /\ ~x.reduceOnly
       THEN Halting
       ELSE /\ pc' = IF x = NoReport THEN "fast" ELSE "ensure"
            /\ plan' = IF x = NoReport THEN NoPlan ELSE plan
            /\ UNCHANGED <<halted, stopReq, observerWait>>
    /\ UNCHANGED <<regimeVars, lease, burst, networkVars, exits, task, durableVars>>

-----------------------------------------------------------------------------
(* ensure_bot and ensure_observer_for                                      *)

InPlace == bot = plan.target /\ task["active"].st \in {"run", "stopping"}
           /\ (plan.target = "taker" => mode = plan.mode)

\* ensure_observer_for: only XEMM has a standby observer.  A taker target has
\* none left to stop: NoObserverBesideTaker.
ObserverAfter(target) ==
    LET o == task["observer"]
    IN  IF target # "xemm" \/ Stopping THEN o
        ELSE IF Finished(o) THEN NoTask
        ELSE IF o = NoTask /\ ObserverEnabled /\ ~observerWait THEN Spawn("observer")
        ELSE o

WaitAfter(target) == observerWait \/ (target = "xemm" /\ ~Stopping /\ Finished(task["observer"]))

KeepBot ==
    /\ pc = "ensure" /\ InPlace
    /\ task' = [task EXCEPT !["observer"] = ObserverAfter(plan.target)]
    /\ observerWait' = WaitAfter(plan.target)
    /\ pc' = "fast" /\ plan' = NoPlan
    /\ UNCHANGED <<regimeVars, lease, burst, networkVars, halted, stopReq, exits, durableVars>>

CheckSwitch == pc = "ensure" /\ ~InPlace /\ Exits("ensure", "switch")

\* Mutant of BeginSwitch: the observer is not stopped before a switch to the taker.
BeginSwitchBesideObserver ==
    /\ pc = "switch"
    /\ plan' = [plan EXCEPT !.verify = (bot = "xemm" /\ plan.target = "taker")]
    /\ task' = [task EXCEPT !["active"] = Cancel(@)]
    /\ lease' = Revoked
    /\ pc' = "stopActive"
    /\ UNCHANGED <<regimeVars, burst, networkVars, controlVars, durableVars>>

\* Whether XEMM is the engine being replaced is settled here, after check_exits.
\* A taker target stops the observer first; one that had already exited takes
\* the restart backoff instead of failing the stop.
BeginSwitch ==
    LET toTaker == plan.target = "taker"
    IN  /\ pc = "switch"
        /\ plan' = [plan EXCEPT !.verify = (bot = "xemm" /\ toTaker)]
        /\ IF toTaker
           THEN /\ task' = [task EXCEPT !["observer"] = Cancel(Reaped(@))]
                /\ observerWait' = (observerWait \/ Finished(task["observer"]))
                /\ pc' = "stopObserver" /\ UNCHANGED lease
           ELSE /\ task' = [task EXCEPT !["active"] = Cancel(@)]
                /\ lease' = Revoked
                /\ pc' = "stopActive" /\ UNCHANGED observerWait
        /\ UNCHANGED <<regimeVars, burst, networkVars, halted, stopReq, exits, durableVars>>

ObserverStopped ==
    /\ pc = "stopObserver" /\ task["observer"].st \in {"none", "ok"}
    /\ task' = [s \in Slots |-> IF s = "observer" THEN NoTask ELSE Cancel(task[s])]
    /\ lease' = Revoked
    /\ pc' = "stopActive"
    /\ UNCHANGED <<plan, regimeVars, burst, networkVars, controlVars, durableVars>>

\* An execution cut off by an abort, a failure or a crash may leave its order resting.
MayRest(slots) ==
    resting' \in IF \E s \in slots : Alive(task[s]) /\ task[s].phase = "exec"
                 THEN {resting, TRUE} ELSE {resting}

\* A stop that failed, or outlived ENGINE_STOP_TIMEOUT and was aborted.
StopFailed(slot) ==
    /\ task[slot].st \in {"err", "stopping"}
    /\ MayRest({slot})
    /\ task' = [task EXCEPT ![slot] = NoTask]
    /\ UNCHANGED <<breaker, markers>>

ObserverStopFails ==
    /\ pc = "stopObserver" /\ StopFailed("observer")
    /\ Halting
    /\ UNCHANGED <<regimeVars, lease, burst, networkVars, exits>>

\* stop_active returned: the rights are free.
ActiveStopped ==
    /\ pc = "stopActive" /\ task["active"].st \in {"none", "ok"}
    /\ task' = [task EXCEPT !["active"] = NoTask]
    /\ bot' = "none" /\ mode' = "normal"
    /\ pc' = IF plan.verify THEN "verify" ELSE "grant"
    /\ UNCHANGED <<plan, since, lease, burst, networkVars, controlVars, durableVars>>

ActiveStopFails ==
    /\ pc = "stopActive" /\ StopFailed("active")
    /\ bot' = "none" /\ mode' = "normal"
    /\ Halting
    /\ UNCHANGED <<since, lease, burst, networkVars, exits>>

VerifyClear ==
    /\ pc = "verify" /\ ~resting
    /\ pc' = "grant"
    /\ UNCHANGED <<plan, regimeVars, lease, burst, networkVars, controlVars, task, durableVars>>

VerifyFails ==
    /\ pc = "verify"
    /\ Halting
    /\ UNCHANGED <<regimeVars, lease, burst, networkVars, exits, task, durableVars>>

\* A stop asked for during the drain starts nothing new.
AbandonGrant ==
    /\ pc = "grant" /\ Stopping
    /\ pc' = "fast" /\ plan' = NoPlan
    /\ UNCHANGED <<regimeVars, lease, burst, networkVars, controlVars, task, durableVars>>

\* Mutant of GrantReduce: a reduce taker is always started cold, the observer stays.
GrantReduceCold ==
    /\ pc = "grant" /\ ~Stopping /\ plan.why = "burst"
    /\ lease' = Granted(lease)
    /\ task' = [task EXCEPT !["active"] = Spawn("reduce")]
    /\ bot' = "taker" /\ mode' = "reduce"
    /\ pc' = "tick" /\ plan' = NoPlan
    /\ UNCHANGED <<since, burst, networkVars, controlVars, durableVars>>

\* activate_reduce's tail: the lease, then the live observer promoted in place,
\* or a reduce taker started cold.
GrantReduce ==
    LET o == task["observer"]
    IN  /\ pc = "grant" /\ ~Stopping /\ plan.why = "burst"
        /\ lease' = Granted(lease)
        /\ task' = [active   |-> IF Alive(o) THEN [o EXCEPT !.role = "reduce"] ELSE Spawn("reduce"),
                    observer |-> NoTask]
        /\ observerWait' = (observerWait \/ Finished(o))
        /\ bot' = "taker" /\ mode' = "reduce"
        /\ pc' = "tick" /\ plan' = NoPlan
        /\ UNCHANGED <<since, burst, networkVars, halted, stopReq, exits, durableVars>>

\* ensure_bot's tail: start the target engine, with its observer if it is XEMM.
GrantBot ==
    LET role == IF plan.target = "xemm" THEN "xemm"
                ELSE IF plan.mode = "reduce" THEN "reduce" ELSE "taker"
    IN  /\ pc = "grant" /\ ~Stopping /\ plan.why = "switch"
        /\ task' = [active |-> Spawn(role), observer |-> ObserverAfter(plan.target)]
        /\ observerWait' = WaitAfter(plan.target)
        /\ since' = NoWindows
        /\ bot' = plan.target
        /\ mode' = IF plan.target = "taker" THEN plan.mode ELSE "normal"
        /\ pc' = "fast" /\ plan' = NoPlan
        /\ UNCHANGED <<lease, burst, networkVars, halted, stopReq, exits, durableVars>>

-----------------------------------------------------------------------------
(* safe_halt and the end of run(): active writer first, then the observer  *)

SafeHalt ==
    /\ pc = "halt"
    /\ task' = [task EXCEPT !["active"] = Cancel(@)]
    /\ lease' = Revoked
    /\ pc' = "haltActive"
    /\ UNCHANGED <<plan, regimeVars, burst, networkVars, controlVars, durableVars>>

Shutdown ==
    /\ pc = "fast" /\ Stopping
    /\ task' = [task EXCEPT !["active"] = Cancel(@)]
    /\ lease' = Revoked
    /\ pc' = "shutActive" /\ plan' = NoPlan
    /\ UNCHANGED <<regimeVars, burst, networkVars, controlVars, durableVars>>

\* Mutant of FinalActiveStopped: the stop waits for the engine without a timeout.
FinalActiveAwaited(from, next) ==
    /\ pc = from
    /\ \/ task["active"].st \in {"none", "ok"} /\ UNCHANGED resting
       \/ task["active"].st = "err" /\ MayRest({"active"})
    /\ task' = [active |-> NoTask, observer |-> Cancel(Reaped(task["observer"]))]
    /\ bot' = "none" /\ mode' = "normal"
    /\ pc' = next
    /\ UNCHANGED <<plan, since, lease, burst, networkVars, controlVars, breaker, markers>>

\* The active engine is gone (a failed stop is recorded, no more): now the observer.
FinalActiveStopped(from, next) ==
    /\ pc = from
    /\ \/ task["active"].st \in {"none", "ok"} /\ UNCHANGED resting
       \/ task["active"].st \in {"err", "stopping"} /\ MayRest({"active"})
    /\ task' = [active |-> NoTask, observer |-> Cancel(Reaped(task["observer"]))]
    /\ bot' = "none" /\ mode' = "normal"
    /\ pc' = next
    /\ UNCHANGED <<plan, since, lease, burst, networkVars, controlVars, breaker, markers>>

FinalObserverStopped(from, next) ==
    /\ pc = from
    /\ \/ task["observer"].st \in {"none", "ok"} /\ UNCHANGED durableVars
          /\ task' = [task EXCEPT !["observer"] = NoTask]
       \/ StopFailed("observer")
    /\ pc' = next
    /\ UNCHANGED <<plan, regimeVars, lease, burst, networkVars, controlVars>>

\* Mutant of Latch: a halt during a shutdown is not latched.
LatchUnlessStopping ==
    /\ pc = "latch"
    /\ breaker' = (breaker \/ ~stopReq)
    /\ pc' = "fast"
    /\ UNCHANGED <<plan, regimeVars, lease, burst, networkVars, controlVars, task, markers, resting>>

\* The breaker file is written last; a write error is only reported.
Latch ==
    /\ pc = "latch"
    /\ breaker' \in IF DiskFails THEN {TRUE, breaker} ELSE {TRUE}
    /\ pc' = "fast"
    /\ UNCHANGED <<plan, regimeVars, lease, burst, networkVars, controlVars, task, markers, resting>>

\* Every volatile variable but `halted` back to its start value.
Reset ==
    /\ plan' = NoPlan /\ bot' = "none" /\ mode' = "normal" /\ since' = NoWindows
    /\ lease' = NoLease /\ burst' = NoBurst
    /\ failures' = 0 /\ paused' = FALSE /\ stable' = 0 /\ exits' = 0 /\ observerWait' = FALSE
    /\ task' = [s \in Slots |-> NoTask]
    /\ UNCHANGED <<halted, stopReq>>

\* The observer's end is the process's.
EndProcess ==
    /\ pc = "shutObserver"
    /\ pc' = "down"
    /\ MayRest({"observer"})
    /\ task["observer"].st # "run"
    /\ Reset
    /\ UNCHANGED <<breaker, markers>>

\* The process dies, and its engines with it.
Crash ==
    /\ CanCrash /\ pc # "down"
    /\ pc' = "down"
    /\ MayRest(Slots)
    /\ Reset
    /\ UNCHANGED <<breaker, markers>>

-----------------------------------------------------------------------------
(* The engines: taker/arb.rs run() and livebot/run.rs run()                *)

SetTask(s, t) == task' = [task EXCEPT ![s] = t]

EngineOnly == UNCHANGED <<pc, plan, regimeVars, lease, networkVars, controlVars, breaker>>

\* A full-rights engine arms its session before its first order; a lease-bound
\* taker reaches its scan loop unarmed.  A marker already there fails the start.
Arm(s) ==
    LET t == task[s]
    IN  /\ Alive(t) /\ t.phase = "init"
        /\ LeaseBound(t) \/ SessionOf(t) \notin markers
        /\ SetTask(s, [t EXCEPT !.phase = "wait"])
        /\ markers' = IF LeaseBound(t) THEN markers ELSE markers \cup {SessionOf(t)}
        /\ EngineOnly /\ UNCHANGED <<burst, resting>>

\* The control refresher: the cache follows the lease channel, and a lease seen
\* for the first time arms the session.
RefreshLease(s) ==
    LET t == task[s]
    IN  /\ Alive(t) /\ LeaseBound(t) /\ t.phase # "init"
        /\ SetTask(s, [t EXCEPT !.seen = LeaseActive])
        /\ markers' = IF LeaseActive THEN markers \cup {"taker"} ELSE markers
        /\ EngineOnly /\ UNCHANGED <<burst, resting>>

\* The scan loop looks at its stop token once, at the top of an iteration.
Scan(s) ==
    LET t == task[s]
    IN  /\ t.st = "run" /\ t.role # "xemm" /\ t.phase = "wait"
        /\ SetTask(s, [t EXCEPT !.phase = "scan"])
        /\ EngineOnly /\ UNCHANGED <<burst, markers, resting>>

\* A reducing opportunity confirms a burst, with or without a lease.
PublishBurst(s) ==
    /\ Alive(task[s]) /\ LeaseBound(task[s]) /\ task[s].phase = "scan"
    /\ burst' = 0
    /\ EngineOnly /\ UNCHANGED <<task, markers, resting>>

\* The last in-memory check before an execution: full rights, or a cached lease
\* that has not expired (a revoked one may still be cached).  The network pause only
\* holds back new entries, not the flattening of a naked position.
MayExecute(t) == LeaseBound(t) => t.seen /\ (lease # NoLease => lease.left > 0)

\* So an iteration under way when the stop arrives may still execute.
Execute(s) ==
    LET t == task[s]
    IN  /\ Alive(t) /\ t.role # "xemm" /\ t.phase = "scan" /\ MayExecute(t)
        /\ SetTask(s, [t EXCEPT !.phase = "exec"])
        /\ EngineOnly /\ UNCHANGED <<burst, markers, resting>>

\* XEMM quotes, unless paused or draining.
Quote(s) ==
    LET t == task[s]
    IN  /\ t.st = "run" /\ t.role = "xemm" /\ t.phase = "wait" /\ ~paused
        /\ resting' = TRUE
        /\ EngineOnly /\ UNCHANGED <<burst, task, markers>>

\* A maker fill starts a hedge, also while paused or draining.
Fill(s) ==
    LET t == task[s]
    IN  /\ Alive(t) /\ t.role = "xemm" /\ t.phase = "wait" /\ resting
        /\ SetTask(s, [t EXCEPT !.phase = "exec"])
        /\ resting' \in BOOLEAN
        /\ EngineOnly /\ UNCHANGED <<burst, markers>>

\* The iteration ends: nothing executed, or execution, recovery and hedge resolved.
Settle(s) ==
    LET t == task[s]
    IN  /\ Alive(t) /\ t.phase \in {"scan", "exec"}
        /\ SetTask(s, [t EXCEPT !.phase = "wait"])
        /\ EngineOnly /\ UNCHANGED <<burst, markers, resting>>

\* Mutant of ExitOk: the engine returns without verifying the venues.
ExitUnverified(s) ==
    LET t == task[s]
    IN  /\ Alive(t) /\ t.phase = "wait"
        /\ SetTask(s, Done(t, "ok"))
        /\ markers' = markers \ {SessionOf(t)}
        /\ EngineOnly /\ UNCHANGED <<burst, resting>>

\* An armed engine returns Ok only after it has verified that no order rests,
\* and clears its marker.  It may do so unasked.
ExitOk(s) ==
    LET t == task[s]
        armed == SessionOf(t) \in markers
    IN  /\ Alive(t) /\ t.phase = "wait"
        /\ armed => ~resting
        /\ SetTask(s, Done(t, "ok"))
        /\ markers' = IF armed THEN markers \ {SessionOf(t)} ELSE markers
        /\ EngineOnly /\ UNCHANGED <<burst, resting>>

\* Any error, at any time: the marker stays.
ExitErr(s) ==
    LET t == task[s]
    IN  /\ Alive(t)
        /\ MayRest({s})
        /\ SetTask(s, Done(t, "err"))
        /\ EngineOnly /\ UNCHANGED <<burst, markers>>

-----------------------------------------------------------------------------
(* The environment                                                         *)

\* A resting order fills, or is cancelled by XEMM or by the venue's deadman.
OrderGone ==
    /\ resting /\ resting' = FALSE
    /\ UNCHANGED <<pc, plan, regimeVars, lease, burst, networkVars, controlVars, task, breaker, markers>>

StopRequest ==
    /\ pc # "down" /\ ~stopReq /\ stopReq' = TRUE
    /\ UNCHANGED <<pc, plan, regimeVars, lease, burst, networkVars, halted, exits, observerWait, task, durableVars>>

\* The observer's restart backoff (60, 120, 240, then 300 s) runs out.
ObserverRetryDue ==
    /\ observerWait /\ observerWait' = FALSE
    /\ UNCHANGED <<pc, plan, regimeVars, lease, burst, networkVars, halted, stopReq, exits, task, durableVars>>

Older(since0) == IF since0 = Unset THEN Unset ELSE Least(since0 + 1, MaxAge)

Tick ==
    /\ pc # "down"
    /\ lease' = IF lease = NoLease THEN NoLease
                ELSE [left |-> IF lease.left = 0 THEN 0 ELSE lease.left - 1,
                      cap  |-> IF lease.cap = 0 THEN 0 ELSE lease.cap - 1]
    /\ burst' = Least(burst + 1, NoBurst)
    /\ since' = [blocked |-> Older(since.blocked), ready |-> Older(since.ready)]
    /\ UNCHANGED <<pc, plan, bot, mode, networkVars, controlVars, task, durableVars>>

-----------------------------------------------------------------------------
FastStep == Exits("fast", "burst") \/ IgnoreBurst \/ ExtendOnBurst \/ ActivateReduce

TickDue == Exits("tick", "poll")

SwitchStep ==
    \/ KeepBot \/ CheckSwitch \/ BeginSwitch
    \/ ObserverStopped \/ ObserverStopFails \/ ActiveStopped \/ ActiveStopFails
    \/ VerifyClear \/ VerifyFails \/ AbandonGrant \/ GrantReduce \/ GrantBot

EndStep ==
    \/ SafeHalt \/ FinalActiveStopped("haltActive", "haltObserver")
    \/ FinalObserverStopped("haltObserver", "latch") \/ Latch
    \/ Shutdown \/ FinalActiveStopped("shutActive", "shutObserver") \/ EndProcess

PollStep == \E t \in TakerReports \cup {NoReport}, x \in XemmReports \cup {NoReport} : Poll(t, x)

\* What the supervisor task itself does, but for the poll.
ControlStep ==
    \/ VerifyStartClear \/ VerifyStartFails
    \/ FastStep \/ SkipTick \/ TickDue
    \/ \E x \in XemmReports \cup {NoReport} : ReadXemm(x)
    \/ SwitchStep \/ EndStep

EngineStep ==
    \E s \in Slots :
        \/ Arm(s) \/ RefreshLease(s) \/ Scan(s) \/ PublishBurst(s) \/ Execute(s)
        \/ Quote(s) \/ Fill(s) \/ Settle(s) \/ ExitOk(s) \/ ExitErr(s)

Environment ==
    \/ OrderGone \/ StopRequest \/ ObserverRetryDue \/ Crash
    \/ ResolveSessions \/ \E ack \in BOOLEAN : Launch(ack)

Next == ControlStep \/ PollStep \/ EngineStep \/ Environment \/ Tick

Spec == Init /\ [][Next]_vars

\* The supervisor task keeps running (every await is bounded by a timeout), its
\* tick comes due again and again, and the clock advances.
Fairness ==
    /\ WF_vars(ControlStep \/ PollStep)
    /\ SF_vars(TickDue)
    /\ WF_vars(Tick)

FairSpec == Spec /\ Fairness

-----------------------------------------------------------------------------
(* Properties                                                              *)

TypeOK ==
    /\ pc \in PCs /\ plan \in Plan
    /\ bot \in Bots \cup {"none"} /\ mode \in Modes
    /\ since \in [blocked : Unset..MaxAge, ready : Unset..MaxAge]
    /\ lease \in Lease \cup {NoLease} /\ burst \in 0..NoBurst
    /\ failures \in 0..MaxStatusFailures /\ paused \in BOOLEAN /\ stable \in 0..StableTicks
    /\ exits \in 0..CrashLoopExits /\ observerWait \in BOOLEAN
    /\ halted \in BOOLEAN /\ stopReq \in BOOLEAN
    /\ task \in [Slots -> Task]
    /\ breaker \in BOOLEAN /\ markers \subseteq {"taker", "xemm"} /\ resting \in BOOLEAN

\* At most one engine can submit an order, counting a lease-bound taker that
\* still caches a revoked lease or is inside an execution begun under one, and
\* an engine whose drain is under way.
OneWriter == \A s1, s2 \in Writers : s1 = s2

\* No standby observer is left beside a taker with the rights: it would keep
\* publishing bursts, and a second taker session would find the first's marker.
NoObserverBesideTaker == bot = "taker" => task["observer"] = NoTask

\* A lease is published only while its holder, the reduce taker, has the rights.
LeaseHasHolder == lease # NoLease => bot = "taker" /\ mode = "reduce"

\* A standing lease is never renewed past the cap set at its first grant, and
\* one that expired never comes back to life, whatever bursts or trades arrive.
LeaseTerm ==
    [][lease # NoLease /\ lease' # NoLease =>
          /\ lease'.cap <= lease.cap /\ lease'.left <= lease'.cap
          /\ lease.left = 0 => lease'.left = 0]_vars

\* Every safe halt that runs to its end (latch_breaker at the end of safe_halt)
\* leaves the breaker latched before the shutdown, and so for the next start,
\* whatever began the halt and wherever a crash ends the process afterwards.
HaltLatched == halted /\ pc \in {"fast", "shutActive", "shutObserver"} => breaker

\* The promise of ExecutionRights: an engine starts to write alone, on venues
\* that show no open order.
Rights == INSTANCE ExecutionRights WITH
    Engine <- Slots, writers <- Writers, open <- resting
ImplementsRights == Rights!Spec

\* From some time on no status that a tick needs is missing.
StatusMissing ==
    \/ \E t \in TakerReports \cup {NoReport}, x \in XemmReports \cup {NoReport} : StatusLost(t, x)
    \/ ReadXemm(NoReport)
NetworkRecovers == <>[][~StatusMissing]_vars

\* A stop request or a safe halt ends the process, however the engines stop.
StopEnds == Stopping ~> pc = "down"

\* The network pause lifts by itself once the statuses are readable.
PauseLifts == NetworkRecovers => (paused ~> ~paused \/ Stopping)

\* An expired reduce lease takes the rights off its holder.
ExpiredHandsBack ==
    NetworkRecovers =>
        (bot = "taker" /\ mode = "reduce" /\ lease.left = 0 ~> mode = "normal" \/ Stopping)

-----------------------------------------------------------------------------
(* The inductive invariant behind OneWriter and ImplementsRights           *)

\* The active slot's role is what the regime says; an empty slot is NoTask.
RolesAgree ==
    LET t == task["active"]
    IN  /\ mode = "reduce" => bot = "taker"
        /\ t.st # "none" =>
              /\ bot = "taker" => t.role = (IF mode = "reduce" THEN "reduce" ELSE "taker")
              /\ bot = "xemm" => t.role = "xemm"
              /\ bot # "none"
        /\ t.st = "none" => t = NoTask
        /\ t.role # "observer" /\ (t.role = "none" => t = NoTask)

\* The observer slot only holds observers, and none of them ever sees a lease.
ObserverHarmless ==
    LET o == task["observer"]
    IN  /\ o.role \in {"observer", "none"}
        /\ o.st = "none" \/ o.role = "none" => o = NoTask
        /\ ~o.seen /\ o.phase # "exec"

\* A finished engine does nothing; only a lease-bound taker caches a lease.
FinishedIdle ==
    \A s \in Slots : Finished(task[s]) => task[s].phase = "init" /\ ~task[s].seen

SeenOnlyLeaseBound == task["active"].seen => task["active"].role = "reduce"

\* From the moment a holder is cancelled until its successor starts.
RevokedWhileStopping ==
    pc \in {"stopActive", "verify", "grant", "haltActive", "haltObserver", "latch",
            "shutActive", "shutObserver", "down", "verifyStart"} => lease = NoLease

\* Nothing runs before the startup check, and nothing is active during a handover.
SlotsFree ==
    /\ pc \in {"verifyStart", "down"} => task["observer"] = NoTask
    /\ pc \in {"verifyStart", "down", "verify", "grant", "haltObserver", "latch", "shutObserver"} =>
          bot = "none" /\ task["active"] = NoTask

\* A handover to a taker has stopped the observer by the time it stops the holder.
PlanHonoured ==
    /\ plan.why = "switch" => plan.target \in Bots
    /\ pc \in {"ensure", "switch", "stopObserver", "readXemm"} => plan.why = "switch"
    /\ pc = "stopObserver" => plan.target = "taker"
    /\ pc \in {"stopActive", "verify", "grant"} =>
          (plan.why = "switch" /\ plan.target = "taker" => task["observer"] = NoTask)

\* Only an armed XEMM leaves an order resting while it lives; without a live
\* engine one rests only where no engine can start before a verification.
RestingExplained ==
    LET t == task["active"]
    IN  resting =>
          /\ Alive(t) => t.role = "xemm" /\ t.phase # "init"
          /\ ~Alive(t) => halted \/ t.st = "err" \/ pc \in {"verifyStart", "down", "shutObserver"}

XemmMarked ==
    LET t == task["active"]
    IN  Alive(t) /\ t.role = "xemm" /\ t.phase # "init" => "xemm" \in markers

\* safe_halt is entered with the flag set.
HaltFlagged == pc \in {"halt", "haltActive", "haltObserver", "latch"} => halted

IInv ==
    /\ TypeOK /\ RolesAgree /\ ObserverHarmless /\ FinishedIdle /\ SeenOnlyLeaseBound
    /\ RevokedWhileStopping /\ SlotsFree /\ PlanHonoured /\ RestingExplained /\ XemmMarked
    /\ HaltFlagged /\ LeaseHasHolder /\ NoObserverBesideTaker

=============================================================================
