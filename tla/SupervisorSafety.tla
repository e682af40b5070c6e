--------------------------- MODULE SupervisorSafety ---------------------------
(***************************************************************************)
(* Every reachable state of the supervisor is typed, and IInv              *)
(* (Supervisor.tla) is inductive, for every value of the constants; from   *)
(* it follow that one engine at most can submit orders, that no observer   *)
(* stands beside a taker and that a lease has a holder; the supervisor     *)
(* implements ExecutionRights, a reduce lease keeps its term, and, with a  *)
(* disk that works, every halt latches the breaker.                        *)
(***************************************************************************)
EXTENDS ConfirmWindow, TLAPS

USE DEF regimeVars, networkVars, controlVars, durableVars

-----------------------------------------------------------------------------
(* The helpers keep their types                                            *)

\* The numeric constants, out of the set notation of the assumptions.
LEMMA Bounds ==
    /\ MaxStatusFailures \in Nat \ {0} /\ StableTicks \in Nat \ {0}
    /\ CrashLoopExits \in Nat \ {0} /\ LeaseTicks \in Nat \ {0}
    /\ BurstFresh \in Nat /\ LeaseMaxTicks \in Nat /\ MinExtension \in Nat /\ MaxAge \in Nat
    /\ LeaseMaxTicks >= LeaseTicks
    /\ MaxAge >= BlockedConfirm /\ MaxAge >= ResumeConfirm
    /\ BlockedConfirm \in Nat /\ ResumeConfirm \in Nat
  BY SupervisorAssumption, HysteresisBand

\* The helpers on engine tasks return tasks.
LEMMA TaskTypes ==
    /\ NoTask \in Task /\ NoPlan \in Plan
    /\ \A role \in Roles : Spawn(role) \in Task
    /\ \A t \in Task : Cancel(t) \in Task /\ Reaped(t) \in Task
    /\ \A t \in Task, st \in {"ok", "err"} : Done(t, st) \in Task
  BY DEF NoTask, Spawn, Cancel, Reaped, Done, Task, Roles, NoPlan, Plan, Bots, Modes

\* So do the slots and what ensure_observer_for and the promotion put there.
LEMMA SlotTypes ==
    ASSUME TypeOK
    PROVE  /\ task["active"] \in Task /\ task["observer"] \in Task
           /\ [task["observer"] EXCEPT !.role = "reduce"] \in Task
           /\ \A target : ObserverAfter(target) \in Task
           /\ LeaseActive \in BOOLEAN
<1>1. task["active"] \in Task /\ task["observer"] \in Task
  BY DEF TypeOK, Slots
<1>2. [task["observer"] EXCEPT !.role = "reduce"] \in Task
  BY <1>1 DEF Task, Roles
<1>3. \A target : ObserverAfter(target) \in Task
  BY <1>1, TaskTypes DEF ObserverAfter, Roles
<1>4. LeaseActive \in BOOLEAN
  BY DEF LeaseActive
<1> QED BY <1>1, <1>2, <1>3, <1>4

\* grant_lease and extend_lease return leases.
LEMMA LeaseTypes ==
    /\ \A l \in Lease \cup {NoLease} : Granted(l) \in Lease /\ Extended(l) \in Lease
    /\ NoLease \notin Lease
<1> USE SupervisorAssumption
<1>1. NoLease \notin Lease
  BY DEF NoLease, Lease
<1>2. ASSUME NEW l \in Lease \cup {NoLease} PROVE Granted(l) \in Lease
  BY <1>1 DEF Granted, Lease, Least
<1>3. ASSUME NEW l \in Lease \cup {NoLease} PROVE Extended(l) \in Lease
  BY <1>1, <1>2 DEF Extended, Lease, Least
<1> QED BY <1>1, <1>2, <1>3

SinceType == [blocked : Unset..MaxAge, ready : Unset..MaxAge]

\* decide() returns a target with a mode and keeps its windows in range.
LEMMA DecideTypes ==
    ASSUME NEW b \in Bots \cup {"none"}, NEW m \in Modes, NEW a \in BOOLEAN,
           NEW w \in SinceType, NEW t, NEW x
    PROVE  /\ Decide(b, m, a, w, t, x) \in [target : Bots \cup {"halt"}, mode : Modes]
           /\ NextWindows(b, m, w, t, x) \in SinceType
<1> USE SupervisorAssumption, HysteresisBand
<1>1. \A s \in Unset..MaxAge, c \in BOOLEAN : Observe(s, c) \in Unset..MaxAge
  BY DEF Observe, Unset
<1>2. TakerBlocked(t) \in BOOLEAN /\ ReadyForTaker(t) \in BOOLEAN
  BY DEF TakerBlocked, ReadyForTaker
<1>3. Windows(b, m, w, t) \in SinceType
  BY <1>1, <1>2 DEF Windows, SinceType
<1>4. NextWindows(b, m, w, t, x) \in SinceType
  BY <1>3 DEF NextWindows
<1>5. \A s : DecideReduce(s, a) \in [target : Bots \cup {"halt"}, mode : Modes]
  BY DEF DecideReduce, Stay, Bots, Modes
<1>6. Decide(b, m, a, w, t, x) \in [target : Bots \cup {"halt"}, mode : Modes]
  BY <1>5 DEF Decide, Stay, Halt, Bots, Modes
<1> QED BY <1>4, <1>6

-----------------------------------------------------------------------------
\* The start states are typed.
LEMMA TypeInit == Init => TypeOK
<1> SUFFICES ASSUME Init PROVE TypeOK
  OBVIOUS
<1>1. task \in [Slots -> Task] /\ plan \in Plan
  BY TaskTypes DEF Init
<1>2. since \in [blocked : Unset..MaxAge, ready : Unset..MaxAge]
  BY Bounds DEF Init, NoWindows, Unset
<1>3. burst \in 0..NoBurst /\ failures \in 0..MaxStatusFailures /\ stable \in 0..StableTicks
      /\ exits \in 0..CrashLoopExits
  BY Bounds DEF Init, NoBurst
<1>4. /\ paused \in BOOLEAN /\ observerWait \in BOOLEAN /\ halted \in BOOLEAN
      /\ stopReq \in BOOLEAN /\ breaker \in BOOLEAN /\ resting \in BOOLEAN
  BY DEF Init
<1> QED
  BY <1>1, <1>2, <1>3, <1>4 DEF Init, TypeOK, PCs, Bots, Modes

\* Every step keeps the types: one case per action.
LEMMA TypeStep == ASSUME TypeOK, [Next]_vars PROVE TypeOK'
<1> USE DEF TypeOK, PCs, Bots, Modes
<1>1. CASE VerifyStartClear
  BY <1>1 DEF VerifyStartClear
<1>2. CASE VerifyStartFails
  BY <1>2 DEF Halting, NoPlan, Plan, VerifyStartFails
<1>3. ASSUME NEW ack \in BOOLEAN, Launch(ack)
      PROVE  TypeOK'
  BY <1>3 DEF Launch
<1>4. CASE ResolveSessions
  BY <1>4 DEF ResolveSessions
<1>5. ASSUME NEW from \in {"fast", "tick", "ensure"}, NEW next \in {"burst", "poll", "switch"},
            from = "ensure" <=> next = "switch", CheckExits(from, next)
      PROVE  TypeOK'
  <2>1. task' \in [Slots -> Task]
    BY <1>5, TaskTypes, SlotTypes DEF CheckExits, Roles, Slots
  <2> QED BY <1>5, <2>1 DEF CheckExits, Finished, Stopping
<1>6. ASSUME NEW from \in {"fast", "tick", "ensure"}, NEW next \in {"burst", "poll", "switch"},
            from = "ensure" <=> next = "switch", ReapActive(from, next)
      PROVE  TypeOK'
  <2>1. task' \in [Slots -> Task]
    BY <1>6, TaskTypes, SlotTypes DEF NoLease, ReapActive, Roles, Slots
  <2>2. halted' \in BOOLEAN /\ stopReq' \in BOOLEAN /\ observerWait' \in BOOLEAN
    BY <1>6 DEF ReapActive, Halting, Finished
  <2>3. pc' \in PCs
    BY <1>6 DEF ReapActive, Halting
  <2>4. plan' \in Plan
    BY <1>6, TaskTypes DEF ReapActive, Halting
  <2>5. since' \in [blocked : Unset..MaxAge, ready : Unset..MaxAge]
    BY <1>6, Bounds DEF ReapActive, NoWindows, Unset
  <2>6. exits' \in 0..CrashLoopExits
    BY <1>6, Bounds DEF ReapActive, Least, Halting
  <2> QED BY <1>6, Bounds, <2>1, <2>2, <2>3, <2>4, <2>5, <2>6 DEF Finished, Halting, NoLease,
      NoPlan, NoWindows, ReapActive, Slots, Stopping
<1>7. CASE IgnoreBurst
  BY <1>7 DEF IgnoreBurst
<1>8. CASE ExtendOnBurst
  BY <1>8, Bounds, LeaseTypes DEF ExtendOnBurst, NoBurst
<1>9. CASE ActivateReduce
  <2>1. task' \in [Slots -> Task]
    BY <1>9, TaskTypes, SlotTypes DEF ActivateReduce, NoBurst, Roles, Slots
  <2> QED BY <1>9, Bounds, <2>1 DEF ActivateReduce, NoBurst, NoPlan, NoWindows, Plan, Unset
<1>10. CASE SkipTick
  BY <1>10 DEF SkipTick
<1>11. ASSUME NEW t, NEW x, StatusLost(t, x)
      PROVE  TypeOK'
  BY <1>11, Bounds DEF Least, StatusLost
<1>12. ASSUME NEW t, NEW x, LossStop(t, x)
      PROVE  TypeOK'
  <2>1. plan' \in Plan
    BY <1>12 DEF LossStop, Halting, NoPlan, Plan
  <2>2. halted' \in BOOLEAN /\ stopReq' \in BOOLEAN /\ observerWait' \in BOOLEAN
    BY <1>12 DEF LossStop, Halting
  <2>3. lease' \in Lease \cup {NoLease}
    BY <1>12, LeaseTypes DEF LossStop, StatusRead
  <2> QED BY <1>12, Bounds, <2>1, <2>2, <2>3 DEF Halting, LossStop, NoPlan, StatusRead
<1>13. ASSUME NEW t, NEW x, HoldWhilePaused(t, x)
      PROVE  TypeOK'
  BY <1>13, Bounds, LeaseTypes DEF HoldWhilePaused, StatusRead
<1>14. ASSUME NEW t, NEW x, DecideTick(t, x)
      PROVE  TypeOK'
  <2> DEFINE active   == lease' # NoLease /\ lease'.left > 0
             decision == Decide(bot, mode, active, since, t, x)
  <2>1. lease' \in Lease \cup {NoLease}
    BY <1>14, LeaseTypes DEF TypeOK, DecideTick, StatusRead
  <2>2. /\ decision \in [target : Bots \cup {"halt"}, mode : Modes]
        /\ NextWindows(bot, mode, since, t, x) \in SinceType
    <3>1. active \in BOOLEAN
      OBVIOUS
    <3>2. bot \in Bots \cup {"none"} /\ mode \in Modes /\ since \in SinceType
      BY DEF TypeOK, SinceType
    <3> HIDE DEF active
    <3> QED BY <3>1, <3>2, DecideTypes
  <2>3. since' \in [blocked : Unset..MaxAge, ready : Unset..MaxAge]
    BY <1>14, <2>2 DEF DecideTick, SinceType
  <2>4. failures' \in 0..MaxStatusFailures /\ stable' \in 0..StableTicks
    BY <1>14, Bounds DEF TypeOK, DecideTick, StatusRead, Least
  <2>5. plan' \in Plan /\ pc' \in PCs
    <3>1. CASE decision.target = "halt"
      BY <1>14, <3>1, TaskTypes DEF DecideTick, Halting, PCs
    <3>2. CASE decision.target # "halt"
      <4>1. [why |-> "switch", target |-> decision.target,
             mode |-> decision.mode, verify |-> FALSE] \in Plan
        BY <2>2, <3>2 DEF Plan
      <4> QED BY <1>14, <3>2, <4>1 DEF DecideTick, PCs
    <3> QED BY <3>1, <3>2
  <2>6. paused' \in BOOLEAN /\ halted' \in BOOLEAN /\ stopReq' \in BOOLEAN /\ observerWait' \in BOOLEAN
    BY <1>14 DEF TypeOK, DecideTick, Halting
  <2>7. UNCHANGED <<bot, mode, burst, exits, task, breaker, markers, resting>>
    BY <1>14 DEF DecideTick
  <2> QED BY <2>1, <2>3, <2>4, <2>5, <2>6, <2>7 DEF TypeOK
<1>15. ASSUME NEW x, ReadXemm(x)
      PROVE  TypeOK'
  <2>1. NoPlan \in Plan
    BY <1>15 DEF NoPlan, Plan
  <2>2. plan' \in Plan
    BY <1>15, <2>1 DEF ReadXemm, Halting
  <2>3. halted' \in BOOLEAN /\ stopReq' \in BOOLEAN /\ observerWait' \in BOOLEAN
    BY <1>15 DEF ReadXemm, Halting
  <2> QED BY <1>15, <2>1, <2>2, <2>3 DEF Halting, NoPlan, ReadXemm
<1>16. CASE KeepBot
  <2>1. task' \in [Slots -> Task]
    BY <1>16, TaskTypes, SlotTypes DEF KeepBot, Roles, Slots
  <2>2. plan' \in Plan
    BY <1>16 DEF KeepBot, NoPlan, Plan
  <2>3. observerWait' \in BOOLEAN
    BY <1>16 DEF KeepBot, WaitAfter, Finished
  <2> QED BY <1>16, <2>1, <2>2, <2>3 DEF KeepBot, NoPlan
<1>17. CASE BeginSwitch
  <2>1. task' \in [Slots -> Task]
    BY <1>17, TaskTypes, SlotTypes DEF BeginSwitch, NoLease, Revoked, Roles, Slots
  <2>2. plan' \in Plan
    BY <1>17 DEF BeginSwitch, Plan
  <2>3. observerWait' \in BOOLEAN
    BY <1>17 DEF BeginSwitch, Finished
  <2>4. lease' \in Lease \cup {NoLease}
    BY <1>17 DEF BeginSwitch, Revoked
  <2> QED BY <1>17, <2>1, <2>2, <2>3, <2>4 DEF BeginSwitch, Finished, NoLease, Revoked
<1>18. CASE ObserverStopped
  <2>1. task' \in [Slots -> Task]
    BY <1>18, TaskTypes, SlotTypes DEF NoLease, ObserverStopped, Revoked, Roles, Slots
  <2> QED BY <1>18, <2>1 DEF NoLease, ObserverStopped, Revoked, Slots
<1>19. CASE ObserverStopFails
  <2>1. task' \in [Slots -> Task]
    BY <1>19, TaskTypes, SlotTypes DEF ObserverStopFails, Roles, Slots, StopFailed
  <2> QED BY <1>19, <2>1 DEF Halting, MayRest, NoPlan, ObserverStopFails, Plan, StopFailed
<1>20. CASE ActiveStopped
  <2>1. task' \in [Slots -> Task]
    BY <1>20, TaskTypes, SlotTypes DEF ActiveStopped, Roles, Slots
  <2> QED BY <1>20, <2>1 DEF ActiveStopped
<1>21. CASE ActiveStopFails
  <2>1. task' \in [Slots -> Task]
    BY <1>21, TaskTypes, SlotTypes DEF ActiveStopFails, Roles, Slots, StopFailed
  <2> QED BY <1>21, <2>1 DEF ActiveStopFails, Halting, MayRest, NoPlan, Plan, StopFailed
<1>22. CASE VerifyClear
  BY <1>22 DEF VerifyClear
<1>23. CASE VerifyFails
  BY <1>23 DEF Halting, NoPlan, Plan, VerifyFails
<1>24. CASE AbandonGrant
  BY <1>24 DEF AbandonGrant, NoPlan, Plan, Stopping
<1>25. CASE GrantReduce
  <2>1. task' \in [Slots -> Task]
    BY <1>25, TaskTypes, SlotTypes DEF GrantReduce, Roles, Slots
  <2>2. plan' \in Plan
    BY <1>25 DEF GrantReduce, NoPlan, Plan
  <2>3. observerWait' \in BOOLEAN
    BY <1>25 DEF GrantReduce, Finished
  <2>4. lease' \in Lease
    BY <1>25, LeaseTypes DEF GrantReduce
  <2> QED BY <1>25, Bounds, <2>1, <2>2, <2>3, <2>4 DEF Finished, GrantReduce, NoPlan, Stopping
<1>26. CASE GrantBot
  <2>1. task' \in [Slots -> Task]
    BY <1>26, TaskTypes, SlotTypes DEF GrantBot, Roles, Slots
  <2>2. plan' \in Plan
    BY <1>26 DEF GrantBot, NoPlan, Plan
  <2>3. observerWait' \in BOOLEAN
    BY <1>26 DEF GrantBot, WaitAfter, Finished
  <2>4. bot' \in Bots \cup {"none"} /\ mode' \in Modes
    BY <1>26 DEF GrantBot, Plan
  <2>5. since' \in [blocked : Unset..MaxAge, ready : Unset..MaxAge]
    BY <1>26, Bounds DEF GrantBot, NoWindows, Unset
  <2> QED BY <1>26, Bounds, <2>1, <2>2, <2>3, <2>4, <2>5 DEF GrantBot, NoPlan, NoWindows,
      Stopping
<1>27. CASE SafeHalt
  <2>1. task' \in [Slots -> Task]
    BY <1>27, TaskTypes, SlotTypes DEF NoLease, Revoked, Roles, SafeHalt, Slots
  <2> QED BY <1>27, <2>1 DEF NoLease, Revoked, SafeHalt
<1>28. CASE Shutdown
  <2>1. task' \in [Slots -> Task]
    BY <1>28, TaskTypes, SlotTypes DEF NoLease, Revoked, Roles, Shutdown, Slots
  <2> QED BY <1>28, <2>1 DEF NoLease, NoPlan, Plan, Revoked, Shutdown, Stopping
<1>29. ASSUME NEW from \in {"haltActive", "shutActive"}, NEW next \in {"haltObserver",
            "shutObserver"}, from = "haltActive" <=> next = "haltObserver",
            FinalActiveStopped(from, next)
      PROVE  TypeOK'
  <2>1. task' \in [Slots -> Task]
    BY <1>29, TaskTypes, SlotTypes DEF FinalActiveStopped, Roles, Slots
  <2> QED BY <1>29, <2>1 DEF FinalActiveStopped, MayRest
<1>30. CASE FinalObserverStopped("haltObserver", "latch")
  <2>1. task' \in [Slots -> Task]
    BY <1>30, TaskTypes, SlotTypes DEF FinalObserverStopped, Roles, Slots, StopFailed
  <2> QED BY <1>30, <2>1 DEF FinalObserverStopped, MayRest, StopFailed
<1>31. CASE Latch
  BY <1>31 DEF Latch
<1>32. CASE EndProcess
  <2>1. task' \in [Slots -> Task]
    BY <1>32, TaskTypes, SlotTypes DEF EndProcess, NoBurst, NoLease, Reset, Roles, Slots
  <2>2. resting' \in BOOLEAN
    BY <1>32 DEF EndProcess, MayRest
  <2>3. plan' \in Plan /\ since' \in [blocked : Unset..MaxAge,
  ready : Unset..MaxAge] /\ burst' \in 0..NoBurst
    BY <1>32, Bounds DEF EndProcess, Reset, NoPlan, Plan, NoWindows, Unset, NoBurst
  <2>4. exits' \in 0..CrashLoopExits /\ failures' \in 0..MaxStatusFailures /\ stable' \in 0..StableTicks
    BY <1>32, Bounds DEF EndProcess, Reset
  <2>5. paused' \in BOOLEAN /\ observerWait' \in BOOLEAN
    BY <1>32 DEF EndProcess, Reset
  <2> QED BY <1>32, Bounds, <2>1, <2>2, <2>3, <2>4, <2>5 DEF EndProcess, MayRest, NoBurst,
      NoLease, NoPlan, NoWindows, Reset, Slots
<1>33. CASE Crash
  <2>1. task' \in [Slots -> Task]
    BY <1>33, TaskTypes, SlotTypes DEF Crash, NoBurst, NoLease, Reset, Roles, Slots
  <2>2. resting' \in BOOLEAN
    BY <1>33 DEF Crash, MayRest
  <2>3. plan' \in Plan /\ since' \in [blocked : Unset..MaxAge,
  ready : Unset..MaxAge] /\ burst' \in 0..NoBurst
    BY <1>33, Bounds DEF Crash, Reset, NoPlan, Plan, NoWindows, Unset, NoBurst
  <2>4. exits' \in 0..CrashLoopExits /\ failures' \in 0..MaxStatusFailures /\ stable' \in 0..StableTicks
    BY <1>33, Bounds DEF Crash, Reset
  <2>5. paused' \in BOOLEAN /\ observerWait' \in BOOLEAN
    BY <1>33 DEF Crash, Reset
  <2> QED BY <1>33, Bounds, <2>1, <2>2, <2>3, <2>4, <2>5 DEF Crash, MayRest, NoBurst, NoLease,
      NoPlan, NoWindows, Reset, Slots
<1>34. ASSUME NEW s \in Slots, Arm(s)
      PROVE  TypeOK'
  <2>1. task' \in [Slots -> Task]
    BY <1>34, TaskTypes, SlotTypes DEF Arm, EngineOnly, Roles, SessionOf, SetTask, Slots, Task
  <2> QED BY <1>34, <2>1 DEF Arm, EngineOnly, SessionOf, SetTask
<1>35. ASSUME NEW s \in Slots, RefreshLease(s)
      PROVE  TypeOK'
  <2>1. task' \in [Slots -> Task]
    BY <1>35, TaskTypes, SlotTypes DEF EngineOnly, RefreshLease, Roles, SetTask, Slots, Task
  <2> QED BY <1>35, <2>1 DEF EngineOnly, RefreshLease, SetTask
<1>36. ASSUME NEW s \in Slots, Scan(s)
      PROVE  TypeOK'
  <2>1. task' \in [Slots -> Task]
    BY <1>36, TaskTypes, SlotTypes DEF EngineOnly, Roles, Scan, SetTask, Slots, Task
  <2> QED BY <1>36, <2>1 DEF EngineOnly, Scan, SetTask
<1>37. ASSUME NEW s \in Slots, PublishBurst(s)
      PROVE  TypeOK'
  <2>1. burst' \in 0..NoBurst
    BY <1>37, Bounds DEF PublishBurst, NoBurst
  <2> QED BY <1>37, <2>1 DEF EngineOnly, PublishBurst
<1>38. ASSUME NEW s \in Slots, Execute(s)
      PROVE  TypeOK'
  <2>1. task' \in [Slots -> Task]
    BY <1>38, TaskTypes, SlotTypes DEF EngineOnly, Execute, Roles, SetTask, Slots, Task
  <2> QED BY <1>38, <2>1 DEF EngineOnly, Execute, SetTask
<1>39. ASSUME NEW s \in Slots, Quote(s)
      PROVE  TypeOK'
  BY <1>39 DEF EngineOnly, Quote
<1>40. ASSUME NEW s \in Slots, Fill(s)
      PROVE  TypeOK'
  <2>1. task' \in [Slots -> Task]
    BY <1>40, TaskTypes, SlotTypes DEF EngineOnly, Fill, Roles, SetTask, Slots, Task
  <2> QED BY <1>40, <2>1 DEF EngineOnly, Fill, SetTask
<1>41. ASSUME NEW s \in Slots, Settle(s)
      PROVE  TypeOK'
  <2>1. task' \in [Slots -> Task]
    BY <1>41, TaskTypes, SlotTypes DEF EngineOnly, Roles, SetTask, Settle, Slots, Task
  <2> QED BY <1>41, <2>1 DEF EngineOnly, SetTask, Settle
<1>42. ASSUME NEW s \in Slots, ExitOk(s)
      PROVE  TypeOK'
  <2>1. task' \in [Slots -> Task]
    BY <1>42, TaskTypes, SlotTypes DEF EngineOnly, ExitOk, Roles, SessionOf, SetTask, Slots, Task
  <2> QED BY <1>42, <2>1 DEF EngineOnly, ExitOk, SessionOf, SetTask
<1>43. ASSUME NEW s \in Slots, ExitErr(s)
      PROVE  TypeOK'
  <2>1. task' \in [Slots -> Task]
    BY <1>43, TaskTypes, SlotTypes DEF EngineOnly, ExitErr, Roles, SetTask, Slots, Task
  <2>2. resting' \in BOOLEAN
    BY <1>43 DEF ExitErr, MayRest
  <2> QED BY <1>43, <2>1, <2>2 DEF EngineOnly, ExitErr, MayRest, SetTask
<1>44. CASE OrderGone
  <2>1. resting' \in BOOLEAN
    BY <1>44 DEF OrderGone
  <2> QED BY <1>44, <2>1 DEF OrderGone
<1>45. CASE StopRequest
  BY <1>45 DEF StopRequest
<1>46. CASE ObserverRetryDue
  <2>1. observerWait' \in BOOLEAN
    BY <1>46 DEF ObserverRetryDue
  <2> QED BY <1>46, <2>1 DEF ObserverRetryDue
<1>47. CASE Tick
  BY <1>47, Bounds DEF Lease, Least, NoBurst, NoLease, Older, Tick, Unset
<1>48. CASE FastStep \/ TickDue \/ CheckSwitch
  BY <1>48, <1>5, <1>6, <1>7, <1>8, <1>9 DEF FastStep, TickDue, CheckSwitch, Exits
<1>49. CASE SwitchStep
  BY <1>49, <1>16, <1>17, <1>18, <1>19, <1>20, <1>21, <1>22, <1>23, <1>24, <1>25, <1>26, <1>48
      DEF SwitchStep
<1>50. CASE EndStep
  BY <1>50, <1>27, <1>29, <1>30, <1>31, <1>28, <1>32 DEF EndStep
<1>51. CASE ControlStep
  BY <1>51, <1>1, <1>2, <1>10, <1>15, <1>48, <1>49, <1>50 DEF ControlStep
<1>52. CASE PollStep
  BY <1>52, <1>11, <1>12, <1>13, <1>14 DEF PollStep, Poll
<1>53. CASE EngineStep
  BY <1>53, <1>34, <1>35, <1>36, <1>37, <1>38, <1>39, <1>40, <1>41, <1>42, <1>43 DEF EngineStep
<1>54. CASE Environment
  BY <1>54, <1>44, <1>45, <1>46, <1>33, <1>4, <1>3 DEF Environment
<1>55. CASE UNCHANGED vars
  BY <1>55 DEF vars
<1> QED BY <1>51, <1>52, <1>53, <1>54, <1>47, <1>55 DEF Next

\* Every reachable state of the supervisor, its engines and the venues is typed:
\* no counter, window, lease or slot ever leaves its range.
THEOREM TypesHold == Spec => []TypeOK
<1>1. Init => TypeOK
  BY TypeInit
<1>2. TypeOK /\ [Next]_vars => TypeOK'
  BY TypeStep
<1> QED BY <1>1, <1>2, PTL DEF Spec

-----------------------------------------------------------------------------
(* IInv is inductive                                                       *)

\* Task::stop changes nothing but a running task's state.
LEMMA CancelKeeps ==
    ASSUME NEW t \in Task
    PROVE  /\ Cancel(t).role = t.role /\ Cancel(t).phase = t.phase /\ Cancel(t).seen = t.seen
           /\ Cancel(t).st = (IF t.st = "run" THEN "stopping" ELSE t.st)
           /\ t = NoTask => Cancel(t) = NoTask
           /\ Cancel(t) \in Task
<1>1. CASE t.st = "run"
  <2>1. Cancel(t) = [t EXCEPT !.st = "stopping"] /\ t # NoTask
    BY <1>1 DEF Cancel, NoTask
  <2> QED BY <1>1, <2>1 DEF Task
<1>2. CASE t.st # "run"
  BY <1>2 DEF Cancel
<1> QED BY <1>1, <1>2

\* Reaping leaves a slot alone or empties it.
LEMMA ReapedKeeps ==
    ASSUME NEW t \in Task
    PROVE  Reaped(t) = t \/ Reaped(t) = NoTask
  BY DEF Reaped

\* What one engine step may do to its own slot; the rest of IInv is then as before.
LEMMA EngineKeeps ==
    ASSUME IInv, NEW s \in Slots, NEW new \in Task, Alive(task[s]),
           SetTask(s, new), EngineOnly,
           new.role = task[s].role, new.st # "none",
           Finished(new) => new.phase = "init" /\ ~new.seen,
           new.seen => new.role = "reduce",
           new.phase = "exec" => new.role # "observer"
    PROVE  /\ RolesAgree' /\ ObserverHarmless' /\ FinishedIdle' /\ SeenOnlyLeaseBound'
           /\ RevokedWhileStopping' /\ SlotsFree' /\ PlanHonoured'
           /\ HaltFlagged' /\ LeaseHasHolder' /\ NoObserverBesideTaker'
<1>1. /\ task' = [task EXCEPT ![s] = new]
      /\ task \in [Slots -> Task]
      /\ UNCHANGED <<pc, plan, bot, mode, lease, halted>>
      /\ task[s] # NoTask /\ task[s].role # "none"
  BY DEF SetTask, EngineOnly, IInv, TypeOK, NoTask, Alive, RolesAgree, ObserverHarmless, Slots
<1>2. CASE s = "active"
  <2>1. task'["active"] = new /\ task'["observer"] = task["observer"]
    BY <1>1, <1>2 DEF Slots
  <2>2. RolesAgree'
    BY <1>1, <1>2, <2>1 DEF IInv, RolesAgree, Alive, NoTask
  <2>3. /\ ObserverHarmless' /\ NoObserverBesideTaker' /\ PlanHonoured'
        /\ HaltFlagged' /\ LeaseHasHolder' /\ RevokedWhileStopping'
    BY <1>1, <2>1 DEF IInv, HaltFlagged, ObserverHarmless, NoObserverBesideTaker, PlanHonoured,
        LeaseHasHolder, RevokedWhileStopping
  <2>4. FinishedIdle' /\ SeenOnlyLeaseBound'
    BY <2>1 DEF IInv, FinishedIdle, SeenOnlyLeaseBound, Slots
  <2>5. SlotsFree'
    BY <1>1, <1>2, <2>1 DEF IInv, SlotsFree
  <2> QED BY <2>2, <2>3, <2>4, <2>5
<1>3. CASE s = "observer"
  <2>1. task'["observer"] = new /\ task'["active"] = task["active"] /\ new.role = "observer"
    BY <1>1, <1>3 DEF Slots, IInv, ObserverHarmless
  <2>2. /\ RolesAgree' /\ SeenOnlyLeaseBound'
        /\ HaltFlagged' /\ LeaseHasHolder' /\ RevokedWhileStopping'
    BY <1>1, <2>1 DEF IInv, HaltFlagged, RolesAgree, SeenOnlyLeaseBound, LeaseHasHolder,
        RevokedWhileStopping
  <2>3. ObserverHarmless'
    BY <2>1 DEF ObserverHarmless
  <2>4. NoObserverBesideTaker' /\ PlanHonoured' /\ SlotsFree'
    BY <1>1, <1>3, <2>1 DEF IInv, NoObserverBesideTaker, PlanHonoured, SlotsFree
  <2>5. FinishedIdle'
    BY <2>1 DEF IInv, FinishedIdle, Slots
  <2> QED BY <2>2, <2>3, <2>4, <2>5
<1> QED BY <1>2, <1>3 DEF Slots

\* The start states satisfy IInv.
LEMMA InvInit == Init => IInv
  BY TypeInit DEF Init, IInv, RolesAgree, ObserverHarmless, FinishedIdle, SeenOnlyLeaseBound,
      RevokedWhileStopping, SlotsFree, PlanHonoured, RestingExplained, XemmMarked, HaltFlagged,
      LeaseHasHolder, NoObserverBesideTaker, NoTask, NoPlan, Finished, Alive, Slots

\* Every step keeps IInv: one case per action.
LEMMA InvStep == ASSUME IInv, [Next]_vars PROVE IInv'
<1>0. TypeOK /\ TypeOK'
  BY TypeStep DEF IInv
<1>1. CASE VerifyStartClear \/ IgnoreBurst \/ SkipTick
  BY <1>0, <1>1 DEF VerifyStartClear, IgnoreBurst, SkipTick, IInv, RolesAgree, ObserverHarmless,
      FinishedIdle, SeenOnlyLeaseBound, RevokedWhileStopping, SlotsFree, PlanHonoured,
      RestingExplained, XemmMarked, HaltFlagged, LeaseHasHolder, NoObserverBesideTaker, NoTask
<1>2. CASE VerifyStartFails \/ VerifyFails
  BY <1>0, <1>2 DEF VerifyStartFails, VerifyFails, Halting, NoPlan, IInv, RolesAgree,
      ObserverHarmless, FinishedIdle, SeenOnlyLeaseBound, RevokedWhileStopping, SlotsFree,
      PlanHonoured, RestingExplained, XemmMarked, HaltFlagged, LeaseHasHolder,
      NoObserverBesideTaker, NoTask
<1>3. ASSUME NEW ack \in BOOLEAN, Launch(ack)
      PROVE  IInv'
  BY <1>0, <1>3 DEF Launch, IInv, TypeOK, RolesAgree, ObserverHarmless, FinishedIdle,
      SeenOnlyLeaseBound, RevokedWhileStopping, SlotsFree, PlanHonoured, RestingExplained,
      XemmMarked, HaltFlagged, LeaseHasHolder, NoObserverBesideTaker, Alive, Finished, NoTask,
      Slots
<1>4. CASE ResolveSessions
  BY <1>0, <1>4 DEF ResolveSessions, IInv, TypeOK, RolesAgree, ObserverHarmless, FinishedIdle,
      SeenOnlyLeaseBound, RevokedWhileStopping, SlotsFree, PlanHonoured, RestingExplained,
      XemmMarked, HaltFlagged, LeaseHasHolder, NoObserverBesideTaker, Alive, Finished, NoTask,
      Slots
<1>5. ASSUME NEW from \in {"fast", "tick", "ensure"}, NEW next \in {"burst", "poll", "switch"},
            from = "ensure" <=> next = "switch", CheckExits(from, next)
      PROVE  IInv'
  <2>1. /\ task'["active"] = task["active"]
        /\ task'["observer"] \in {task["observer"], NoTask}
        /\ UNCHANGED <<bot, mode, lease, plan, resting, markers, halted>>
        /\ pc = from /\ pc' \in {"fast", next}
    BY <1>5, ReapedKeeps DEF CheckExits, IInv, TypeOK, Slots
  <2>2. RolesAgree' /\ SeenOnlyLeaseBound' /\ XemmMarked'
    BY <2>1 DEF IInv, RolesAgree, SeenOnlyLeaseBound, XemmMarked, SlotsFree, Alive, NoTask,
        Stopping
  <2>3. ObserverHarmless' /\ NoObserverBesideTaker'
    <3>1. CASE task'["observer"] = task["observer"]
      BY <2>1, <3>1 DEF IInv, ObserverHarmless, NoObserverBesideTaker, PlanHonoured, NoTask,
          Stopping
    <3>2. CASE task'["observer"] = NoTask
      BY <2>1, <3>2 DEF IInv, ObserverHarmless, NoObserverBesideTaker, PlanHonoured, NoTask,
          Stopping
    <3> QED BY <2>1, <3>1, <3>2
  <2>4. FinishedIdle'
    BY <2>1 DEF IInv, FinishedIdle, Finished, Slots, NoTask, Stopping
  <2>5. RevokedWhileStopping' /\ LeaseHasHolder'
    BY <2>1 DEF IInv, RevokedWhileStopping, LeaseHasHolder, NoLease, Stopping
  <2>6. SlotsFree' /\ PlanHonoured'
    BY <1>5, <2>1 DEF IInv, SlotsFree, PlanHonoured, NoTask, NoPlan, Stopping
  <2>7. RestingExplained' /\ HaltFlagged'
    BY <2>1 DEF IInv, HaltFlagged, RestingExplained, Alive, Finished, SlotsFree, NoTask,
        RolesAgree, Stopping
  <2> QED BY <1>0, <2>2, <2>3, <2>4, <2>5, <2>6, <2>7 DEF IInv
<1>6. ASSUME NEW from \in {"fast", "tick", "ensure"}, NEW next \in {"burst", "poll", "switch"},
            from = "ensure" <=> next = "switch", ReapActive(from, next)
      PROVE  IInv'
  BY <1>0, <1>6 DEF Finished, Halting, NoLease, NoPlan, NoTask, ReapActive, Reaped, Slots,
      Stopping, IInv, TypeOK, RolesAgree, ObserverHarmless, FinishedIdle, SeenOnlyLeaseBound,
      RevokedWhileStopping, SlotsFree, PlanHonoured, RestingExplained, XemmMarked, HaltFlagged,
      LeaseHasHolder, NoObserverBesideTaker, Alive, Roles, Task
<1>7. CASE ExtendOnBurst
  BY <1>0, <1>7 DEF ExtendOnBurst, Extended, Granted, NoLease, IInv, TypeOK, RolesAgree,
      ObserverHarmless, FinishedIdle, SeenOnlyLeaseBound, RevokedWhileStopping, SlotsFree,
      PlanHonoured, RestingExplained, XemmMarked, HaltFlagged, LeaseHasHolder,
      NoObserverBesideTaker, Alive, Finished, NoTask, Slots
<1>8. CASE ActivateReduce
  <2>1. /\ task'["active"] = Cancel(task["active"])
        /\ task'["observer"] = task["observer"]
        /\ task["active"] \in Task
        /\ task["active"] = NoTask \/ task["active"].st # "none"
    BY <1>8 DEF ActivateReduce, IInv, TypeOK, Slots, RolesAgree
  <2>2. RolesAgree' /\ SeenOnlyLeaseBound' /\ XemmMarked'
    BY <1>8, <2>1, CancelKeeps DEF ActivateReduce, IInv, RolesAgree, SeenOnlyLeaseBound,
        XemmMarked, SlotsFree, Alive, NoTask
  <2>3. ObserverHarmless' /\ NoObserverBesideTaker'
    BY <1>8, <2>1, CancelKeeps DEF ActivateReduce, IInv, ObserverHarmless, NoObserverBesideTaker,
        PlanHonoured, NoTask
  <2>4. FinishedIdle'
    BY <1>8, <2>1, CancelKeeps DEF ActivateReduce, IInv, FinishedIdle, Finished, Slots, NoTask
  <2>5. RevokedWhileStopping' /\ LeaseHasHolder'
    BY <1>8, <2>1, CancelKeeps DEF ActivateReduce, IInv, RevokedWhileStopping, LeaseHasHolder,
        NoLease
  <2>6. SlotsFree' /\ PlanHonoured'
    BY <1>8, <2>1, CancelKeeps DEF ActivateReduce, IInv, SlotsFree, PlanHonoured, NoTask, NoPlan
  <2>7. RestingExplained' /\ HaltFlagged'
    BY <1>8, <2>1, CancelKeeps DEF ActivateReduce, IInv, HaltFlagged, RestingExplained, Alive,
        Finished, SlotsFree, NoTask, RolesAgree
  <2> QED BY <1>0, <2>2, <2>3, <2>4, <2>5, <2>6, <2>7 DEF IInv
<1>9. ASSUME NEW t, NEW x, StatusLost(t, x)
      PROVE  IInv'
  BY <1>0, <1>9 DEF StatusLost, IInv, TypeOK, RolesAgree, ObserverHarmless, FinishedIdle,
      SeenOnlyLeaseBound, RevokedWhileStopping, SlotsFree, PlanHonoured, RestingExplained,
      XemmMarked, HaltFlagged, LeaseHasHolder, NoObserverBesideTaker, Alive, Finished, NoTask,
      Slots
<1>10. ASSUME NEW t, NEW x, LossStop(t, x)
      PROVE  IInv'
  BY <1>0, <1>10 DEF Extended, Granted, Halting, LossStop, NoLease, NoPlan, StatusRead, IInv,
      TypeOK, RolesAgree, ObserverHarmless, FinishedIdle, SeenOnlyLeaseBound,
      RevokedWhileStopping, SlotsFree, PlanHonoured, RestingExplained, XemmMarked, HaltFlagged,
      LeaseHasHolder, NoObserverBesideTaker, Alive, Finished, NoTask, Slots
<1>11. ASSUME NEW t, NEW x, HoldWhilePaused(t, x)
      PROVE  IInv'
  BY <1>0, <1>11 DEF Extended, Granted, HoldWhilePaused, NoLease, StatusRead, IInv, TypeOK,
      RolesAgree, ObserverHarmless, FinishedIdle, SeenOnlyLeaseBound, RevokedWhileStopping,
      SlotsFree, PlanHonoured, RestingExplained, XemmMarked, HaltFlagged, LeaseHasHolder,
      NoObserverBesideTaker, Alive, Finished, NoTask, Slots
<1>12. ASSUME NEW t, NEW x, DecideTick(t, x)
      PROVE  IInv'
  <2>1. /\ UNCHANGED <<task, bot, mode, resting, markers>>
        /\ lease' = lease \/ (bot = "taker" /\ mode = "reduce")
        /\ pc = "poll"
        /\ \/ pc' = "halt" /\ halted' = TRUE /\ plan' = NoPlan
           \/ /\ pc' \in {"readXemm", "ensure"} /\ UNCHANGED halted
              /\ plan'.why = "switch" /\ plan'.target \in Bots
    <3> DEFINE active   == lease' # NoLease /\ lease'.left > 0
               decision == Decide(bot, mode, active, since, t, x)
    <3>1. decision \in [target : Bots \cup {"halt"}, mode : Modes]
      BY DecideTypes DEF IInv, TypeOK, SinceType
    <3>2. /\ pc = "poll" /\ UNCHANGED <<task, bot, mode, resting, markers>>
          /\ lease' = lease \/ (bot = "taker" /\ mode = "reduce")
      BY <1>12 DEF DecideTick, StatusRead
    <3>3. CASE decision.target = "halt"
      BY <1>12, <3>2, <3>3 DEF DecideTick, Halting
    <3>4. CASE decision.target # "halt"
      <4>1. /\ pc' \in {"readXemm", "ensure"} /\ UNCHANGED halted
            /\ plan' = [why |-> "switch", target |-> decision.target,
                        mode |-> decision.mode, verify |-> FALSE]
        BY <1>12, <3>4 DEF DecideTick
      <4> QED BY <3>1, <3>2, <3>4, <4>1
    <3> QED BY <3>3, <3>4
  <2>2. RolesAgree' /\ SeenOnlyLeaseBound' /\ XemmMarked'
    BY <2>1 DEF IInv, RolesAgree, SeenOnlyLeaseBound, XemmMarked, SlotsFree, Alive, NoTask, Bots,
        Modes
  <2>3. ObserverHarmless' /\ NoObserverBesideTaker'
    BY <2>1 DEF IInv, ObserverHarmless, NoObserverBesideTaker, PlanHonoured, NoTask, Bots, Modes
  <2>4. FinishedIdle'
    BY <2>1 DEF IInv, FinishedIdle, Finished, Slots, NoTask, Bots, Modes
  <2>5. RevokedWhileStopping' /\ LeaseHasHolder'
    BY <2>1 DEF IInv, RevokedWhileStopping, LeaseHasHolder, NoLease, Bots, Modes
  <2>6. SlotsFree' /\ PlanHonoured'
    BY <2>1 DEF IInv, SlotsFree, PlanHonoured, NoTask, NoPlan, Bots, Modes
  <2>7. RestingExplained' /\ HaltFlagged'
    BY <2>1 DEF IInv, HaltFlagged, RestingExplained, Alive, Finished, SlotsFree, NoTask,
        RolesAgree, Bots, Modes
  <2> QED BY <1>0, <2>2, <2>3, <2>4, <2>5, <2>6, <2>7 DEF IInv
<1>13. ASSUME NEW x, ReadXemm(x)
      PROVE  IInv'
  BY <1>0, <1>13 DEF Halting, NoPlan, ReadXemm, IInv, TypeOK, RolesAgree, ObserverHarmless,
      FinishedIdle, SeenOnlyLeaseBound, RevokedWhileStopping, SlotsFree, PlanHonoured,
      RestingExplained, XemmMarked, HaltFlagged, LeaseHasHolder, NoObserverBesideTaker, Alive,
      Finished, NoTask, Slots
<1>14. CASE KeepBot
  <2>1. /\ task'["active"] = task["active"]
        /\ task'["observer"] \in {task["observer"], NoTask, Spawn("observer")}
        /\ bot # "xemm" => task'["observer"] = task["observer"]
        /\ Alive(task["active"])
    BY <1>14 DEF KeepBot, InPlace, ObserverAfter, IInv, TypeOK, Slots, Alive
  <2>2. RolesAgree' /\ SeenOnlyLeaseBound' /\ XemmMarked'
    BY <1>14, <2>1 DEF KeepBot, IInv, RolesAgree, SeenOnlyLeaseBound, XemmMarked, SlotsFree,
        Alive, NoTask, Spawn
  <2>3. ObserverHarmless' /\ NoObserverBesideTaker'
    <3>1. CASE task'["observer"] = task["observer"]
      BY <1>14, <2>1, <3>1 DEF KeepBot, IInv, ObserverHarmless, NoObserverBesideTaker,
          PlanHonoured, NoTask, Spawn
    <3>2. CASE task'["observer"] = NoTask
      BY <1>14, <2>1, <3>2 DEF KeepBot, IInv, ObserverHarmless, NoObserverBesideTaker,
          PlanHonoured, NoTask, Spawn
    <3>3. CASE task'["observer"] = Spawn("observer")
      BY <1>14, <2>1, <3>3 DEF KeepBot, IInv, ObserverHarmless, NoObserverBesideTaker,
          PlanHonoured, NoTask, Spawn
    <3> QED BY <2>1, <3>1, <3>2, <3>3
  <2>4. FinishedIdle'
    BY <1>14, <2>1 DEF KeepBot, IInv, FinishedIdle, Finished, Slots, NoTask, Spawn
  <2>5. RevokedWhileStopping' /\ LeaseHasHolder'
    BY <1>14, <2>1 DEF KeepBot, IInv, RevokedWhileStopping, LeaseHasHolder, NoLease, Spawn
  <2>6. SlotsFree' /\ PlanHonoured'
    BY <1>14, <2>1 DEF KeepBot, IInv, SlotsFree, PlanHonoured, NoTask, NoPlan, Spawn
  <2>7. RestingExplained' /\ HaltFlagged'
    BY <1>14, <2>1 DEF KeepBot, IInv, HaltFlagged, RestingExplained, Alive, Finished, SlotsFree,
        NoTask, RolesAgree, Spawn
  <2> QED BY <1>0, <2>2, <2>3, <2>4, <2>5, <2>6, <2>7 DEF IInv
<1>15. CASE BeginSwitch
  BY <1>0, <1>15 DEF BeginSwitch, Cancel, Finished, NoLease, NoTask, Reaped, Revoked, IInv,
      TypeOK, RolesAgree, ObserverHarmless, FinishedIdle, SeenOnlyLeaseBound,
      RevokedWhileStopping, SlotsFree, PlanHonoured, RestingExplained, XemmMarked, HaltFlagged,
      LeaseHasHolder, NoObserverBesideTaker, Alive, Roles, Slots, Task
<1>16. CASE ObserverStopped
  <2>1. /\ task'["active"] = Cancel(task["active"])
        /\ task'["observer"] = NoTask
        /\ task["active"] \in Task
    BY <1>16 DEF ObserverStopped, IInv, TypeOK, Slots
  <2>2. RolesAgree' /\ SeenOnlyLeaseBound' /\ XemmMarked'
    BY <1>16, <2>1, CancelKeeps DEF ObserverStopped, IInv, RolesAgree, SeenOnlyLeaseBound,
        XemmMarked, SlotsFree, Alive, NoTask, Revoked
  <2>3. ObserverHarmless' /\ NoObserverBesideTaker'
    BY <1>16, <2>1, CancelKeeps DEF ObserverStopped, IInv, ObserverHarmless,
        NoObserverBesideTaker, PlanHonoured, NoTask, Revoked
  <2>4. FinishedIdle'
    BY <1>16, <2>1, CancelKeeps DEF ObserverStopped, IInv, FinishedIdle, Finished, Slots, NoTask,
        Revoked
  <2>5. RevokedWhileStopping' /\ LeaseHasHolder'
    BY <1>16, <2>1, CancelKeeps DEF ObserverStopped, IInv, RevokedWhileStopping, LeaseHasHolder,
        NoLease, Revoked
  <2>6. SlotsFree' /\ PlanHonoured'
    BY <1>16, <2>1, CancelKeeps DEF ObserverStopped, IInv, SlotsFree, PlanHonoured, NoTask,
        NoPlan, Revoked
  <2>7. RestingExplained' /\ HaltFlagged'
    BY <1>16, <2>1, CancelKeeps DEF ObserverStopped, IInv, HaltFlagged, RestingExplained, Alive,
        Finished, SlotsFree, NoTask, RolesAgree, Revoked
  <2> QED BY <1>0, <2>2, <2>3, <2>4, <2>5, <2>6, <2>7 DEF IInv
<1>17. CASE ObserverStopFails
  <2>1. /\ task'["active"] = task["active"]
        /\ task'["observer"] = NoTask
        /\ UNCHANGED resting
    BY <1>17 DEF ObserverStopFails, StopFailed, MayRest, IInv, TypeOK, Slots, ObserverHarmless
  <2>2. RolesAgree' /\ SeenOnlyLeaseBound' /\ XemmMarked'
    BY <1>17, <2>1 DEF ObserverStopFails, IInv, RolesAgree, SeenOnlyLeaseBound, XemmMarked,
        SlotsFree, Alive, NoTask, Halting, StopFailed
  <2>3. ObserverHarmless' /\ NoObserverBesideTaker'
    BY <1>17, <2>1 DEF ObserverStopFails, IInv, ObserverHarmless, NoObserverBesideTaker,
        PlanHonoured, NoTask, Halting, StopFailed
  <2>4. FinishedIdle'
    BY <1>17, <2>1 DEF ObserverStopFails, IInv, FinishedIdle, Finished, Slots, NoTask, Halting,
        StopFailed
  <2>5. RevokedWhileStopping' /\ LeaseHasHolder'
    BY <1>17, <2>1 DEF ObserverStopFails, IInv, RevokedWhileStopping, LeaseHasHolder, NoLease,
        Halting, StopFailed
  <2>6. SlotsFree' /\ PlanHonoured'
    BY <1>17, <2>1 DEF ObserverStopFails, IInv, SlotsFree, PlanHonoured, NoTask, NoPlan, Halting,
        StopFailed
  <2>7. RestingExplained' /\ HaltFlagged'
    BY <1>17, <2>1 DEF ObserverStopFails, IInv, HaltFlagged, RestingExplained, Alive, Finished,
        SlotsFree, NoTask, RolesAgree, Halting, StopFailed
  <2> QED BY <1>0, <2>2, <2>3, <2>4, <2>5, <2>6, <2>7 DEF IInv
<1>18. CASE ActiveStopped
  BY <1>0, <1>18 DEF ActiveStopped, NoTask, IInv, TypeOK, RolesAgree, ObserverHarmless,
      FinishedIdle, SeenOnlyLeaseBound, RevokedWhileStopping, SlotsFree, PlanHonoured,
      RestingExplained, XemmMarked, HaltFlagged, LeaseHasHolder, NoObserverBesideTaker, Alive,
      Finished, Roles, Slots, Task
<1>19. CASE ActiveStopFails
  BY <1>0, <1>19 DEF ActiveStopFails, Alive, Halting, MayRest, NoPlan, NoTask, StopFailed, IInv,
      TypeOK, RolesAgree, ObserverHarmless, FinishedIdle, SeenOnlyLeaseBound,
      RevokedWhileStopping, SlotsFree, PlanHonoured, RestingExplained, XemmMarked, HaltFlagged,
      LeaseHasHolder, NoObserverBesideTaker, Finished, Roles, Slots, Task
<1>20. CASE VerifyClear
  BY <1>0, <1>20 DEF VerifyClear, IInv, TypeOK, RolesAgree, ObserverHarmless, FinishedIdle,
      SeenOnlyLeaseBound, RevokedWhileStopping, SlotsFree, PlanHonoured, RestingExplained,
      XemmMarked, HaltFlagged, LeaseHasHolder, NoObserverBesideTaker, Alive, Finished, NoTask,
      Slots
<1>21. CASE AbandonGrant
  BY <1>0, <1>21 DEF AbandonGrant, NoPlan, Stopping, IInv, TypeOK, RolesAgree, ObserverHarmless,
      FinishedIdle, SeenOnlyLeaseBound, RevokedWhileStopping, SlotsFree, PlanHonoured,
      RestingExplained, XemmMarked, HaltFlagged, LeaseHasHolder, NoObserverBesideTaker, Alive,
      Finished, NoTask, Slots
<1>22. CASE GrantReduce
  BY <1>0, <1>22 DEF Alive, Finished, GrantReduce, Granted, NoLease, NoPlan, NoTask, Spawn,
      Stopping, IInv, TypeOK, RolesAgree, ObserverHarmless, FinishedIdle, SeenOnlyLeaseBound,
      RevokedWhileStopping, SlotsFree, PlanHonoured, RestingExplained, XemmMarked, HaltFlagged,
      LeaseHasHolder, NoObserverBesideTaker, Roles, Slots, Task
<1>23. CASE GrantBot
  <2>1. /\ task'["active"] = Spawn(IF plan.target = "xemm" THEN "xemm"
                                    ELSE IF plan.mode = "reduce" THEN "reduce" ELSE "taker")
        /\ task'["observer"] \in {task["observer"], NoTask, Spawn("observer")}
        /\ plan.target = "taker" => task'["observer"] = task["observer"]
        /\ plan.target \in Bots /\ plan.mode \in Modes
    BY <1>23 DEF GrantBot, ObserverAfter, IInv, TypeOK, Plan, PlanHonoured
  <2>2. RolesAgree' /\ SeenOnlyLeaseBound' /\ XemmMarked'
    BY <1>23, <2>1 DEF GrantBot, IInv, RolesAgree, SeenOnlyLeaseBound, XemmMarked, SlotsFree,
        Alive, NoTask, Spawn, Bots, Modes, Stopping
  <2>3. ObserverHarmless' /\ NoObserverBesideTaker'
    <3>1. CASE task'["observer"] = task["observer"]
      BY <1>23, <2>1, <3>1 DEF GrantBot, IInv, ObserverHarmless, NoObserverBesideTaker,
          PlanHonoured, NoTask, Spawn, Bots, Modes, Stopping
    <3>2. CASE task'["observer"] = NoTask
      BY <1>23, <2>1, <3>2 DEF GrantBot, IInv, ObserverHarmless, NoObserverBesideTaker,
          PlanHonoured, NoTask, Spawn, Bots, Modes, Stopping
    <3>3. CASE task'["observer"] = Spawn("observer")
      BY <1>23, <2>1, <3>3 DEF GrantBot, IInv, ObserverHarmless, NoObserverBesideTaker,
          PlanHonoured, NoTask, Spawn, Bots, Modes, Stopping
    <3> QED BY <2>1, <3>1, <3>2, <3>3
  <2>4. FinishedIdle'
    BY <1>23, <2>1 DEF GrantBot, IInv, FinishedIdle, Finished, Slots, NoTask, Spawn, Bots, Modes,
        Stopping
  <2>5. RevokedWhileStopping' /\ LeaseHasHolder'
    BY <1>23, <2>1 DEF GrantBot, IInv, RevokedWhileStopping, LeaseHasHolder, NoLease, Spawn,
        Bots, Modes, Stopping
  <2>6. SlotsFree' /\ PlanHonoured'
    BY <1>23, <2>1 DEF GrantBot, IInv, SlotsFree, PlanHonoured, NoTask, NoPlan, Spawn, Bots,
        Modes, Stopping
  <2>7. RestingExplained' /\ HaltFlagged'
    BY <1>23, <2>1 DEF GrantBot, IInv, HaltFlagged, RestingExplained, Alive, Finished, SlotsFree,
        NoTask, RolesAgree, Spawn, Bots, Modes, Stopping
  <2> QED BY <1>0, <2>2, <2>3, <2>4, <2>5, <2>6, <2>7 DEF IInv
<1>24. CASE SafeHalt
  <2>1. /\ task'["active"] = Cancel(task["active"])
        /\ task'["observer"] = task["observer"]
        /\ task["active"] \in Task
    BY <1>24 DEF SafeHalt, IInv, TypeOK, Slots
  <2>2. RolesAgree' /\ SeenOnlyLeaseBound' /\ XemmMarked'
    BY <1>24, <2>1, CancelKeeps DEF SafeHalt, IInv, RolesAgree, SeenOnlyLeaseBound, XemmMarked,
        SlotsFree, Alive, NoTask, Revoked
  <2>3. ObserverHarmless' /\ NoObserverBesideTaker'
    BY <1>24, <2>1, CancelKeeps DEF SafeHalt, IInv, ObserverHarmless, NoObserverBesideTaker,
        PlanHonoured, NoTask, Revoked
  <2>4. FinishedIdle'
    BY <1>24, <2>1, CancelKeeps DEF SafeHalt, IInv, FinishedIdle, Finished, Slots, NoTask,
        Revoked
  <2>5. RevokedWhileStopping' /\ LeaseHasHolder'
    BY <1>24, <2>1, CancelKeeps DEF SafeHalt, IInv, RevokedWhileStopping, LeaseHasHolder,
        NoLease, Revoked
  <2>6. SlotsFree' /\ PlanHonoured'
    BY <1>24, <2>1, CancelKeeps DEF SafeHalt, IInv, SlotsFree, PlanHonoured, NoTask, NoPlan,
        Revoked
  <2>7. RestingExplained' /\ HaltFlagged'
    BY <1>24, <2>1, CancelKeeps DEF SafeHalt, IInv, HaltFlagged, RestingExplained, Alive,
        Finished, SlotsFree, NoTask, RolesAgree, Revoked
  <2> QED BY <1>0, <2>2, <2>3, <2>4, <2>5, <2>6, <2>7 DEF IInv
<1>25. CASE Shutdown
  <2>1. /\ task'["active"] = Cancel(task["active"])
        /\ task'["observer"] = task["observer"]
        /\ task["active"] \in Task
    BY <1>25 DEF Shutdown, IInv, TypeOK, Slots
  <2>2. RolesAgree' /\ SeenOnlyLeaseBound' /\ XemmMarked'
    BY <1>25, <2>1, CancelKeeps DEF Shutdown, IInv, RolesAgree, SeenOnlyLeaseBound, XemmMarked,
        SlotsFree, Alive, NoTask, Revoked
  <2>3. ObserverHarmless' /\ NoObserverBesideTaker'
    BY <1>25, <2>1, CancelKeeps DEF Shutdown, IInv, ObserverHarmless, NoObserverBesideTaker,
        PlanHonoured, NoTask, Revoked
  <2>4. FinishedIdle'
    BY <1>25, <2>1, CancelKeeps DEF Shutdown, IInv, FinishedIdle, Finished, Slots, NoTask,
        Revoked
  <2>5. RevokedWhileStopping' /\ LeaseHasHolder'
    BY <1>25, <2>1, CancelKeeps DEF Shutdown, IInv, RevokedWhileStopping, LeaseHasHolder,
        NoLease, Revoked
  <2>6. SlotsFree' /\ PlanHonoured'
    BY <1>25, <2>1, CancelKeeps DEF Shutdown, IInv, SlotsFree, PlanHonoured, NoTask, NoPlan,
        Revoked
  <2>7. RestingExplained' /\ HaltFlagged'
    BY <1>25, <2>1, CancelKeeps DEF Shutdown, IInv, HaltFlagged, RestingExplained, Alive,
        Finished, SlotsFree, NoTask, RolesAgree, Revoked
  <2> QED BY <1>0, <2>2, <2>3, <2>4, <2>5, <2>6, <2>7 DEF IInv
<1>26. ASSUME NEW from \in {"haltActive", "shutActive"}, NEW next \in {"haltObserver",
            "shutObserver"}, from = "haltActive" <=> next = "haltObserver",
            FinalActiveStopped(from, next)
      PROVE  IInv'
  <2>1. /\ task'["active"] = NoTask
        /\ task'["observer"] = Cancel(Reaped(task["observer"]))
        /\ task["observer"] \in Task /\ Reaped(task["observer"]) \in {task["observer"], NoTask}
        /\ NoTask \in Task
    BY <1>26, TaskTypes, ReapedKeeps DEF FinalActiveStopped, IInv, TypeOK, Slots
  <2>2. RolesAgree' /\ SeenOnlyLeaseBound' /\ XemmMarked'
    BY <1>26, <2>1, CancelKeeps DEF FinalActiveStopped, IInv, RolesAgree, SeenOnlyLeaseBound,
        XemmMarked, SlotsFree, Alive, NoTask, MayRest
  <2>3. ObserverHarmless' /\ NoObserverBesideTaker'
    BY <1>26, <2>1, CancelKeeps DEF FinalActiveStopped, IInv, ObserverHarmless,
        NoObserverBesideTaker, PlanHonoured, NoTask, MayRest
  <2>4. FinishedIdle'
    BY <1>26, <2>1, CancelKeeps DEF FinalActiveStopped, IInv, FinishedIdle, Finished, Slots,
        NoTask, MayRest
  <2>5. RevokedWhileStopping' /\ LeaseHasHolder'
    BY <1>26, <2>1, CancelKeeps DEF FinalActiveStopped, IInv, RevokedWhileStopping,
        LeaseHasHolder, NoLease, MayRest
  <2>6. SlotsFree' /\ PlanHonoured'
    BY <1>26, <2>1, CancelKeeps DEF FinalActiveStopped, IInv, SlotsFree, PlanHonoured, NoTask,
        NoPlan, MayRest
  <2>7. RestingExplained' /\ HaltFlagged'
    BY <1>26, <2>1, CancelKeeps DEF FinalActiveStopped, IInv, HaltFlagged, RestingExplained,
        Alive, Finished, SlotsFree, NoTask, RolesAgree, MayRest
  <2> QED BY <1>0, <2>2, <2>3, <2>4, <2>5, <2>6, <2>7 DEF IInv
<1>27. CASE FinalObserverStopped("haltObserver", "latch")
  <2>1. /\ task'["active"] = task["active"]
        /\ task'["observer"] = NoTask
        /\ UNCHANGED resting
    BY <1>27 DEF FinalObserverStopped, StopFailed, MayRest, IInv, TypeOK, Slots, ObserverHarmless
  <2>2. RolesAgree' /\ SeenOnlyLeaseBound' /\ XemmMarked'
    BY <1>27, <2>1 DEF FinalObserverStopped, IInv, RolesAgree, SeenOnlyLeaseBound, XemmMarked,
        SlotsFree, Alive, NoTask, StopFailed
  <2>3. ObserverHarmless' /\ NoObserverBesideTaker'
    BY <1>27, <2>1 DEF FinalObserverStopped, IInv, ObserverHarmless, NoObserverBesideTaker,
        PlanHonoured, NoTask, StopFailed
  <2>4. FinishedIdle'
    BY <1>27, <2>1 DEF FinalObserverStopped, IInv, FinishedIdle, Finished, Slots, NoTask,
        StopFailed
  <2>5. RevokedWhileStopping' /\ LeaseHasHolder'
    BY <1>27, <2>1 DEF FinalObserverStopped, IInv, RevokedWhileStopping, LeaseHasHolder, NoLease,
        StopFailed
  <2>6. SlotsFree' /\ PlanHonoured'
    BY <1>27, <2>1 DEF FinalObserverStopped, IInv, SlotsFree, PlanHonoured, NoTask, NoPlan,
        StopFailed
  <2>7. RestingExplained' /\ HaltFlagged'
    BY <1>27, <2>1 DEF FinalObserverStopped, IInv, HaltFlagged, RestingExplained, Alive,
        Finished, SlotsFree, NoTask, RolesAgree, StopFailed
  <2> QED BY <1>0, <2>2, <2>3, <2>4, <2>5, <2>6, <2>7 DEF IInv
<1>28. CASE Latch
  BY <1>0, <1>28 DEF Latch, IInv, TypeOK, RolesAgree, ObserverHarmless, FinishedIdle,
      SeenOnlyLeaseBound, RevokedWhileStopping, SlotsFree, PlanHonoured, RestingExplained,
      XemmMarked, HaltFlagged, LeaseHasHolder, NoObserverBesideTaker, Alive, Finished, NoTask,
      Slots
<1>29. CASE EndProcess
  BY <1>0, <1>29 DEF Alive, EndProcess, MayRest, NoLease, NoPlan, NoTask, Reset, Slots, IInv,
      TypeOK, RolesAgree, ObserverHarmless, FinishedIdle, SeenOnlyLeaseBound,
      RevokedWhileStopping, SlotsFree, PlanHonoured, RestingExplained, XemmMarked, HaltFlagged,
      LeaseHasHolder, NoObserverBesideTaker, Finished, Roles, Task
<1>30. CASE Crash
  BY <1>0, <1>30 DEF Alive, Crash, MayRest, NoLease, NoPlan, NoTask, Reset, Slots, IInv, TypeOK,
      RolesAgree, ObserverHarmless, FinishedIdle, SeenOnlyLeaseBound, RevokedWhileStopping,
      SlotsFree, PlanHonoured, RestingExplained, XemmMarked, HaltFlagged, LeaseHasHolder,
      NoObserverBesideTaker, Finished, Roles, Task
<1>31. ASSUME NEW s \in Slots, Arm(s)
      PROVE  IInv'
  <2> DEFINE new == [task[s] EXCEPT !.phase = "wait"]
  <2>1. task[s] \in Task /\ Alive(task[s]) /\ SetTask(s,
  new) /\ EngineOnly /\ task \in [Slots -> Task]
    BY <1>31 DEF Arm, IInv, TypeOK, Alive
  <2>2. /\ new \in Task /\ new.role = task[s].role /\ new.st # "none"
        /\ Finished(new) => new.phase = "init" /\ ~new.seen
        /\ new.seen => new.role = "reduce"
        /\ new.phase = "exec" => new.role # "observer"
    BY <1>31, <2>1 DEF Arm, Task, Alive, Finished, IInv, TypeOK, FinishedIdle,
        SeenOnlyLeaseBound, ObserverHarmless, RolesAgree, Slots, NoTask
  <2>3. /\ RolesAgree' /\ ObserverHarmless' /\ FinishedIdle' /\ SeenOnlyLeaseBound'
        /\ RevokedWhileStopping' /\ SlotsFree' /\ PlanHonoured'
        /\ HaltFlagged' /\ LeaseHasHolder' /\ NoObserverBesideTaker'
    <3> HIDE DEF new
    <3> QED BY <2>1, <2>2, EngineKeeps
  <2>4. RestingExplained' /\ XemmMarked'
    <3>1. CASE s = "active"
      BY <1>31, <2>1, <3>1 DEF Arm, SetTask, EngineOnly, Task, Alive, IInv, RestingExplained,
          XemmMarked, RolesAgree, SlotsFree, Slots, SessionOf, LeaseBound
    <3>2. CASE s = "observer"
      BY <1>31, <2>1, <3>2 DEF Arm, SetTask, EngineOnly, Task, Alive, IInv, RestingExplained,
          XemmMarked, ObserverHarmless, NoTask, Slots, SessionOf, LeaseBound
    <3> QED BY <3>1, <3>2 DEF Slots
  <2> QED BY <1>0, <2>3, <2>4 DEF IInv
<1>32. ASSUME NEW s \in Slots, RefreshLease(s)
      PROVE  IInv'
  <2> DEFINE new == [task[s] EXCEPT !.seen = LeaseActive]
  <2>1. task[s] \in Task /\ Alive(task[s]) /\ SetTask(s,
  new) /\ EngineOnly /\ task \in [Slots -> Task]
    BY <1>32 DEF RefreshLease, IInv, TypeOK, Alive
  <2>2. /\ new \in Task /\ new.role = task[s].role /\ new.st # "none"
        /\ Finished(new) => new.phase = "init" /\ ~new.seen
        /\ new.seen => new.role = "reduce"
        /\ new.phase = "exec" => new.role # "observer"
    <3>1. LeaseActive => s = "active"
      BY <2>1 DEF IInv, LeaseActive, LeaseHasHolder, NoObserverBesideTaker, NoTask, Alive, Slots
    <3>2. LeaseActive \in BOOLEAN /\ ~Finished(task[s]) /\ LeaseBound(task[s])
      BY <1>32, <2>1 DEF LeaseActive, Finished, Alive, RefreshLease
    <3>3. /\ new \in Task /\ new.role = task[s].role /\ new.st = task[s].st
          /\ new.phase = task[s].phase /\ new.seen = LeaseActive
      BY <2>1, <3>2 DEF Task
    <3>4. s = "active" => task[s].role = "reduce"
      BY <3>2 DEF LeaseBound, IInv, RolesAgree
    <3>5. task[s].phase = "exec" => task[s].role # "observer"
      BY <2>1 DEF IInv, ObserverHarmless, RolesAgree, Slots
    <3> QED BY <2>1, <3>1, <3>2, <3>3, <3>4, <3>5 DEF Alive, Finished
  <2>3. /\ RolesAgree' /\ ObserverHarmless' /\ FinishedIdle' /\ SeenOnlyLeaseBound'
        /\ RevokedWhileStopping' /\ SlotsFree' /\ PlanHonoured'
        /\ HaltFlagged' /\ LeaseHasHolder' /\ NoObserverBesideTaker'
    <3> HIDE DEF new
    <3> QED BY <2>1, <2>2, EngineKeeps
  <2>4. RestingExplained' /\ XemmMarked'
    <3>1. CASE s = "active"
      BY <1>32, <2>1, <3>1 DEF RefreshLease, SetTask, EngineOnly, Task, Alive, IInv,
          RestingExplained, XemmMarked, RolesAgree, SlotsFree, Slots, LeaseBound, LeaseActive
    <3>2. CASE s = "observer"
      BY <1>32, <2>1, <3>2 DEF RefreshLease, SetTask, EngineOnly, Task, Alive, IInv,
          RestingExplained, XemmMarked, ObserverHarmless, NoTask, Slots, LeaseBound, LeaseActive
    <3> QED BY <3>1, <3>2 DEF Slots
  <2> QED BY <1>0, <2>3, <2>4 DEF IInv
<1>33. ASSUME NEW s \in Slots, Scan(s)
      PROVE  IInv'
  <2> DEFINE new == [task[s] EXCEPT !.phase = "scan"]
  <2>1. task[s] \in Task /\ Alive(task[s]) /\ SetTask(s,
  new) /\ EngineOnly /\ task \in [Slots -> Task]
    BY <1>33 DEF Scan, IInv, TypeOK, Alive
  <2>2. /\ new \in Task /\ new.role = task[s].role /\ new.st # "none"
        /\ Finished(new) => new.phase = "init" /\ ~new.seen
        /\ new.seen => new.role = "reduce"
        /\ new.phase = "exec" => new.role # "observer"
    BY <1>33, <2>1 DEF Scan, Task, Alive, Finished, IInv, TypeOK, FinishedIdle,
        SeenOnlyLeaseBound, ObserverHarmless, RolesAgree, Slots, NoTask
  <2>3. /\ RolesAgree' /\ ObserverHarmless' /\ FinishedIdle' /\ SeenOnlyLeaseBound'
        /\ RevokedWhileStopping' /\ SlotsFree' /\ PlanHonoured'
        /\ HaltFlagged' /\ LeaseHasHolder' /\ NoObserverBesideTaker'
    <3> HIDE DEF new
    <3> QED BY <2>1, <2>2, EngineKeeps
  <2>4. RestingExplained' /\ XemmMarked'
    <3>1. CASE s = "active"
      BY <1>33, <2>1, <3>1 DEF Scan, SetTask, EngineOnly, Task, Alive, IInv, RestingExplained,
          XemmMarked, RolesAgree, SlotsFree, Slots
    <3>2. CASE s = "observer"
      BY <1>33, <2>1, <3>2 DEF Scan, SetTask, EngineOnly, Task, Alive, IInv, RestingExplained,
          XemmMarked, ObserverHarmless, NoTask, Slots
    <3> QED BY <3>1, <3>2 DEF Slots
  <2> QED BY <1>0, <2>3, <2>4 DEF IInv
<1>34. ASSUME NEW s \in Slots, PublishBurst(s)
      PROVE  IInv'
  BY <1>0, <1>34 DEF Alive, EngineOnly, LeaseBound, PublishBurst, IInv, TypeOK, RolesAgree,
      ObserverHarmless, FinishedIdle, SeenOnlyLeaseBound, RevokedWhileStopping, SlotsFree,
      PlanHonoured, RestingExplained, XemmMarked, HaltFlagged, LeaseHasHolder,
      NoObserverBesideTaker, Finished, NoTask, Slots
<1>35. ASSUME NEW s \in Slots, Execute(s)
      PROVE  IInv'
  <2> DEFINE new == [task[s] EXCEPT !.phase = "exec"]
  <2>1. task[s] \in Task /\ Alive(task[s]) /\ SetTask(s,
  new) /\ EngineOnly /\ task \in [Slots -> Task]
    BY <1>35 DEF Execute, IInv, TypeOK, Alive
  <2>2. /\ new \in Task /\ new.role = task[s].role /\ new.st # "none"
        /\ Finished(new) => new.phase = "init" /\ ~new.seen
        /\ new.seen => new.role = "reduce"
        /\ new.phase = "exec" => new.role # "observer"
    BY <1>35, <2>1 DEF Execute, Task, Alive, Finished, IInv, TypeOK, FinishedIdle,
        SeenOnlyLeaseBound, ObserverHarmless, RolesAgree, Slots, NoTask, MayExecute, LeaseBound
  <2>3. /\ RolesAgree' /\ ObserverHarmless' /\ FinishedIdle' /\ SeenOnlyLeaseBound'
        /\ RevokedWhileStopping' /\ SlotsFree' /\ PlanHonoured'
        /\ HaltFlagged' /\ LeaseHasHolder' /\ NoObserverBesideTaker'
    <3> HIDE DEF new
    <3> QED BY <2>1, <2>2, EngineKeeps
  <2>4. RestingExplained' /\ XemmMarked'
    <3>1. CASE s = "active"
      BY <1>35, <2>1, <3>1 DEF Execute, SetTask, EngineOnly, Task, Alive, IInv, RestingExplained,
          XemmMarked, RolesAgree, SlotsFree, Slots
    <3>2. CASE s = "observer"
      BY <1>35, <2>1, <3>2 DEF Execute, SetTask, EngineOnly, Task, Alive, IInv, RestingExplained,
          XemmMarked, ObserverHarmless, NoTask, Slots
    <3> QED BY <3>1, <3>2 DEF Slots
  <2> QED BY <1>0, <2>3, <2>4 DEF IInv
<1>36. ASSUME NEW s \in Slots, Quote(s)
      PROVE  IInv'
  BY <1>0, <1>36 DEF EngineOnly, Quote, IInv, TypeOK, RolesAgree, ObserverHarmless, FinishedIdle,
      SeenOnlyLeaseBound, RevokedWhileStopping, SlotsFree, PlanHonoured, RestingExplained,
      XemmMarked, HaltFlagged, LeaseHasHolder, NoObserverBesideTaker, Alive, Finished, NoTask,
      Slots
<1>37. ASSUME NEW s \in Slots, Fill(s)
      PROVE  IInv'
  <2> DEFINE new == [task[s] EXCEPT !.phase = "exec"]
  <2>1. task[s] \in Task /\ Alive(task[s]) /\ SetTask(s,
  new) /\ EngineOnly /\ task \in [Slots -> Task]
    BY <1>37 DEF Fill, IInv, TypeOK, Alive
  <2>2. /\ new \in Task /\ new.role = task[s].role /\ new.st # "none"
        /\ Finished(new) => new.phase = "init" /\ ~new.seen
        /\ new.seen => new.role = "reduce"
        /\ new.phase = "exec" => new.role # "observer"
    BY <1>37, <2>1 DEF Fill, Task, Alive, Finished, IInv, TypeOK, FinishedIdle,
        SeenOnlyLeaseBound, ObserverHarmless, RolesAgree, Slots, NoTask
  <2>3. /\ RolesAgree' /\ ObserverHarmless' /\ FinishedIdle' /\ SeenOnlyLeaseBound'
        /\ RevokedWhileStopping' /\ SlotsFree' /\ PlanHonoured'
        /\ HaltFlagged' /\ LeaseHasHolder' /\ NoObserverBesideTaker'
    <3> HIDE DEF new
    <3> QED BY <2>1, <2>2, EngineKeeps
  <2>4. RestingExplained' /\ XemmMarked'
    <3>1. CASE s = "active"
      BY <1>37, <2>1, <3>1 DEF Fill, SetTask, EngineOnly, Task, Alive, IInv, RestingExplained,
          XemmMarked, RolesAgree, SlotsFree, Slots
    <3>2. CASE s = "observer"
      BY <1>37, <2>1, <3>2 DEF Fill, SetTask, EngineOnly, Task, Alive, IInv, RestingExplained,
          XemmMarked, ObserverHarmless, NoTask, Slots
    <3> QED BY <3>1, <3>2 DEF Slots
  <2> QED BY <1>0, <2>3, <2>4 DEF IInv
<1>38. ASSUME NEW s \in Slots, Settle(s)
      PROVE  IInv'
  <2> DEFINE new == [task[s] EXCEPT !.phase = "wait"]
  <2>1. task[s] \in Task /\ Alive(task[s]) /\ SetTask(s,
  new) /\ EngineOnly /\ task \in [Slots -> Task]
    BY <1>38 DEF Settle, IInv, TypeOK, Alive
  <2>2. /\ new \in Task /\ new.role = task[s].role /\ new.st # "none"
        /\ Finished(new) => new.phase = "init" /\ ~new.seen
        /\ new.seen => new.role = "reduce"
        /\ new.phase = "exec" => new.role # "observer"
    BY <1>38, <2>1 DEF Settle, Task, Alive, Finished, IInv, TypeOK, FinishedIdle,
        SeenOnlyLeaseBound, ObserverHarmless, RolesAgree, Slots, NoTask
  <2>3. /\ RolesAgree' /\ ObserverHarmless' /\ FinishedIdle' /\ SeenOnlyLeaseBound'
        /\ RevokedWhileStopping' /\ SlotsFree' /\ PlanHonoured'
        /\ HaltFlagged' /\ LeaseHasHolder' /\ NoObserverBesideTaker'
    <3> HIDE DEF new
    <3> QED BY <2>1, <2>2, EngineKeeps
  <2>4. RestingExplained' /\ XemmMarked'
    <3>1. CASE s = "active"
      BY <1>38, <2>1, <3>1 DEF Settle, SetTask, EngineOnly, Task, Alive, IInv, RestingExplained,
          XemmMarked, RolesAgree, SlotsFree, Slots
    <3>2. CASE s = "observer"
      BY <1>38, <2>1, <3>2 DEF Settle, SetTask, EngineOnly, Task, Alive, IInv, RestingExplained,
          XemmMarked, ObserverHarmless, NoTask, Slots
    <3> QED BY <3>1, <3>2 DEF Slots
  <2> QED BY <1>0, <2>3, <2>4 DEF IInv
<1>39. ASSUME NEW s \in Slots, ExitOk(s)
      PROVE  IInv'
  <2> DEFINE new == Done(task[s], "ok")
  <2>1. task[s] \in Task /\ Alive(task[s]) /\ SetTask(s,
  new) /\ EngineOnly /\ task \in [Slots -> Task]
    BY <1>39 DEF ExitOk, IInv, TypeOK, Alive
  <2>2. /\ new \in Task /\ new.role = task[s].role /\ new.st # "none"
        /\ Finished(new) => new.phase = "init" /\ ~new.seen
        /\ new.seen => new.role = "reduce"
        /\ new.phase = "exec" => new.role # "observer"
    BY <1>39, <2>1 DEF ExitOk, Task, Alive, Finished, IInv, TypeOK, FinishedIdle,
        SeenOnlyLeaseBound, ObserverHarmless, RolesAgree, Slots, NoTask, Done, Finished
  <2>3. /\ RolesAgree' /\ ObserverHarmless' /\ FinishedIdle' /\ SeenOnlyLeaseBound'
        /\ RevokedWhileStopping' /\ SlotsFree' /\ PlanHonoured'
        /\ HaltFlagged' /\ LeaseHasHolder' /\ NoObserverBesideTaker'
    <3> HIDE DEF new
    <3> QED BY <2>1, <2>2, EngineKeeps
  <2>4. RestingExplained' /\ XemmMarked'
    <3>1. CASE s = "active"
      BY <1>39, <2>1, <3>1 DEF ExitOk, SetTask, EngineOnly, Task, Alive, IInv, RestingExplained,
          XemmMarked, RolesAgree, SlotsFree, Slots, Done, SessionOf
    <3>2. CASE s = "observer"
      BY <1>39, <2>1, <3>2 DEF ExitOk, SetTask, EngineOnly, Task, Alive, IInv, RestingExplained,
          XemmMarked, ObserverHarmless, NoTask, Slots, Done, SessionOf
    <3> QED BY <3>1, <3>2 DEF Slots
  <2> QED BY <1>0, <2>3, <2>4 DEF IInv
<1>40. ASSUME NEW s \in Slots, ExitErr(s)
      PROVE  IInv'
  <2> DEFINE new == Done(task[s], "err")
  <2>1. task[s] \in Task /\ Alive(task[s]) /\ SetTask(s,
  new) /\ EngineOnly /\ task \in [Slots -> Task]
    BY <1>40 DEF ExitErr, IInv, TypeOK, Alive
  <2>2. /\ new \in Task /\ new.role = task[s].role /\ new.st # "none"
        /\ Finished(new) => new.phase = "init" /\ ~new.seen
        /\ new.seen => new.role = "reduce"
        /\ new.phase = "exec" => new.role # "observer"
    BY <1>40, <2>1 DEF ExitErr, Task, Alive, Finished, IInv, TypeOK, FinishedIdle,
        SeenOnlyLeaseBound, ObserverHarmless, RolesAgree, Slots, NoTask, Done, Finished
  <2>3. /\ RolesAgree' /\ ObserverHarmless' /\ FinishedIdle' /\ SeenOnlyLeaseBound'
        /\ RevokedWhileStopping' /\ SlotsFree' /\ PlanHonoured'
        /\ HaltFlagged' /\ LeaseHasHolder' /\ NoObserverBesideTaker'
    <3> HIDE DEF new
    <3> QED BY <2>1, <2>2, EngineKeeps
  <2>4. RestingExplained' /\ XemmMarked'
    <3>1. CASE s = "active"
      BY <1>40, <2>1, <3>1 DEF ExitErr, SetTask, EngineOnly, Task, Alive, IInv, RestingExplained,
          XemmMarked, RolesAgree, SlotsFree, Slots, Done, MayRest
    <3>2. CASE s = "observer"
      <4>1. UNCHANGED resting
        BY <1>40, <3>2 DEF ExitErr, MayRest, IInv, ObserverHarmless
      <4> QED BY <1>40, <2>1, <3>2, <4>1 DEF ExitErr, SetTask, EngineOnly, Task, Alive, IInv,
          RestingExplained, XemmMarked, ObserverHarmless, NoTask, Slots, Done, MayRest
    <3> QED BY <3>1, <3>2 DEF Slots
  <2> QED BY <1>0, <2>3, <2>4 DEF IInv
<1>41. CASE OrderGone
  BY <1>0, <1>41 DEF OrderGone, IInv, TypeOK, RolesAgree, ObserverHarmless, FinishedIdle,
      SeenOnlyLeaseBound, RevokedWhileStopping, SlotsFree, PlanHonoured, RestingExplained,
      XemmMarked, HaltFlagged, LeaseHasHolder, NoObserverBesideTaker, Alive, Finished, NoTask,
      Slots
<1>42. CASE StopRequest \/ ObserverRetryDue \/ Tick
  BY <1>0, <1>42 DEF StopRequest, ObserverRetryDue, Tick, NoLease, IInv, RolesAgree,
      ObserverHarmless, FinishedIdle, SeenOnlyLeaseBound, RevokedWhileStopping, SlotsFree,
      PlanHonoured, RestingExplained, XemmMarked, HaltFlagged, LeaseHasHolder,
      NoObserverBesideTaker, NoTask
<1>43. CASE FastStep \/ TickDue \/ CheckSwitch
  BY <1>43, <1>5, <1>6, <1>1, <1>7, <1>8 DEF FastStep, TickDue, CheckSwitch, Exits
<1>44. CASE SwitchStep
  BY <1>44, <1>14, <1>15, <1>16, <1>17, <1>18, <1>19, <1>20, <1>2, <1>21, <1>22, <1>23, <1>43 DEF
      SwitchStep
<1>45. CASE EndStep
  BY <1>45, <1>24, <1>26, <1>27, <1>28, <1>25, <1>29 DEF EndStep
<1>46. CASE ControlStep
  BY <1>46, <1>1, <1>2, <1>13, <1>43, <1>44, <1>45 DEF ControlStep
<1>47. CASE PollStep
  BY <1>47, <1>9, <1>10, <1>11, <1>12 DEF PollStep, Poll
<1>48. CASE EngineStep
  BY <1>48, <1>31, <1>32, <1>33, <1>34, <1>35, <1>36, <1>37, <1>38, <1>39, <1>40 DEF EngineStep
<1>49. CASE Environment
  BY <1>49, <1>41, <1>42, <1>30, <1>4, <1>3 DEF Environment
<1>50. CASE UNCHANGED vars
  BY <1>0, <1>50 DEF vars, IInv, RolesAgree, ObserverHarmless, FinishedIdle, SeenOnlyLeaseBound,
      RevokedWhileStopping, SlotsFree, PlanHonoured, RestingExplained, XemmMarked, HaltFlagged,
      LeaseHasHolder, NoObserverBesideTaker
<1> QED BY <1>46, <1>47, <1>48, <1>49, <1>42, <1>50 DEF Next

-----------------------------------------------------------------------------
(* Theorems                                                                *)

\* The inductive invariant holds in every reachable state.
THEOREM InvHolds == Spec => []IInv
<1>1. Init => IInv
  BY InvInit
<1>2. IInv /\ [Next]_vars => IInv'
  BY InvStep
<1> QED BY <1>1, <1>2, PTL DEF Spec

\* At most one engine can submit an order, in every interleaving of handovers,
\* drains, lease refreshes, failed stops, aborts and crashes (supervisor.rs).
THEOREM OneWriterHolds == Spec => []OneWriter
<1>1. IInv => OneWriter
  <2>1. IInv => ~CanWrite(task["observer"])
    BY DEF IInv, ObserverHarmless, CanWrite, Alive, LeaseBound, NoTask
  <2> QED BY <2>1 DEF OneWriter, Writers, Slots
<1> QED BY <1>1, InvHolds, PTL

\* No standby observer is left beside a taker that holds the rights, whichever of
\* the two promotion paths gave it them (activate_reduce, ensure_bot).
THEOREM NoObserverHolds == Spec => []NoObserverBesideTaker
<1>1. IInv => NoObserverBesideTaker
  BY DEF IInv
<1> QED BY <1>1, InvHolds, PTL

\* A lease is published only while the reduce taker it was granted to is active.
THEOREM LeaseHolderHolds == Spec => []LeaseHasHolder
<1>1. IInv => LeaseHasHolder
  BY DEF IInv
<1> QED BY <1>1, InvHolds, PTL

-----------------------------------------------------------------------------
(* The execution rights                                                    *)

\* What a step does to the active slot's right to write and to the resting orders.
Moves ==
    LET w == CanWrite(task["active"])
    IN  \/ w' = w /\ (resting' = resting \/ resting' = FALSE \/ (w /\ resting' = TRUE))
        \/ w /\ ~w'
        \/ ~w /\ w' /\ ~resting /\ ~resting'

\* Such a move is a step of ExecutionRights or a stutter.
LEMMA MovesAreRights ==
    ASSUME IInv, IInv', Moves
    PROVE  [Rights!Next]_(Rights!rightsVars)
<1>1. /\ Writers = IF CanWrite(task["active"]) THEN {"active"} ELSE {}
      /\ Writers' = IF CanWrite(task["active"])' THEN {"active"} ELSE {}
  <2>1. ~CanWrite(task["observer"]) /\ ~CanWrite(task["observer"])'
    BY DEF IInv, ObserverHarmless, CanWrite, Alive, LeaseBound, NoTask
  <2> QED BY <2>1 DEF Writers, Slots
<1>2. resting \in BOOLEAN /\ resting' \in BOOLEAN
  BY DEF IInv, TypeOK
<1> QED
  BY <1>1, <1>2 DEF Moves, Rights!Next, Rights!Acquire, Rights!Place, Rights!Clear,
      Rights!Release, Rights!rightsVars, Slots

\* Every step is such a move: one case per action.
LEMMA RightsStep == ASSUME IInv, IInv', [Next]_vars PROVE [Rights!Next]_(Rights!rightsVars)
<1> DEFINE w == CanWrite(task["active"])
<1> SUFFICES Moves
  BY MovesAreRights
<1>1. CASE VerifyStartClear \/ VerifyStartFails \/ IgnoreBurst \/ ExtendOnBurst \/ SkipTick
           \/ VerifyClear \/ VerifyFails \/ AbandonGrant \/ ResolveSessions \/ Latch
           \/ StopRequest \/ ObserverRetryDue \/ Tick
  BY <1>1 DEF Moves, CanWrite, VerifyStartClear, VerifyStartFails, IgnoreBurst, ExtendOnBurst,
      SkipTick, VerifyClear, VerifyFails, AbandonGrant, ResolveSessions, Latch, StopRequest,
      ObserverRetryDue, Tick
<1>2. ASSUME NEW ack \in BOOLEAN, Launch(ack)
      PROVE  Moves
  BY <1>2 DEF Launch, Moves, CanWrite
<1>3. ASSUME NEW from \in {"fast", "tick", "ensure"}, NEW next \in {"burst", "poll", "switch"},
            from = "ensure" <=> next = "switch", CheckExits(from, next)
      PROVE  Moves
  BY <1>3 DEF Moves, CheckExits, Finished, NoTask, Reaped, Stopping, CanWrite, IInv, TypeOK,
      RolesAgree, ObserverHarmless, RestingExplained, SlotsFree, Alive, LeaseBound, Roles, Slots,
      Task
<1>4. ASSUME NEW from \in {"fast", "tick", "ensure"}, NEW next \in {"burst", "poll", "switch"},
            from = "ensure" <=> next = "switch", ReapActive(from, next)
      PROVE  Moves
  BY <1>4 DEF Moves, Finished, Halting, NoLease, NoPlan, NoTask, ReapActive, Reaped, Slots,
      Stopping, CanWrite, IInv, TypeOK, RolesAgree, ObserverHarmless, RestingExplained,
      SlotsFree, Alive, LeaseBound, Roles, Task
<1>5. CASE ActivateReduce
  BY <1>5 DEF Moves, ActivateReduce, Cancel, CanWrite, IInv, TypeOK, RolesAgree,
      ObserverHarmless, RestingExplained, SlotsFree, Alive, Finished, LeaseBound, NoTask, Roles,
      Slots, Task
<1>6. ASSUME NEW t, NEW x, StatusLost(t, x)
      PROVE  Moves
  BY <1>6 DEF StatusLost, Moves, CanWrite
<1>7. ASSUME NEW t, NEW x, LossStop(t, x)
      PROVE  Moves
  BY <1>7 DEF LossStop, StatusRead, Halting, Moves, CanWrite
<1>8. ASSUME NEW t, NEW x, HoldWhilePaused(t, x)
      PROVE  Moves
  BY <1>8 DEF HoldWhilePaused, StatusRead, Moves, CanWrite
<1>9. ASSUME NEW t, NEW x, DecideTick(t, x)
      PROVE  Moves
  BY <1>9 DEF DecideTick, StatusRead, Halting, Moves, CanWrite
<1>10. ASSUME NEW x, ReadXemm(x)
      PROVE  Moves
  BY <1>10 DEF ReadXemm, Halting, Moves, CanWrite
<1>11. CASE KeepBot
  BY <1>11 DEF Moves, Finished, InPlace, KeepBot, NoPlan, NoTask, ObserverAfter, Spawn, Stopping,
      CanWrite, IInv, TypeOK, RolesAgree, ObserverHarmless, RestingExplained, SlotsFree, Alive,
      LeaseBound, Roles, Slots, Task
<1>12. CASE BeginSwitch
  BY <1>12 DEF Moves, BeginSwitch, Cancel, Finished, NoLease, NoTask, Reaped, Revoked, CanWrite,
      IInv, TypeOK, RolesAgree, ObserverHarmless, RestingExplained, SlotsFree, Alive, LeaseBound,
      Roles, Slots, Task
<1>13. CASE ObserverStopped
  BY <1>13 DEF Moves, Cancel, NoLease, NoTask, ObserverStopped, Revoked, Slots, CanWrite, IInv,
      TypeOK, RolesAgree, ObserverHarmless, RestingExplained, SlotsFree, Alive, Finished,
      LeaseBound, Roles, Task
<1>14. CASE ObserverStopFails
  BY <1>14 DEF Moves, Alive, Halting, MayRest, NoPlan, NoTask, ObserverStopFails, StopFailed,
      CanWrite, IInv, TypeOK, RolesAgree, ObserverHarmless, RestingExplained, SlotsFree,
      Finished, LeaseBound, Roles, Slots, Task
<1>15. CASE ActiveStopped
  BY <1>15 DEF Moves, ActiveStopped, NoTask, CanWrite, IInv, TypeOK, RolesAgree,
      ObserverHarmless, RestingExplained, SlotsFree, Alive, Finished, LeaseBound, Roles, Slots,
      Task
<1>16. CASE ActiveStopFails
  BY <1>16 DEF Moves, ActiveStopFails, Alive, Halting, MayRest, NoPlan, NoTask, StopFailed,
      CanWrite, IInv, TypeOK, RolesAgree, ObserverHarmless, RestingExplained, SlotsFree,
      Finished, LeaseBound, Roles, Slots, Task
<1>17. CASE GrantReduce
  BY <1>17 DEF Moves, Alive, Finished, GrantReduce, Granted, NoLease, NoPlan, NoTask, Spawn,
      Stopping, CanWrite, IInv, TypeOK, RolesAgree, ObserverHarmless, RestingExplained,
      SlotsFree, LeaseBound, Roles, Slots, Task
<1>18. CASE GrantBot
  BY <1>18 DEF Moves, Finished, GrantBot, NoPlan, NoTask, ObserverAfter, Spawn, Stopping,
      CanWrite, IInv, TypeOK, RolesAgree, ObserverHarmless, RestingExplained, SlotsFree, Alive,
      LeaseBound, Roles, Slots, Task
<1>19. CASE SafeHalt
  BY <1>19 DEF Moves, Cancel, NoLease, Revoked, SafeHalt, CanWrite, IInv, TypeOK, RolesAgree,
      ObserverHarmless, RestingExplained, SlotsFree, Alive, Finished, LeaseBound, NoTask, Roles,
      Slots, Task
<1>20. CASE Shutdown
  BY <1>20 DEF Moves, Cancel, NoLease, NoPlan, Revoked, Shutdown, Stopping, CanWrite, IInv,
      TypeOK, RolesAgree, ObserverHarmless, RestingExplained, SlotsFree, Alive, Finished,
      LeaseBound, NoTask, Roles, Slots, Task
<1>21. ASSUME NEW from \in {"haltActive", "shutActive"}, NEW next \in {"haltObserver",
            "shutObserver"}, from = "haltActive" <=> next = "haltObserver",
            FinalActiveStopped(from, next)
      PROVE  Moves
  BY <1>21 DEF Moves, Alive, Cancel, FinalActiveStopped, Finished, MayRest, NoTask, Reaped,
      CanWrite, IInv, TypeOK, RolesAgree, ObserverHarmless, RestingExplained, SlotsFree,
      LeaseBound, Roles, Slots, Task
<1>22. CASE FinalObserverStopped("haltObserver", "latch")
  BY <1>22 DEF Moves, Alive, FinalObserverStopped, MayRest, NoTask, StopFailed, CanWrite, IInv,
      TypeOK, RolesAgree, ObserverHarmless, RestingExplained, SlotsFree, Finished, LeaseBound,
      Roles, Slots, Task
<1>23. CASE EndProcess
  BY <1>23 DEF Moves, Alive, EndProcess, MayRest, NoLease, NoPlan, NoTask, Reset, Slots,
      CanWrite, IInv, TypeOK, RolesAgree, ObserverHarmless, RestingExplained, SlotsFree,
      Finished, LeaseBound, Roles, Task
<1>24. CASE Crash
  BY <1>24 DEF Moves, Alive, Crash, MayRest, NoLease, NoPlan, NoTask, Reset, Slots, CanWrite,
      IInv, TypeOK, RolesAgree, ObserverHarmless, RestingExplained, SlotsFree, Finished,
      LeaseBound, Roles, Task
<1>25. ASSUME NEW s \in Slots, Arm(s)
      PROVE  Moves
  BY <1>25 DEF Moves, Alive, Arm, EngineOnly, LeaseBound, SessionOf, SetTask, CanWrite, IInv,
      TypeOK, RolesAgree, ObserverHarmless, RestingExplained, SlotsFree, Finished, NoTask, Roles,
      Slots, Task
<1>26. ASSUME NEW s \in Slots, RefreshLease(s)
      PROVE  Moves
  BY <1>26 DEF Moves, Alive, EngineOnly, LeaseActive, LeaseBound, NoLease, RefreshLease, SetTask,
      CanWrite, IInv, TypeOK, RolesAgree, ObserverHarmless, RestingExplained, SlotsFree,
      Finished, NoTask, Roles, Slots, Task
<1>27. ASSUME NEW s \in Slots, Scan(s)
      PROVE  Moves
  BY <1>27 DEF Moves, EngineOnly, Scan, SetTask, CanWrite, IInv, TypeOK, RolesAgree,
      ObserverHarmless, RestingExplained, SlotsFree, Alive, Finished, LeaseBound, NoTask, Roles,
      Slots, Task
<1>28. ASSUME NEW s \in Slots, PublishBurst(s)
      PROVE  Moves
  BY <1>28 DEF PublishBurst, EngineOnly, Moves, CanWrite
<1>29. ASSUME NEW s \in Slots, Execute(s)
      PROVE  Moves
  BY <1>29 DEF Moves, Alive, EngineOnly, Execute, SetTask, CanWrite, IInv, TypeOK, RolesAgree,
      ObserverHarmless, RestingExplained, SlotsFree, Finished, LeaseBound, NoTask, Roles, Slots,
      Task
<1>30. ASSUME NEW s \in Slots, Quote(s)
      PROVE  Moves
  BY <1>30 DEF Moves, EngineOnly, Quote, CanWrite, IInv, TypeOK, RolesAgree, ObserverHarmless,
      RestingExplained, SlotsFree, Alive, Finished, LeaseBound, NoTask, Roles, Slots, Task
<1>31. ASSUME NEW s \in Slots, Fill(s)
      PROVE  Moves
  BY <1>31 DEF Moves, Alive, EngineOnly, Fill, SetTask, CanWrite, IInv, TypeOK, RolesAgree,
      ObserverHarmless, RestingExplained, SlotsFree, Finished, LeaseBound, NoTask, Roles, Slots,
      Task
<1>32. ASSUME NEW s \in Slots, Settle(s)
      PROVE  Moves
  BY <1>32 DEF Moves, Alive, EngineOnly, SetTask, Settle, CanWrite, IInv, TypeOK, RolesAgree,
      ObserverHarmless, RestingExplained, SlotsFree, Finished, LeaseBound, NoTask, Roles, Slots,
      Task
<1>33. ASSUME NEW s \in Slots, ExitOk(s)
      PROVE  Moves
  BY <1>33 DEF Moves, Alive, Done, EngineOnly, ExitOk, SessionOf, SetTask, CanWrite, IInv,
      TypeOK, RolesAgree, ObserverHarmless, RestingExplained, SlotsFree, Finished, LeaseBound,
      NoTask, Roles, Slots, Task
<1>34. ASSUME NEW s \in Slots, ExitErr(s)
      PROVE  Moves
  <2>1. /\ Alive(task[s]) /\ task' = [task EXCEPT ![s] = Done(task[s], "err")]
        /\ resting' \in IF task[s].phase = "exec" THEN {resting, TRUE} ELSE {resting}
    BY <1>34 DEF ExitErr, SetTask, MayRest
  <2>2. CASE s = "active"
    <3>1. task'["active"].st = "err"
      BY <2>1, <2>2 DEF IInv, TypeOK, Task, Done, Slots
    <3> QED BY <2>1, <2>2, <3>1 DEF Moves, CanWrite, Alive, LeaseBound
  <2>3. CASE s = "observer"
    BY <2>1, <2>3 DEF Moves, CanWrite, IInv, TypeOK, ObserverHarmless, Slots
  <2> QED BY <2>2, <2>3 DEF Slots
<1>35. CASE OrderGone
  BY <1>35 DEF Moves, OrderGone, CanWrite, IInv, TypeOK, RolesAgree, ObserverHarmless,
      RestingExplained, SlotsFree, Alive, Finished, LeaseBound, NoTask, Roles, Slots, Task
<1>36. CASE FastStep \/ TickDue \/ CheckSwitch
  BY <1>36, <1>3, <1>4, <1>1, <1>5 DEF FastStep, TickDue, CheckSwitch, Exits
<1>37. CASE SwitchStep
  BY <1>37, <1>11, <1>12, <1>13, <1>14, <1>15, <1>16, <1>1, <1>17, <1>18, <1>36 DEF SwitchStep
<1>38. CASE EndStep
  BY <1>38, <1>19, <1>21, <1>22, <1>1, <1>20, <1>23 DEF EndStep
<1>39. CASE ControlStep
  BY <1>39, <1>1, <1>10, <1>36, <1>37, <1>38 DEF ControlStep
<1>40. CASE PollStep
  BY <1>40, <1>6, <1>7, <1>8, <1>9 DEF PollStep, Poll
<1>41. CASE EngineStep
  BY <1>41, <1>25, <1>26, <1>27, <1>28, <1>29, <1>30, <1>31, <1>32, <1>33, <1>34 DEF EngineStep
<1>42. CASE Environment
  BY <1>42, <1>35, <1>1, <1>24, <1>2 DEF Environment
<1>43. CASE UNCHANGED vars
  BY <1>43 DEF vars, Moves, CanWrite
<1> QED BY <1>39, <1>40, <1>41, <1>42, <1>1, <1>43 DEF Next

\* Execution rights move only after the previous holder has stopped and the venues
\* show no open order (supervisor.rs, module comment): every supervisor, engine,
\* crash and clock step is a step of ExecutionRights or a stutter.
THEOREM Refines == Spec => ImplementsRights
<1>1. Init => Rights!Init
  BY DEF Init, Rights!Init, Writers, CanWrite, Alive, NoTask, Slots
<1>2. IInv /\ IInv' /\ [Next]_vars => [Rights!Next]_(Rights!rightsVars)
  BY RightsStep
<1>3. Spec => []IInv
  BY InvHolds
<1> QED BY <1>1, <1>2, <1>3, PTL DEF Spec, ImplementsRights, Rights!Spec

-----------------------------------------------------------------------------
(* The term of a lease                                                     *)

\* The lease a step leaves: kept, dropped, extended, granted where there was none, or aged.
LEMMA LeaseSteps ==
    ASSUME IInv, [Next]_vars
    PROVE  \/ lease' = lease \/ lease' = NoLease \/ lease' = Extended(lease)
           \/ (lease = NoLease /\ lease' = Granted(lease)) \/ Tick
<1>1. CASE FastStep \/ TickDue \/ CheckSwitch
  BY <1>1 DEF FastStep, TickDue, CheckSwitch, Exits, CheckExits, ReapActive, IgnoreBurst,
      ExtendOnBurst, ActivateReduce, NoLease
<1>2. CASE KeepBot \/ BeginSwitch \/ ObserverStopped \/ ObserverStopFails \/ ActiveStopped
           \/ ActiveStopFails \/ VerifyClear \/ VerifyFails \/ AbandonGrant \/ GrantBot
  BY <1>2 DEF KeepBot, BeginSwitch, ObserverStopped, ObserverStopFails, ActiveStopped,
      ActiveStopFails, VerifyClear, VerifyFails, AbandonGrant, GrantBot, Revoked, NoLease
<1>3. CASE GrantReduce
  BY <1>3 DEF GrantReduce, IInv, RevokedWhileStopping
<1>4. CASE EndStep
  BY <1>4 DEF EndStep, SafeHalt, FinalActiveStopped, FinalObserverStopped, Latch, Shutdown,
      EndProcess, Reset, Revoked, NoLease
<1>5. CASE VerifyStartClear \/ VerifyStartFails \/ SkipTick
           \/ \E x \in XemmReports \cup {NoReport} : ReadXemm(x)
  BY <1>5 DEF VerifyStartClear, VerifyStartFails, SkipTick, ReadXemm
<1>6. CASE PollStep
  BY <1>6 DEF PollStep, Poll, StatusLost, LossStop, HoldWhilePaused, DecideTick, StatusRead
<1>7. CASE EngineStep
  BY <1>7 DEF EngineStep, Arm, RefreshLease, Scan, PublishBurst, Execute, Quote, Fill, Settle,
      ExitOk, ExitErr, EngineOnly
<1>8. CASE Environment
  BY <1>8 DEF Environment, OrderGone, StopRequest, ObserverRetryDue, Crash, ResolveSessions,
      Launch, Reset
<1>9. CASE UNCHANGED vars
  BY <1>9 DEF vars
<1> QED
  BY <1>1, <1>2, <1>3, <1>4, <1>5, <1>6, <1>7, <1>8, <1>9 DEF Next, ControlStep, SwitchStep

\* A lease never outlasts its cap.
LeaseWithinCap == lease # NoLease => lease.left <= lease.cap

\* How a standing lease may change, from LeaseSteps and the two lease helpers.
LEMMA LeaseMoves ==
    ASSUME IInv, LeaseWithinCap, [Next]_vars
    PROVE  /\ LeaseWithinCap'
           /\ lease # NoLease /\ lease' # NoLease =>
                 /\ lease'.cap <= lease.cap /\ lease'.left <= lease'.cap
                 /\ lease.left = 0 => lease'.left = 0
<1>1. CASE lease = NoLease
  <2>1. lease' = NoLease \/ lease' = Granted(lease) \/ lease' = Extended(lease)
    BY <1>1, LeaseSteps DEF Tick
  <2> QED
    BY <1>1, <2>1, Bounds, LeaseTypes DEF LeaseWithinCap, Granted, Extended, Least
<1>2. CASE lease # NoLease
  <2>1. lease \in Lease
    BY <1>2 DEF IInv, TypeOK
  <2>2. lease' = lease \/ lease' = NoLease \/ lease' = Extended(lease) \/ Tick
    BY <1>2, LeaseSteps
  <2>3. CASE lease' = Extended(lease)
    BY <1>2, <2>1, <2>3, Bounds DEF LeaseWithinCap, Extended, Least, Lease
  <2>4. CASE Tick
    BY <1>2, <2>1, <2>4 DEF LeaseWithinCap, Tick, Lease
  <2> QED BY <2>1, <2>2, <2>3, <2>4 DEF LeaseWithinCap, Lease
<1> QED BY <1>1, <1>2

\* However many bursts and trades extend it, a standing lease keeps the cap of its
\* first grant, and one that expired stays expired (grant_lease, extend_lease).
THEOREM LeaseTermHolds == Spec => LeaseTerm
<1>1. Init => LeaseWithinCap
  BY DEF Init, LeaseWithinCap
<1>2. IInv /\ LeaseWithinCap /\ [Next]_vars =>
        /\ LeaseWithinCap'
        /\ [lease # NoLease /\ lease' # NoLease =>
              /\ lease'.cap <= lease.cap /\ lease'.left <= lease'.cap
              /\ lease.left = 0 => lease'.left = 0]_vars
  BY LeaseMoves
<1> QED BY <1>1, <1>2, InvHolds, PTL DEF Spec, LeaseTerm

-----------------------------------------------------------------------------
(* The latch                                                               *)

\* A halt that has not reached the breaker file is still on its way there, or a
\* crash ended the process on that way.
LatchUnderWay ==
    halted => breaker \/ pc \in {"halt", "haltActive", "haltObserver", "latch", "down"}

\* Every way into a halt goes through its three stops to the write of the file.
LEMMA LatchKept ==
    ASSUME ~DiskFails, IInv, LatchUnderWay, [Next]_vars
    PROVE  LatchUnderWay'
<1> USE DEF LatchUnderWay
<1>1. CASE FastStep \/ TickDue \/ CheckSwitch
  BY <1>1 DEF FastStep, TickDue, CheckSwitch, Exits, CheckExits, ReapActive, IgnoreBurst,
      ExtendOnBurst, ActivateReduce, Halting
<1>2. CASE KeepBot \/ BeginSwitch \/ ObserverStopped \/ ObserverStopFails \/ ActiveStopped
           \/ ActiveStopFails
  BY <1>2 DEF KeepBot, BeginSwitch, ObserverStopped, ObserverStopFails, ActiveStopped,
      ActiveStopFails, StopFailed, Halting
<1>3. CASE VerifyClear \/ VerifyFails \/ AbandonGrant \/ GrantBot \/ GrantReduce
  BY <1>3 DEF VerifyClear, VerifyFails, AbandonGrant, GrantBot, GrantReduce, Halting
<1>4. CASE EndStep
  BY <1>4 DEF EndStep, SafeHalt, FinalActiveStopped, FinalObserverStopped, StopFailed, Latch,
      Shutdown, EndProcess, Reset
<1>5. CASE VerifyStartClear \/ VerifyStartFails \/ SkipTick
           \/ \E x \in XemmReports \cup {NoReport} : ReadXemm(x)
  BY <1>5 DEF VerifyStartClear, VerifyStartFails, SkipTick, ReadXemm, Halting
<1>6. ASSUME NEW t, NEW x, Poll(t, x) PROVE LatchUnderWay'
  <2>1. CASE StatusLost(t, x)
    BY <2>1 DEF StatusLost, Halting
  <2>2. CASE LossStop(t, x) \/ HoldWhilePaused(t, x)
    BY <2>2 DEF LossStop, HoldWhilePaused, StatusRead, Halting
  <2>3. CASE DecideTick(t, x)
    <3>1. Halting \/ (halted' = halted /\ pc = "poll")
      BY <2>3 DEF DecideTick, StatusRead
    <3> QED BY <2>3, <3>1 DEF DecideTick, Halting
  <2> QED BY <1>6, <2>1, <2>2, <2>3 DEF Poll
<1>7. CASE EngineStep
  <2> PICK s \in Slots :
        \/ Arm(s) \/ RefreshLease(s) \/ Scan(s) \/ PublishBurst(s) \/ Execute(s)
        \/ Quote(s) \/ Fill(s) \/ Settle(s) \/ ExitOk(s) \/ ExitErr(s)
    BY <1>7 DEF EngineStep
  <2>1. EngineOnly
    BY DEF Arm, RefreshLease, Scan, PublishBurst, Execute, Quote, Fill, Settle, ExitOk, ExitErr
  <2> QED BY <2>1 DEF EngineOnly
<1>8. CASE Environment
  BY <1>8 DEF Environment, OrderGone, StopRequest, ObserverRetryDue, Crash, ResolveSessions,
      Launch, Reset
<1>9. CASE Tick
  BY <1>9 DEF Tick
<1>10. CASE UNCHANGED vars
  BY <1>10 DEF vars
<1> QED
  BY <1>1, <1>2, <1>3, <1>4, <1>5, <1>6, <1>7, <1>8, <1>9, <1>10 DEF Next, ControlStep, PollStep, SwitchStep

\* With a disk that works every halt that runs to its end has latched the breaker
\* before the shutdown (safe_halt, latch_breaker), however its engines stopped.
THEOREM HaltLatchedHolds ==
    ASSUME ~DiskFails
    PROVE  Spec => []HaltLatched
<1>1. Init => LatchUnderWay
  BY DEF Init, LatchUnderWay
<1>2. IInv /\ LatchUnderWay /\ [Next]_vars => LatchUnderWay'
  BY LatchKept
<1>3. LatchUnderWay => HaltLatched
  BY DEF LatchUnderWay, HaltLatched
<1> QED BY <1>1, <1>2, <1>3, InvHolds, PTL DEF Spec

-----------------------------------------------------------------------------
(* The confirm windows, with the history ConfirmWindow adds                *)

\* Nothing is decided between a halt and the next start, nor while a plan is carried out.
Undecided ==
    /\ halted => pc \in {"halt", "haltActive", "haltObserver", "latch", "fast", "shutActive", "shutObserver", "down"}
    /\ pc \in {"verifyStart", "burst", "tick", "poll", "down"} => plan = NoPlan
    /\ pc = "fast" => plan = NoPlan \/ Stopping

\* The window of the engine in place has run no longer than the reports have called for the change.
Windowed ==
    /\ kept \in 0..MaxAge
    /\ ~halted =>
         /\ bot = "taker" /\ mode = "normal" /\ since.blocked # Unset => since.blocked <= kept
         /\ bot = "xemm" /\ since.ready # Unset => since.ready <= kept

\* The history watches: every step of ConfirmWindow is a step of the supervisor.
LEMMA HistoryWatches == [WNext]_windowVars => [Next]_vars
<1>1. WDecide \/ WPass => PollStep
  BY DEF WDecide, WPass, PollStep, Poll
<1>2. WTick => Tick
  BY DEF WTick
<1>3. WGrant => ControlStep
  BY DEF WGrant, ControlStep, SwitchStep
<1>4. WOther => ControlStep \/ EngineStep \/ Environment
  BY DEF WOther
<1>5. UNCHANGED windowVars => UNCHANGED vars
  BY DEF windowVars
<1> QED BY <1>1, <1>2, <1>3, <1>4, <1>5 DEF WNext, Next

LEMMA UndecidedKept == ASSUME IInv, Undecided, [Next]_vars PROVE Undecided'
<1> USE DEF Undecided, Stopping
<1>1. CASE FastStep \/ TickDue \/ CheckSwitch
  BY <1>1 DEF FastStep, TickDue, CheckSwitch, Exits, CheckExits, ReapActive, IgnoreBurst,
      ExtendOnBurst, ActivateReduce, Halting
<1>2. CASE KeepBot \/ BeginSwitch \/ ObserverStopped \/ ObserverStopFails \/ ActiveStopped
           \/ ActiveStopFails
  BY <1>2 DEF KeepBot, BeginSwitch, ObserverStopped, ObserverStopFails, ActiveStopped,
      ActiveStopFails, StopFailed, Halting
<1>3. CASE VerifyClear \/ VerifyFails \/ AbandonGrant \/ GrantBot \/ GrantReduce
  BY <1>3 DEF VerifyClear, VerifyFails, AbandonGrant, GrantBot, GrantReduce, Halting
<1>4. CASE EndStep
  BY <1>4 DEF EndStep, SafeHalt, FinalActiveStopped, FinalObserverStopped, StopFailed, Latch,
      Shutdown, EndProcess, Reset, IInv, HaltFlagged, controlVars
<1>5. CASE VerifyStartClear \/ VerifyStartFails \/ SkipTick
           \/ \E x \in XemmReports \cup {NoReport} : ReadXemm(x)
  BY <1>5 DEF VerifyStartClear, VerifyStartFails, SkipTick, ReadXemm, Halting
<1>6. ASSUME NEW t, NEW x, Poll(t, x) PROVE Undecided'
  <2>1. CASE StatusLost(t, x)
    BY <2>1 DEF StatusLost, controlVars
  <2>2. CASE LossStop(t, x) \/ HoldWhilePaused(t, x)
    BY <2>2 DEF LossStop, HoldWhilePaused, StatusRead, Halting, controlVars
  <2>3. CASE DecideTick(t, x)
    <3>1. /\ Halting \/ (halted' = halted /\ pc' \in {"readXemm", "ensure"})
          /\ pc = "poll"
      BY <2>3 DEF DecideTick, StatusRead
    <3> QED BY <3>1 DEF Halting
  <2> QED BY <1>6, <2>1, <2>2, <2>3 DEF Poll
<1>7. CASE EngineStep
  <2> PICK s \in Slots :
        \/ Arm(s) \/ RefreshLease(s) \/ Scan(s) \/ PublishBurst(s) \/ Execute(s)
        \/ Quote(s) \/ Fill(s) \/ Settle(s) \/ ExitOk(s) \/ ExitErr(s)
    BY <1>7 DEF EngineStep
  <2>1. EngineOnly
    BY DEF Arm, RefreshLease, Scan, PublishBurst, Execute, Quote, Fill, Settle, ExitOk, ExitErr
  <2> QED BY <2>1 DEF EngineOnly, controlVars
<1>8. CASE Environment
  BY <1>8 DEF Environment, OrderGone, StopRequest, ObserverRetryDue, Crash, ResolveSessions,
      Launch, Reset, controlVars
<1>9. CASE Tick
  BY <1>9 DEF Tick, controlVars
<1>10. CASE UNCHANGED vars
  BY <1>10 DEF vars, controlVars
<1> QED
  BY <1>1, <1>2, <1>3, <1>4, <1>5, <1>6, <1>7, <1>8, <1>9, <1>10 DEF Next, ControlStep, PollStep, SwitchStep

\* Between polls, ticks and grants no window opens and no engine takes over: the engine in place stays
\* with its windows or without, or none is left.
LEMMA StintKept ==
    ASSUME IInv, ControlStep \/ EngineStep \/ Environment, ~(pc = "grant" /\ bot' # "none")
    PROVE  \/ bot' = "none"
           \/ UNCHANGED <<bot, mode>> /\ since' \in {since, NoWindows} /\ (halted => halted')
<1> DEFINE Goal == \/ bot' = "none"
                   \/ UNCHANGED <<bot, mode>> /\ since' \in {since, NoWindows} /\ (halted => halted')
<1> SUFFICES Goal
  OBVIOUS
<1> USE DEF regimeVars, controlVars
<1>1. CASE FastStep \/ TickDue \/ CheckSwitch
  BY <1>1 DEF FastStep, TickDue, CheckSwitch, Exits, CheckExits, ReapActive, IgnoreBurst,
      ExtendOnBurst, ActivateReduce, Halting
<1>2. CASE KeepBot \/ BeginSwitch \/ ObserverStopped \/ ObserverStopFails \/ ActiveStopped
           \/ ActiveStopFails
  BY <1>2 DEF KeepBot, BeginSwitch, ObserverStopped, ObserverStopFails, ActiveStopped,
      ActiveStopFails, Halting
<1>3. CASE VerifyClear \/ VerifyFails \/ AbandonGrant
  BY <1>3 DEF VerifyClear, VerifyFails, AbandonGrant, Halting
<1>4. CASE GrantBot \/ GrantReduce
  BY <1>4 DEF GrantBot, GrantReduce
<1>5. CASE EndStep
  BY <1>5 DEF EndStep, SafeHalt, FinalActiveStopped, FinalObserverStopped, Latch, Shutdown, EndProcess, Reset
<1>6. CASE VerifyStartClear \/ VerifyStartFails \/ SkipTick
           \/ \E x \in XemmReports \cup {NoReport} : ReadXemm(x)
  BY <1>6 DEF VerifyStartClear, VerifyStartFails, SkipTick, ReadXemm, Halting
<1>7. CASE EngineStep
  <2> PICK s \in Slots :
        \/ Arm(s) \/ RefreshLease(s) \/ Scan(s) \/ PublishBurst(s) \/ Execute(s)
        \/ Quote(s) \/ Fill(s) \/ Settle(s) \/ ExitOk(s) \/ ExitErr(s)
    BY <1>7 DEF EngineStep
  <2>1. EngineOnly
    BY DEF Arm, RefreshLease, Scan, PublishBurst, Execute, Quote, Fill, Settle, ExitOk, ExitErr
  <2> QED BY <2>1 DEF EngineOnly
<1>8. CASE Environment
  BY <1>8 DEF Environment, OrderGone, StopRequest, ObserverRetryDue, Crash, ResolveSessions,
      Launch, Reset, IInv, SlotsFree
<1> QED
  BY <1>1, <1>2, <1>3, <1>4, <1>5, <1>6, <1>7, <1>8 DEF ControlStep, SwitchStep

\* What a decision makes of the window: it stays open only on a report that calls for the change,
\* and a decision that leaves the windows alone halts.
LEMMA DecisionCounts ==
    ASSUME TypeOK, Windowed, ~halted,
           NEW t \in TakerReports \cup {NoReport}, NEW x \in XemmReports \cup {NoReport}, DecideTick(t, x)
    PROVE  \/ Halting
           \/ /\ since' = Windows(bot, mode, since, t)
              /\ bot = "taker" /\ mode = "normal" /\ since'.blocked # Unset =>
                   ~Breaks(t) /\ since'.blocked <= kept
              /\ bot = "xemm" /\ since'.ready # Unset => ~Breaks(t) /\ since'.ready <= kept
<1> DEFINE active == lease' # NoLease /\ lease'.left > 0
           decision == Decide(bot, mode, active, since, t, x)
<1> USE SupervisorAssumption, HysteresisBand
<1>1. Polled(t, x) /\ Required(t, x) /\ since' = NextWindows(bot, mode, since, t, x)
  BY DEF DecideTick, StatusRead
<1>2. decision.target = "halt" => Halting
  BY DEF DecideTick
<1>3. CASE x # NoReport /\ ~x.reduceOnly
  BY <1>2, <1>3 DEF Decide, Halt
<1>4. CASE ~(x # NoReport /\ ~x.reduceOnly)
  <2>1. ~(t = NoReport /\ x = NoReport)
    BY <1>1 DEF Required, TypeOK, Bots
  <2>2. since' = Windows(bot, mode, since, t)
    BY <1>1, <1>4, <2>1 DEF NextWindows
  <2>3. ASSUME bot = "taker", mode = "normal", since'.blocked # Unset
        PROVE  ~Breaks(t) /\ since'.blocked <= kept
    <3>1. since'.blocked = Observe(since.blocked, TakerBlocked(t))
      BY <2>2, <2>3 DEF Windows
    <3>2. TakerBlocked(t) /\ since'.blocked \in {0, since.blocked}
      BY <2>3, <3>1 DEF Observe
    <3> QED BY <2>3, <3>1, <3>2 DEF Breaks, Windowed, Observe
  <2>4. ASSUME bot = "xemm", since'.ready # Unset
        PROVE  ~Breaks(t) /\ since'.ready <= kept
    <3>1. since'.ready = Observe(since.ready, ReadyForTaker(t))
      BY <2>2, <2>4 DEF Windows
    <3>2. ReadyForTaker(t)
      BY <2>4, <3>1 DEF Observe
    <3> QED BY <2>4, <3>1, <3>2 DEF Breaks, Windowed, Observe
  <2> QED BY <2>2, <2>3, <2>4
<1> QED BY <1>3, <1>4

LEMMA WindowedKept ==
    ASSUME ~CountsPaused, IInv, Windowed, [WNext]_windowVars
    PROVE  Windowed'
<1> USE SupervisorAssumption, HysteresisBand
<1>0. TypeOK /\ MaxAge \in Nat /\ kept \in 0..MaxAge
  BY DEF IInv, Windowed
<1>1. CASE WDecide
  <2> PICK t \in TakerReports \cup {NoReport}, x \in XemmReports \cup {NoReport} :
        DecideTick(t, x) /\ kept' = IF Breaks(t) THEN 0 ELSE kept
    BY <1>1 DEF WDecide
  <2>1. kept' \in 0..MaxAge
    BY <1>0
  <2>2. UNCHANGED <<bot, mode>> /\ (halted => halted')
    BY DEF DecideTick, Halting
  <2>3. CASE halted \/ Halting
    BY <2>1, <2>2, <2>3 DEF Windowed, Halting
  <2>4. CASE ~halted /\ ~Halting
    BY <1>0, <2>1, <2>2, <2>4, DecisionCounts DEF Windowed
  <2> QED BY <2>3, <2>4
<1>2. CASE WPass
  <2>1. UNCHANGED <<kept, bot, mode, since>> /\ (halted => halted')
    BY <1>2 DEF WPass, StatusLost, LossStop, HoldWhilePaused, Halting, regimeVars, controlVars
  <2> QED BY <2>1 DEF Windowed
<1>3. CASE WTick
  <2>1. /\ kept' = Least(kept + 1, MaxAge) /\ UNCHANGED <<bot, mode, halted>>
        /\ since' = [blocked |-> Older(since.blocked), ready |-> Older(since.ready)]
    BY <1>3 DEF WTick, Tick, controlVars
  <2>2. \A age \in Unset..MaxAge : Older(age) # Unset => age # Unset /\ (age <= kept => Older(age) <= kept')
    BY <1>0, <2>1 DEF Older, Least, Unset
  <2>3. since.blocked \in Unset..MaxAge /\ since.ready \in Unset..MaxAge
    BY <1>0 DEF TypeOK
  <2>4. kept' \in 0..MaxAge
    BY <1>0, <2>1 DEF Least
  <2> QED BY <2>1, <2>2, <2>3, <2>4 DEF Windowed
<1>4. CASE WGrant
  <2>1. kept' = 0
    BY <1>4 DEF WGrant
  <2>2. since' = NoWindows \/ (bot' = "taker" /\ mode' = "reduce")
    BY <1>4 DEF WGrant, GrantBot, GrantReduce
  <2> QED BY <1>0, <2>1, <2>2 DEF Windowed, NoWindows
<1>5. CASE WOther
  <2>1. /\ kept' = kept
        /\ \/ bot' = "none"
           \/ UNCHANGED <<bot, mode>> /\ since' \in {since, NoWindows} /\ (halted => halted')
    BY <1>5, StintKept DEF WOther
  <2> QED BY <2>1 DEF Windowed, NoWindows
<1>6. CASE UNCHANGED windowVars
  BY <1>6 DEF windowVars, vars, regimeVars, controlVars, Windowed
<1> QED BY <1>1, <1>2, <1>3, <1>4, <1>5, <1>6 DEF WNext

\* A step that plans a switch is a decision.
LEMMA OnlyDecisionsPlan ==
    ASSUME IInv, Undecided, [WNext]_windowVars, pc = "poll", plan'.why = "switch"
    PROVE  \E t \in TakerReports \cup {NoReport}, x \in XemmReports \cup {NoReport} : DecideTick(t, x)
<1>1. plan = NoPlan /\ NoPlan.why # "switch"
  BY DEF Undecided, NoPlan
<1>2. plan' # plan /\ plan' # NoPlan
  BY <1>1
<1>3. ~ControlStep
  <2>1. ~(VerifyStartClear \/ VerifyStartFails \/ FastStep \/ SkipTick \/ TickDue)
    BY DEF VerifyStartClear, VerifyStartFails, FastStep, Exits, CheckExits, ReapActive, IgnoreBurst,
        ExtendOnBurst, ActivateReduce, SkipTick, TickDue
  <2>2. ~SwitchStep /\ ~\E x \in XemmReports \cup {NoReport} : ReadXemm(x)
    BY DEF SwitchStep, KeepBot, CheckSwitch, BeginSwitch, ObserverStopped, ObserverStopFails, ActiveStopped,
        ActiveStopFails, VerifyClear, VerifyFails, AbandonGrant, GrantReduce, GrantBot, ReadXemm
  <2>3. ~EndStep
    BY DEF EndStep, SafeHalt, FinalActiveStopped, FinalObserverStopped, Latch, Shutdown, EndProcess
  <2> QED BY <2>1, <2>2, <2>3 DEF ControlStep
<1>4. ~EngineStep
  <2> SUFFICES ASSUME NEW s \in Slots,
          \/ Arm(s) \/ RefreshLease(s) \/ Scan(s) \/ PublishBurst(s) \/ Execute(s)
          \/ Quote(s) \/ Fill(s) \/ Settle(s) \/ ExitOk(s) \/ ExitErr(s)
        PROVE FALSE
    BY DEF EngineStep
  <2>1. EngineOnly
    BY DEF Arm, RefreshLease, Scan, PublishBurst, Execute, Quote, Fill, Settle, ExitOk, ExitErr
  <2> QED BY <1>2, <2>1 DEF EngineOnly
<1>5. ~Environment
  BY <1>2 DEF Environment, OrderGone, StopRequest, ObserverRetryDue, Crash, ResolveSessions, Launch, Reset
<1>6. ~WTick /\ ~UNCHANGED windowVars
  BY <1>2 DEF WTick, Tick, windowVars, vars
<1>7. ~WPass
  BY <1>2 DEF WPass, StatusLost, LossStop, HoldWhilePaused, Halting
<1>8. ~WGrant /\ ~WOther
  BY <1>3, <1>4, <1>5 DEF WOther, WGrant, ControlStep, SwitchStep
<1> QED BY <1>6, <1>7, <1>8 DEF WNext, WDecide

LEMMA StayTarget == \A b, m : Stay(b, m).target = b
BY DEF Stay

LEMMA DecisionsAreConfirmed ==
    ASSUME IInv, Undecided, Windowed, [WNext]_windowVars
    PROVE  Confirmed
<1> SUFFICES ASSUME NEW from, NEW to, Replaced(from, to) PROVE
          /\ from = "taker" /\ to = "xemm" /\ mode = "normal" => kept >= BlockedConfirm
          /\ from = "xemm" /\ to = "taker" => kept >= ResumeConfirm
  BY DEF Confirmed
<1> USE SupervisorAssumption, HysteresisBand
<1>0. TypeOK /\ MaxAge \in Nat /\ kept \in 0..MaxAge /\ ~halted
  BY DEF IInv, Windowed, Undecided, Replaced
<1>1. PICK t \in TakerReports \cup {NoReport}, x \in XemmReports \cup {NoReport} : DecideTick(t, x)
  BY OnlyDecisionsPlan DEF Replaced
<1> DEFINE active == lease' # NoLease /\ lease'.left > 0
           decision == Decide(bot, mode, active, since, t, x)
<1>2. ~Halting
  BY DEF Replaced, Halting, NoPlan
<1>3. plan'.target = decision.target /\ decision.target # "halt"
  BY <1>1, <1>2 DEF DecideTick
<1>4. /\ since' = Windows(bot, mode, since, t)
      /\ bot = "taker" /\ mode = "normal" /\ since'.blocked # Unset => since'.blocked <= kept
      /\ bot = "xemm" /\ since'.ready # Unset => since'.ready <= kept
  BY <1>0, <1>1, <1>2, DecisionCounts
<1>5. ASSUME from = "taker", to = "xemm", mode = "normal" PROVE kept >= BlockedConfirm
  <2>1. decision = Stay(IF Held(since'.blocked, BlockedConfirm) THEN "xemm" ELSE "taker", "normal")
    BY <1>3, <1>4, <1>5 DEF Decide, Halt, Replaced
  <2>2. Held(since'.blocked, BlockedConfirm)
    <3>1. decision.target = IF Held(since'.blocked, BlockedConfirm) THEN "xemm" ELSE "taker"
      BY <2>1, StayTarget
    <3> HIDE DEF decision
    <3> QED BY <1>3, <1>5, <3>1 DEF Replaced
  <2>3. since'.blocked \in Int
    <3>1. since.blocked \in Unset..MaxAge
      BY <1>0 DEF TypeOK
    <3> QED BY <1>4, <3>1 DEF Windows, Observe, Unset
  <2> QED BY <1>0, <1>4, <1>5, <2>2, <2>3 DEF Held, Replaced
<1>6. ASSUME from = "xemm", to = "taker" PROVE kept >= ResumeConfirm
  <2>1. decision = Stay(IF Held(since'.ready, ResumeConfirm) THEN "taker" ELSE "xemm", "normal")
    BY <1>3, <1>4, <1>6 DEF Decide, Halt, Replaced
  <2>2. Held(since'.ready, ResumeConfirm)
    <3>1. decision.target = IF Held(since'.ready, ResumeConfirm) THEN "taker" ELSE "xemm"
      BY <2>1, StayTarget
    <3> HIDE DEF decision
    <3> QED BY <1>3, <1>6, <3>1 DEF Replaced
  <2>3. since'.ready \in Int
    <3>1. since.ready \in Unset..MaxAge
      BY <1>0 DEF TypeOK
    <3> QED BY <1>4, <3>1 DEF Windows, Observe, Unset
  <2> QED BY <1>0, <1>4, <1>6, <2>2, <2>3 DEF Held, Replaced
<1> QED BY <1>5, <1>6

\* No engine is replaced before its own confirm window has run, with every report decided upon in
\* that window calling for the change (Regime::decide, sustained; Supervisor::tick).
THEOREM SustainedHolds ==
    ASSUME ~CountsPaused
    PROVE  WSpec => Sustained
<1>1. WInit => Init /\ Undecided /\ Windowed
  BY SupervisorAssumption DEF WInit, Init, Undecided, Windowed
<1>2. IInv /\ Undecided /\ [WNext]_windowVars => Undecided'
  BY HistoryWatches, UndecidedKept
<1>3. IInv /\ [WNext]_windowVars => IInv'
  BY HistoryWatches, InvStep
<1>4. IInv /\ Windowed /\ [WNext]_windowVars => Windowed'
  BY WindowedKept
<1>5. IInv /\ Undecided /\ Windowed /\ [WNext]_windowVars => [Confirmed]_windowVars
  BY DecisionsAreConfirmed
<1> QED BY <1>1, <1>2, <1>3, <1>4, <1>5, InvInit, PTL DEF WSpec, Sustained
===============================================================================
