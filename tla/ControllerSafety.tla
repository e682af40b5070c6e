---------------------------- MODULE ControllerSafety ----------------------------
(***************************************************************************)
(* Proofs about what makes the controller switch and stop: the band of     *)
(* Hysteresis (controller/regime.rs) for every threshold that              *)
(* ControllerCfg::validate admits, and the equity drawdown stop            *)
(* (controller/risk.rs) for every set of equities, limit, gap and refresh, *)
(* whether or not the files can fail; and that the realized-PnL stop       *)
(* (controller/risk.rs) counts one record per trade, for every set of rows *)
(* and trades.                                                             *)
(***************************************************************************)
EXTENDS Hysteresis, EquityBaseline, RealizedTrades, SumTheorems

-----------------------------------------------------------------------------
(* The hysteresis band                                                     *)

\* A clip is a positive amount.
LEMMA ClipPositive == ASSUME NEW r \in TakerReport PROVE Clip(r) \in Nat /\ Clip(r) > 0
  BY HysteresisBand DEF Clip, TakerReport

\* Below the switch clips means below the resume clips, for headroom and margin.
LEMMA BandWidens ==
    ASSUME NEW r \in TakerReport
    PROVE  /\ LowHeadroom(r, SwitchHeadroomClips) => LowHeadroom(r, ResumeHeadroomClips)
           /\ LowMargin(r, SwitchMarginClips) => LowMargin(r, ResumeMarginClips)
<1>1. \A c \in Nat, s \in Nat, t \in Nat : s < t => c * s <= c * t
  OBVIOUS
<1>2. /\ Clip(r) * SwitchHeadroomClips <= Clip(r) * ResumeHeadroomClips
      /\ Clip(r) * SwitchMarginClips <= Clip(r) * ResumeMarginClips
  BY <1>1, ClipPositive, HysteresisBand
<1>3. /\ Clip(r) * SwitchHeadroomClips \in Int /\ Clip(r) * ResumeHeadroomClips \in Int
      /\ Clip(r) * SwitchMarginClips \in Int /\ Clip(r) * ResumeMarginClips \in Int
  BY ClipPositive, HysteresisBand
<1> QED BY <1>2, <1>3 DEF LowHeadroom, LowMargin, TakerReport

\* A blocked report is not ready, unless near flat.
LEMMA BlockedNotReady ==
    ASSUME NEW r \in TakerReport, TakerBlocked(r), ReadyForTaker(r)
    PROVE  NearFlat(r)
  BY BandWidens DEF TakerBlocked, ReadyForTaker, MarginLimited

\* What two reports of one market say on the two sides of the band.
LEMMA AcrossTheBand ==
    ASSUME NEW low, NEW high, NEW c \in Nat, NEW s \in Nat, NEW t \in Nat,
           low \in Int, high \in Int, low < c * s, ~(high < c * t)
    PROVE  high - low > c * (t - s)
<1>1. c * (t - s) = c * t - c * s /\ c * t \in Int /\ c * s \in Int
  OBVIOUS
<1> QED BY <1>1

\* Every reachable report is one of the market's.
LEMMA Reported ==
    Spec => [](report \in Reports /\ left \in Reports \cup {NoReport})
<1> DEFINE Known == report \in Reports /\ left \in Reports \cup {NoReport}
<1>1. Init => Known
  BY DEF Init
<1>2. Known /\ [Next]_hysteresisVars => Known'
  BY DEF Next, Drift, Switch, Tick, hysteresisVars
<1> QED BY <1>1, <1>2, PTL DEF Spec

\* No report reads as blocked and ready at once but near flat (ControllerCfg::validate:
\* without the band "the taker reads as blocked and ready at once").
THEOREM NeverBothHolds == Spec => []NeverBoth
<1>1. report \in Reports => NeverBoth
  BY BlockedNotReady, ReportsAssumption DEF NeverBoth
<1> QED BY <1>1, Reported, PTL

\* The engines flip back only across the whole band (regime.rs, taker_margin_state).
THEOREM HandBackHolds == Spec => HandBackCrossesBand
<1> DEFINE Known == report \in Reports /\ left \in Reports \cup {NoReport}
           Crosses ==
             /\ LowHeadroom(left, SwitchHeadroomClips) =>
                   Rose(report.headroom, left.headroom, ResumeHeadroomClips - SwitchHeadroomClips)
             /\ LowMargin(left, SwitchMarginClips) =>
                   Rose(Free(report), Free(left), ResumeMarginClips - SwitchMarginClips)
<1>1. ASSUME Known, Next, HandBack PROVE Crosses
  <2>1. report \in TakerReport /\ left \in TakerReport /\ Clip(left) = Clip(report)
    BY <1>1, ReportsAssumption DEF HandBack
  <2>2. ReadyForTaker(report)
    <3>1. Decide(bot, "normal", FALSE, since, report, XemmStatus).target = "taker" /\ bot = "xemm"
      BY <1>1 DEF Next, Drift, Switch, Tick, HandBack
    <3>2. Held(Windows(bot, "normal", since, report).ready, ResumeConfirm)
      BY <3>1, ReportsAssumption DEF Decide, Stay, Halt
    <3> QED BY <3>1, <3>2 DEF Windows, Held, Observe
  <2>3. ~LowHeadroom(report, ResumeHeadroomClips) /\ ~LowMargin(report, ResumeMarginClips)
    BY <1>1, <2>2 DEF ReadyForTaker, HandBack, MarginLimited
  <2>4. Clip(report) \in Nat
    BY <2>1, ClipPositive
  <2>5. LowHeadroom(left, SwitchHeadroomClips) =>
           Rose(report.headroom, left.headroom, ResumeHeadroomClips - SwitchHeadroomClips)
    BY <2>1, <2>3, <2>4, AcrossTheBand, HysteresisBand DEF LowHeadroom, Rose, TakerReport
  <2>6. LowMargin(left, SwitchMarginClips) =>
           Rose(Free(report), Free(left), ResumeMarginClips - SwitchMarginClips)
    BY <2>1, <2>3, <2>4, AcrossTheBand, HysteresisBand DEF LowMargin, Rose, Free, TakerReport
  <2> QED BY <2>5, <2>6
<1>2. Known /\ [Next]_hysteresisVars => [HandBack => Crosses]_hysteresisVars
  BY <1>1
<1> QED BY <1>2, Reported, PTL DEF Spec, HandBackCrossesBand

-----------------------------------------------------------------------------
(* The equity drawdown stop                                                *)

\* The ages and their saturating successor.
LEMMA AgeTypes ==
    ASSUME BaselineAssumption
    PROVE
    /\ Never \in Ages /\ 0 \in Ages /\ Ages \subseteq Nat /\ PersistEvery \in Nat /\ PersistEvery <= Never
    /\ \A age \in Ages : Older(age) \in Ages /\ age <= Older(age) /\ Older(age) <= age + 1
    /\ \A a, b \in Ages : a <= b => Older(a) <= Older(b)
    /\ \A a, b \in Ages : a <= b + PersistEvery => Older(a) <= Older(b) + PersistEvery
BY DEF BaselineAssumption, Ages, Never, Older

\* A missing file reads as a record of no equity.
LEMMA NoFileTypes ==
    ASSUME BaselineAssumption
    PROVE  NoFile \in [equity : Equities \cup {None}, age : Ages]
BY AgeTypes DEF NoFile

\* A baseline that is kept or set is an equity, or none.
LEMMA RebasedTypes ==
    ASSUME BaselineTypeOK, NEW equity \in Equities
    PROVE  /\ Rebased(equity) \in Equities \cup {None}
           /\ base # None => Rebased(equity) = base
           /\ MustPersist(equity) \in BOOLEAN
BY DEF BaselineTypeOK, Rebased, MustPersist

\* The invariant holds before the first start.
LEMMA InvInit == ASSUME BaselineAssumption PROVE BaselineInit => IInv
<1> SUFFICES ASSUME BaselineInit PROVE IInv
  OBVIOUS
<1>1. BaselineTypeOK
  BY AgeTypes DEF BaselineInit, BaselineTypeOK, NoFile
<1>2. LossKeepsCounting /\ LossHalts /\ Anchored /\ Acknowledged
  BY DEF BaselineInit, LossKeepsCounting, LossHalts, Anchored, Acknowledged
<1>3. Dated
  BY DEF BaselineInit, Dated, NoFile, Never, BaselineAssumption
<1> QED
  BY <1>1, <1>2, <1>3 DEF IInv

\* A step keeps the types.
LEMMA TypeStep == ASSUME BaselineAssumption, BaselineTypeOK, [BaselineNext]_baselineVars PROVE BaselineTypeOK'
<1> USE DEF BaselineTypeOK
<1>1. ASSUME NEW ack \in BOOLEAN, NEW reset \in BOOLEAN, Start(ack, reset) PROVE BaselineTypeOK'
  BY <1>1 DEF Start, tracker
<1>2. CASE Archive \/ ResetFails \/ SwitchEngine \/ OtherHalt
  BY <1>2 DEF Archive, ResetFails, SwitchEngine, OtherHalt, tracker, history
<1>3. CASE ResetBaseline
  <2>1. file' \in {file, NoFile} /\ anchor' \in {anchor, None} /\ durable' \in {durable, FALSE} /\ pc' = "load"
    BY <1>3 DEF ResetBaseline
  <2>2. UNCHANGED <<asked, breaker, base, last, persisted, active, silence, acked>>
    BY <1>3 DEF ResetBaseline, tracker
  <2> QED
    BY <2>1, <2>2, NoFileTypes
<1>4. CASE Load
  <2>1. /\ file' \in {file, NoFile} /\ anchor' \in {anchor, None, file.equity}
        /\ base' \in {None, file.equity} /\ durable' \in BOOLEAN
    BY <1>4 DEF Load
  <2>2. pc' = "run" /\ last' = None /\ persisted' = Never /\ UNCHANGED <<asked, breaker, active, silence, acked>>
    BY <1>4 DEF Load
  <2>3. file.equity \in Equities \cup {None}
    OBVIOUS
  <2> QED
    BY <2>1, <2>2, <2>3, NoFileTypes, AgeTypes
<1>5. CASE LoadFails
  BY <1>5, AgeTypes DEF LoadFails
<1>6. ASSUME NEW equity \in Equities, Record(equity) PROVE BaselineTypeOK'
  <2>1. Rebased(equity) \in Equities \cup {None}
    BY RebasedTypes
  <2>2. pc' \in {"halt", "run"} /\ UNCHANGED <<asked, breaker, active, acked>>
    BY <1>6 DEF Record
  <2>3. base' = Rebased(equity) /\ last' = equity /\ anchor' \in {anchor, Rebased(equity)}
    BY <1>6 DEF Record, Sample
  <2>4. \/ file' = [equity |-> Rebased(equity), age |-> 0] /\ persisted' = 0 /\ durable' = TRUE /\ silence' = 0
        \/ silence' \in {silence, 0} /\ UNCHANGED <<file, persisted, durable>>
    BY <1>6 DEF Record, Sample
  <2>5. pc' \in {"down", "gate", "reset", "load", "run", "halt"} /\ {asked', active', durable', acked'} \subseteq BOOLEAN
    BY <2>2, <2>4
  <2>6. file' \in [equity : Equities \cup {None}, age : Ages] /\ persisted' \in Ages /\ silence' \in Ages
    BY <2>1, <2>4, AgeTypes
  <2>7. breaker' \in {"none", "drawdown", "other"}
    BY <2>2
  <2> QED
    BY <2>1, <2>3, <2>5, <2>6, <2>7
<1>7. CASE Latch \/ Crash
  BY <1>7, AgeTypes DEF Latch, Crash, Forget
<1>8. CASE TimePasses
  BY <1>8, AgeTypes DEF TimePasses
<1>9. CASE UNCHANGED baselineVars
  BY <1>9 DEF baselineVars, tracker, history
<1> QED
  BY <1>1, <1>2, <1>3, <1>4, <1>5, <1>6, <1>7, <1>8, <1>9 DEF BaselineNext

\* Reloading: a file that is ignored is one no loss counts from.
LEMMA LoadStep == ASSUME BaselineAssumption, IInv, Load PROVE LossKeepsCounting' /\ Anchored'
<1> USE DEF IInv, BaselineTypeOK, Anchored, LossKeepsCounting
<1>1. CASE file # NoFile /\ ~Stale
  BY <1>1 DEF Load, Dated
<1>2. CASE ~(file # NoFile /\ ~Stale)
  <2>1. anchor # None => durable /\ file # NoFile
    BY DEF Load, NoFile
  <2>2. anchor # None => silence + PersistEvery > MaxGap
    <3> SUFFICES ASSUME anchor # None PROVE silence + PersistEvery > MaxGap
      OBVIOUS
    <3>1. file.age > MaxGap /\ file.age <= silence + PersistEvery
      BY <1>2, <2>1 DEF Stale, Dated
    <3>2. file.age \in Nat /\ silence \in Nat /\ MaxGap \in Nat /\ PersistEvery \in Nat
      BY AgeTypes DEF BaselineAssumption
    <3> QED
      BY <3>1, <3>2
  <2>3. base' = None /\ pc' = "run" /\ anchor' = None /\ durable' = FALSE
    BY <1>2, <2>1, <2>2 DEF Load
  <2> QED
    BY <2>3
<1> QED
  BY <1>1, <1>2

\* A sample: it sets an anchor only together with the baseline, and a file it does not write is
\* not due.
LEMMA RecordStep ==
    ASSUME BaselineAssumption, IInv, NEW equity \in Equities, Record(equity)
    PROVE  LossKeepsCounting' /\ LossHalts' /\ Anchored' /\ Dated' /\ Acknowledged'
<1> USE DEF IInv, BaselineTypeOK
<1>1. base = anchor /\ pc = "run" /\ anchor' = Rebased(equity) /\ base' = Rebased(equity)
  BY RebasedTypes DEF Record, Sample, LossKeepsCounting
<1>2. LossKeepsCounting'
  BY <1>1 DEF LossKeepsCounting
<1>3. LossHalts'
  <2> SUFFICES ASSUME pc' = "run", anchor' # None PROVE last' - anchor' > -MaxLoss
    BY DEF LossHalts
  <2>1. ~(equity - Rebased(equity) <= -MaxLoss) /\ last' = equity
    <3>1. Rebased(equity) # None /\ equity # None
      BY <1>1 DEF BaselineAssumption
    <3>2. ~Breach(Rebased(equity), equity) /\ last' = equity
      BY DEF Record, Sample
    <3> QED
      BY <3>1, <3>2 DEF Breach
  <2>2. equity \in Int /\ Rebased(equity) \in Int /\ MaxLoss \in Int
    <3>1. Rebased(equity) \in Equities
      BY <1>1, RebasedTypes
    <3>2. \A e \in Equities : e \in Int
      BY DEF BaselineAssumption
    <3>3. MaxLoss \in Int
      BY DEF BaselineAssumption
    <3> QED BY <3>1, <3>2, <3>3
  <2> QED
    BY <1>1, <2>1, <2>2
<1>4. Anchored'
  <2>1. CASE MustPersist(equity) /\ file' = [equity |-> Rebased(equity), age |-> 0] /\ durable' = TRUE
    BY <1>1, <2>1, RebasedTypes DEF Record, Anchored, MustPersist
  <2>2. CASE UNCHANGED <<file, durable>>
    BY <1>1, <2>2, RebasedTypes DEF Record, Anchored
  <2> QED
    BY <2>1, <2>2 DEF Record, Sample
<1>5. Dated'
  <2>0. pc' \in {"run", "halt"}
    BY DEF Record
  <2>1. CASE MustPersist(equity) /\ file' = [equity |-> Rebased(equity), age |-> 0] /\ persisted' = 0 /\ silence' = 0
    <3>1. Rebased(equity) # None /\ file'.equity = Rebased(equity) /\ file'.age = 0
      BY <2>1 DEF MustPersist
    <3>2. silence' + PersistEvery \in Nat /\ 0 <= silence' + PersistEvery
      BY <2>1, AgeTypes
    <3> QED BY <2>0, <2>1, <3>1, <3>2 DEF Dated, NoFile
  <2>2. CASE UNCHANGED <<file, persisted, silence>>
    BY <2>0, <2>2 DEF Dated
  <2>3. CASE ~MustPersist(equity) /\ Rebased(equity) # None /\ UNCHANGED <<file, persisted>> /\ silence' = 0
    <3>1. persisted < PersistEvery /\ persisted \in Nat /\ PersistEvery \in Nat
      BY <2>3, AgeTypes DEF MustPersist, BaselineAssumption
    <3>2. file # NoFile /\ file.age <= persisted /\ file.age \in Nat
      BY <3>1, AgeTypes DEF Dated
    <3>3. file.age <= silence' + PersistEvery
      BY <2>3, <3>1, <3>2
    <3> QED
      BY <2>0, <2>3, <3>3 DEF Dated
  <2> QED
    BY <2>1, <2>2, <2>3 DEF Record, Sample
<1>6. Acknowledged'
  BY DEF Record, Sample, Acknowledged, BaselineAssumption
<1> QED
  BY <1>2, <1>3, <1>4, <1>5, <1>6

\* A tick: every age moves alike.
LEMMA TickStep == ASSUME BaselineAssumption, IInv, TimePasses PROVE LossKeepsCounting' /\ LossHalts' /\ Anchored' /\ Dated' /\ Acknowledged'
<1> USE DEF IInv, BaselineTypeOK, TimePasses
<1>1. file'.equity = file.equity /\ (file' = NoFile <=> file = NoFile)
  BY DEF Dated, NoFile
<1>2. LossKeepsCounting' /\ LossHalts' /\ Anchored' /\ Acknowledged'
  BY <1>1 DEF LossKeepsCounting, LossHalts, Anchored, Acknowledged
<1>3. Dated'
  <2>1. file # NoFile => file'.age = Older(file.age) /\ file.age \in Ages
    OBVIOUS
  <2>2. file # NoFile => file'.age <= silence' + PersistEvery
    BY <2>1, AgeTypes DEF Dated
  <2>3. persisted' < PersistEvery => persisted < PersistEvery
    BY AgeTypes DEF BaselineAssumption
  <2>4. persisted < PersistEvery => file'.age <= persisted'
    BY <2>1, AgeTypes DEF Dated
  <2>5. pc' \notin {"run", "halt"} => persisted' = Never
    BY AgeTypes DEF Dated, Older
  <2>6. file'.equity = None => file' = NoFile
    BY <1>1 DEF Dated
  <2> QED
    BY <1>1, <2>2, <2>3, <2>4, <2>5, <2>6 DEF Dated
<1> QED
  BY <1>2, <1>3

\* A step keeps the invariant.
LEMMA InvStep == ASSUME BaselineAssumption PROVE IInv /\ [BaselineNext]_baselineVars => IInv'
<1> SUFFICES ASSUME IInv, [BaselineNext]_baselineVars PROVE IInv'
  OBVIOUS
<1> USE DEF IInv
<1>1. BaselineTypeOK'
  BY TypeStep
<1> DEFINE Parts == LossKeepsCounting /\ LossHalts /\ Anchored /\ Dated /\ Acknowledged
<1>2. ASSUME NEW ack \in BOOLEAN, NEW reset \in BOOLEAN, Start(ack, reset) PROVE Parts'
  BY <1>2 DEF Start, Passes, tracker, LossKeepsCounting, LossHalts, Anchored, Dated, Acknowledged
<1>3. CASE Archive \/ ResetFails \/ SwitchEngine \/ OtherHalt
  BY <1>1, <1>3 DEF Archive, ResetFails, SwitchEngine, OtherHalt, tracker, history, LossKeepsCounting, LossHalts,
      Anchored, Dated, Acknowledged
<1>4. CASE ResetBaseline
  <2>1. LossKeepsCounting' /\ LossHalts'
    BY <1>4 DEF ResetBaseline, LossKeepsCounting, LossHalts
  <2>2. Anchored'
    BY <1>4 DEF ResetBaseline, Anchored
  <2>3. persisted' = persisted /\ silence' = silence /\ pc = "reset" /\ pc' = "load" /\ acked' = acked
    BY <1>4 DEF ResetBaseline, tracker
  <2>4. Dated'
    <3>1. CASE file' = file
      BY <2>3, <3>1 DEF Dated
    <3>2. CASE asked /\ file' = NoFile
      \* The tracker forgot its last write with the process that made it.
      <4>1. persisted >= PersistEvery
        BY <2>3, AgeTypes DEF Dated
      <4> QED BY <2>3, <3>2, <4>1, AgeTypes DEF Dated, NoFile
    <3> QED BY <1>4, <3>1, <3>2 DEF ResetBaseline
  <2>5. Acknowledged'
    BY <1>4, <2>3 DEF ResetBaseline, Acknowledged
  <2> QED
    BY <1>1, <2>1, <2>2, <2>4, <2>5
<1>5. CASE Load
  <2>1. LossHalts'
    BY <1>5 DEF Load, LossHalts
  <2>2. Dated'
    BY <1>5, AgeTypes DEF Load, Dated, NoFile, BaselineAssumption
  <2>3. Acknowledged'
    BY <1>5 DEF Load, Acknowledged
  <2> QED
    BY <1>1, <1>5, <2>1, <2>2, <2>3, LoadStep
<1>6. CASE LoadFails
  BY <1>1, <1>6, AgeTypes DEF LoadFails, LossKeepsCounting, LossHalts, Anchored, Dated, Acknowledged,
      BaselineAssumption
<1>7. ASSUME NEW equity \in Equities, Record(equity) PROVE Parts'
  BY <1>7, RecordStep
<1>8. CASE Latch \/ Crash
  <2>1. LossKeepsCounting' /\ LossHalts' /\ Acknowledged'
    BY <1>8 DEF Latch, Crash, Forget, LossKeepsCounting, LossHalts, Acknowledged
  <2>2. Anchored'
    BY <1>8 DEF Latch, Crash, Forget, Anchored
  <2>3. Dated'
    BY <1>8, AgeTypes DEF Latch, Crash, Forget, Dated, BaselineAssumption
  <2> QED
    BY <1>1, <2>1, <2>2, <2>3
<1>9. CASE TimePasses
  BY <1>1, <1>9, TickStep
<1>10. CASE UNCHANGED baselineVars
  BY <1>1, <1>10 DEF baselineVars, tracker, history, LossKeepsCounting, LossHalts, Anchored, Dated, Acknowledged
<1> QED
  BY <1>1, <1>2, <1>3, <1>4, <1>5, <1>6, <1>7, <1>8, <1>9, <1>10 DEF BaselineNext

-----------------------------------------------------------------------------
\* The inductive invariant of the drawdown stop (EquityTracker, check_breaker).
THEOREM InvHolds == ASSUME BaselineAssumption PROVE BaselineSpec => []IInv
BY InvInit, InvStep, PTL DEF BaselineSpec

\* Losses count from one equity over restarts, crashes and failing files, until it is reset or no
\* sample was recorded for the gap less one refresh (EquityTracker::load, record).
THEOREM LossKeepsCountingHolds == ASSUME BaselineAssumption PROVE BaselineSpec => []LossKeepsCounting
<1>1. IInv => LossKeepsCounting
  BY DEF IInv
<1> QED BY <1>1, InvHolds, PTL

\* No tick passes with a loss at the limit (EquityTracker::breach).
THEOREM LossHaltsHolds == ASSUME BaselineAssumption PROVE BaselineSpec => []LossHalts
<1>1. IInv => LossHalts
  BY DEF IInv
<1> QED BY <1>1, InvHolds, PTL

\* A baseline that reached the disk stays there, fresh to within one refresh of the last sample
\* recorded, for as long as losses count from it.
THEOREM FileIsFreshHolds == ASSUME BaselineAssumption PROVE BaselineSpec => []FileIsFresh
<1>1. IInv => FileIsFresh
  BY DEF IInv, FileIsFresh, Anchored, Dated, NoFile
<1> QED BY <1>1, InvHolds, PTL

\* An acknowledged drawdown does not halt the run that acknowledged it on its first sample
\* (check_breaker with --reset-breaker-baseline).
THEOREM AcknowledgedHolds == ASSUME BaselineAssumption PROVE BaselineSpec => AcknowledgedStartsFresh
<1> DEFINE Fresh == acked /\ last = None /\ last' # None => pc' = "run"
<1>1. IInv /\ [BaselineNext]_baselineVars => [Fresh]_baselineVars
  <2> SUFFICES ASSUME IInv, BaselineNext, acked, last = None, last' # None PROVE pc' = "run"
    OBVIOUS
  <2>1. PICK equity \in Equities : Record(equity)
    BY DEF BaselineNext, Start, Archive, ResetBaseline, ResetFails, Load, LoadFails, SwitchEngine, OtherHalt, Latch, Crash,
        Forget, TimePasses, tracker
  <2>2. base = None
    BY <2>1 DEF IInv, Acknowledged, Record
  <2>3. Rebased(equity) \in {None, equity} /\ equity \in Int /\ MaxLoss \in Nat \ {0}
    BY <2>2 DEF Rebased, BaselineAssumption
  <2> QED
    BY <2>1, <2>3 DEF Record, Breach
<1> QED BY <1>1, InvHolds, PTL DEF BaselineSpec, AcknowledgedStartsFresh

\* The drawdown stop as a whole (EquityTracker, check_breaker): one equity to count losses from, a
\* halt at the limit, a file that keeps the baseline, and a fresh start after an acknowledgement.
THEOREM LossesStopHolds == ASSUME BaselineAssumption PROVE BaselineSpec => LossesStop
BY InvHolds, FileIsFreshHolds, AcknowledgedHolds, PTL DEF LossesStop

-----------------------------------------------------------------------------
(* The tailed ledgers: counts and sums                                     *)

\* One element more or less in a set.
LEMMA CountChange ==
    ASSUME NEW A, IsFiniteSet(A), NEW B, NEW x, A \ {x} = B \ {x}
    PROVE  /\ IsFiniteSet(B) /\ Cardinality(A) \in Nat
           /\ Cardinality(B) = Cardinality(A) + (IF x \in B THEN 1 ELSE 0) - (IF x \in A THEN 1 ELSE 0)
<1> DEFINE R == A \ {x}
<1>1. IsFiniteSet(R) /\ Cardinality(R) \in Nat /\ Cardinality(A) \in Nat
  BY FS_Subset, FS_CardinalityType
<1>2. Cardinality(A) = Cardinality(R) + (IF x \in A THEN 1 ELSE 0)
  <2>1. CASE x \in A
    <3>1. Cardinality(R) = Cardinality(A) - 1
      BY <2>1, FS_RemoveElement
    <3> QED BY <1>1, <2>1, <3>1
  <2>2. CASE x \notin A
    <3>1. R = A
      BY <2>2
    <3> QED BY <1>1, <2>2, <3>1
  <2> QED BY <2>1, <2>2
<1>3. IsFiniteSet(B) /\ Cardinality(B) = Cardinality(R) + (IF x \in B THEN 1 ELSE 0)
  <2>1. CASE x \in B
    <3>1. B = R \cup {x} /\ x \notin R
      BY <2>1
    <3>2. IsFiniteSet(R \cup {x}) /\ Cardinality(R \cup {x}) = Cardinality(R) + 1
      BY <1>1, <3>1, FS_AddElement
    <3> QED BY <2>1, <3>1, <3>2
  <2>2. CASE x \notin B
    <3>1. B = R
      BY <2>2
    <3> QED BY <1>1, <2>2, <3>1
  <2> QED BY <2>1, <2>2
<1> QED BY <1>1, <1>2, <1>3

\* A summand added, replaced or taken away.
LEMMA SumTold ==
    ASSUME NEW A, IsFiniteSet(A), NEW B, NEW x, A \ {x} = B \ {x},
           NEW f, NEW g, \A k \in A : f[k] \in Int, \A k \in B : g[k] \in Int, \A k \in A \ {x} : g[k] = f[k]
    PROVE  /\ SumFunctionOnSet(f, A) \in Int
           /\ SumFunctionOnSet(g, B) =
                SumFunctionOnSet(f, A) + (IF x \in B THEN g[x] ELSE 0) - (IF x \in A THEN f[x] ELSE 0)
<1> DEFINE R == A \ {x}
<1>1. IsFiniteSet(R) /\ IsFiniteSet(B)
  BY FS_Subset, CountChange
<1>2. SumFunctionOnSet(g, R) = SumFunctionOnSet(f, R) /\ SumFunctionOnSet(f, R) \in Int
  BY <1>1, SumSame, SumType
<1>3. SumFunctionOnSet(f, A) = SumFunctionOnSet(f, R) + (IF x \in A THEN f[x] ELSE 0)
  <2>1. CASE x \in A
    <3>1. SumFunctionOnSet(f, A) = f[x] + SumFunctionOnSet(f, R)
      BY <2>1, SumRemove
    <3> QED BY <1>2, <2>1, <3>1
  <2>2. CASE x \notin A
    <3>1. R = A
      BY <2>2
    <3>2. SumFunctionOnSet(f, R) = SumFunctionOnSet(f, A)
      BY <3>1
    <3> QED BY <1>2, <2>2, <3>2
  <2> QED BY <2>1, <2>2
<1>4. SumFunctionOnSet(g, B) = SumFunctionOnSet(g, R) + (IF x \in B THEN g[x] ELSE 0)
  <2>1. CASE x \in B
    <3>1. SumFunctionOnSet(g, B) = g[x] + SumFunctionOnSet(g, B \ {x})
      BY <1>1, <2>1, SumRemove
    <3>2. B \ {x} = R
      OBVIOUS
    <3>3. SumFunctionOnSet(g, B \ {x}) = SumFunctionOnSet(g, R)
      BY <3>2
    <3> QED BY <1>2, <2>1, <3>1, <3>3
  <2>2. CASE x \notin B
    <3>1. R = B
      BY <2>2
    <3>2. SumFunctionOnSet(g, R) = SumFunctionOnSet(g, B)
      BY <3>1
    <3> QED BY <1>2, <2>2, <3>2
  <2> QED BY <2>1, <2>2
<1> QED BY <1>2, <1>3, <1>4

-----------------------------------------------------------------------------
(* Booking                                                                 *)

\* Records as they are booked: none counts more than its net.
Sound == {b \in Booked : b.risk <= b.net}

Books == {[rows |-> f, totals |-> SumsOf(f)] : f \in [Keys -> Sound \cup {NoTrade}]}

\* An impact never counts more than its net.
LEMMA ImpactSound == ASSUME NEW i \in ImpactIn PROVE Impact(i) \in Sound
<1> DEFINE known == i.v2 /\ i.confirmed /\ i.gross - i.fees = i.net
<1>1. i.net \in Int /\ known \in BOOLEAN
  BY DEF ImpactIn
<1>2. Impact(i) = [known |-> known, risk |-> IF known THEN i.net ELSE Least(i.net, 0),
                   net |-> IF known THEN i.net ELSE 0]
  BY DEF Impact
<1> HIDE DEF known
<1>3. CASE known
  BY <1>1, <1>2, <1>3 DEF Sound, Booked
<1>4. CASE ~known
  <2>1. Least(i.net, 0) \in Int /\ Least(i.net, 0) <= 0
    BY <1>1 DEF Least
  <2> QED BY <1>1, <1>2, <1>4, <2>1 DEF Sound, Booked
<1> QED BY <1>3, <1>4

\* There are finitely many keys, so that sums over records exist.
LEMMA KeysFinite == IsFiniteSet(Keys)
<1>1. IsFiniteSet({r.key : r \in Rows})
  <2> DEFINE f == [r \in Rows |-> r.key]
  <2>1. f \in Surjection(Rows, {r.key : r \in Rows})
    BY DEF Surjection
  <2> HIDE DEF f
  <2> QED BY <2>1, RealizedAssumption, FS_Surjection
<1> QED BY <1>1, RealizedAssumption, FS_Union DEF Keys

\* Booking a record under a key keeps the totals the sums of the records.
LEMMA BookKeeps ==
    ASSUME NEW b \in Books, NEW key \in Keys, NEW i \in Sound
    PROVE  Book(b, key, i) \in Books /\ Book(b, key, i).rows = [b.rows EXCEPT ![key] = i]
<1> DEFINE old == b.rows
           new == [b.rows EXCEPT ![key] = i]
           A == RecordsIn(old)
           B == RecordsIn(new)
<1>1. /\ old \in [Keys -> Sound \cup {NoTrade}] /\ new \in [Keys -> Sound \cup {NoTrade}]
      /\ NoTrade \notin Sound /\ i # NoTrade /\ new[key] = i
      /\ \A k \in Keys \ {key} : new[k] = old[k]
  BY RealizedAssumption DEF Books, Sound
<1>2. /\ A \ {key} = B \ {key} /\ key \in B /\ A \in SUBSET Keys /\ B \in SUBSET Keys
      /\ (key \in A) = (old[key] # NoTrade)
      /\ \A k \in A \ {key} : new[k] = old[k]
  BY <1>1 DEF RecordsIn
<1>3. IsFiniteSet(A)
  BY <1>2, KeysFinite, FS_Subset
<1>4. /\ \A k \in A : old[k].known \in BOOLEAN /\ old[k].risk \in Int /\ old[k].net \in Int
      /\ \A k \in B : new[k].known \in BOOLEAN /\ new[k].risk \in Int /\ new[k].net \in Int
  BY <1>1 DEF RecordsIn, Sound, Booked
<1> DEFINE C == IF old[key] = NoTrade THEN b.totals ELSE Adjust(b.totals, old[key], -1)
<1>5. Book(b, key, i) = [rows |-> new, totals |-> Adjust(C, i, 1)]
  BY DEF Book
<1>6. b.totals = SumsOf(old)
  BY DEF Books
<1>7. SumsOf(old) = [trades |-> SumsOf(old).trades, incomplete |-> SumsOf(old).incomplete,
                     wins |-> SumsOf(old).wins, risk |-> SumsOf(old).risk, net |-> SumsOf(old).net]
  BY DEF SumsOf
<1> HIDE DEF old, new, A, B
<1>8. /\ SumsOf(old).trades = Cardinality(A) /\ SumsOf(new).trades = Cardinality(B)
      /\ SumsOf(old).incomplete = Cardinality({k \in A : ~old[k].known})
      /\ SumsOf(new).incomplete = Cardinality({k \in B : ~new[k].known})
      /\ SumsOf(old).wins = Cardinality({k \in A : old[k].known /\ old[k].net > 0})
      /\ SumsOf(new).wins = Cardinality({k \in B : new[k].known /\ new[k].net > 0})
      /\ SumsOf(old).risk = SumFunctionOnSet([k \in A |-> old[k].risk], A)
      /\ SumsOf(new).risk = SumFunctionOnSet([k \in B |-> new[k].risk], B)
      /\ SumsOf(old).net = SumFunctionOnSet([k \in A |-> old[k].net], A)
      /\ SumsOf(new).net = SumFunctionOnSet([k \in B |-> new[k].net], B)
  BY DEF SumsOf, A, B
<1>9. /\ SumsOf(old).trades \in Int
      /\ SumsOf(new).trades = SumsOf(old).trades + 1 - (IF key \in A THEN 1 ELSE 0)
  BY <1>2, <1>3, <1>8, CountChange
<1>10. /\ SumsOf(old).incomplete \in Int
       /\ SumsOf(new).incomplete = SumsOf(old).incomplete + (IF i.known THEN 0 ELSE 1)
                                    - (IF key \in A /\ ~old[key].known THEN 1 ELSE 0)
  <2> DEFINE P == {k \in A : ~old[k].known}
             Q == {k \in B : ~new[k].known}
  <2>1. P \in SUBSET A /\ P \ {key} = Q \ {key}
    BY <1>1, <1>2, Zenon
  <2>2. /\ (IF key \in Q THEN 1 ELSE 0) = (IF i.known THEN 0 ELSE 1)
        /\ (IF key \in P THEN 1 ELSE 0) = (IF key \in A /\ ~old[key].known THEN 1 ELSE 0)
    BY <1>1, <1>2
  <2>3. SumsOf(old).incomplete = Cardinality(P) /\ SumsOf(new).incomplete = Cardinality(Q)
    BY <1>8
  <2> HIDE DEF P, Q
  <2>4. IsFiniteSet(P)
    BY <1>3, <2>1, FS_Subset
  <2>5. /\ Cardinality(P) \in Nat
        /\ Cardinality(Q) = Cardinality(P) + (IF key \in Q THEN 1 ELSE 0) - (IF key \in P THEN 1 ELSE 0)
    BY <2>1, <2>4, CountChange
  <2> QED BY <2>2, <2>3, <2>5
<1>11. /\ SumsOf(old).wins \in Int
       /\ SumsOf(new).wins = SumsOf(old).wins + (IF i.known /\ i.net > 0 THEN 1 ELSE 0)
                                    - (IF key \in A /\ old[key].known /\ old[key].net > 0 THEN 1 ELSE 0)
  <2> DEFINE P == {k \in A : old[k].known /\ old[k].net > 0}
             Q == {k \in B : new[k].known /\ new[k].net > 0}
  <2>1. P \in SUBSET A /\ P \ {key} = Q \ {key}
    BY <1>1, <1>2, Zenon
  <2>2. /\ (IF key \in Q THEN 1 ELSE 0) = (IF i.known /\ i.net > 0 THEN 1 ELSE 0)
        /\ (IF key \in P THEN 1 ELSE 0) = (IF key \in A /\ old[key].known /\ old[key].net > 0 THEN 1 ELSE 0)
    BY <1>1, <1>2
  <2>3. SumsOf(old).wins = Cardinality(P) /\ SumsOf(new).wins = Cardinality(Q)
    BY <1>8
  <2> HIDE DEF P, Q
  <2>4. IsFiniteSet(P)
    BY <1>3, <2>1, FS_Subset
  <2>5. /\ Cardinality(P) \in Nat
        /\ Cardinality(Q) = Cardinality(P) + (IF key \in Q THEN 1 ELSE 0) - (IF key \in P THEN 1 ELSE 0)
    BY <2>1, <2>4, CountChange
  <2> QED BY <2>2, <2>3, <2>5
<1>12. /\ SumsOf(old).risk \in Int
       /\ SumsOf(new).risk = SumsOf(old).risk + i.risk - (IF key \in A THEN old[key].risk ELSE 0)
  <2> DEFINE f == [k \in A |-> old[k].risk]
             g == [k \in B |-> new[k].risk]
  <2>1. /\ \A k \in A : f[k] \in Int
        /\ \A k \in B : g[k] \in Int
        /\ \A k \in A \ {key} : g[k] = f[k]
        /\ g[key] = i.risk /\ (key \in A => f[key] = old[key].risk)
    BY <1>1, <1>2, <1>4
  <2>2. SumsOf(old).risk = SumFunctionOnSet(f, A) /\ SumsOf(new).risk = SumFunctionOnSet(g, B)
    BY <1>8
  <2>3. i.risk \in Int /\ (key \in A => old[key].risk \in Int)
    BY <1>1, <1>2, <1>4
  <2> HIDE DEF f, g
  <2>4. /\ SumFunctionOnSet(f, A) \in Int
        /\ SumFunctionOnSet(g, B) =
             SumFunctionOnSet(f, A) + (IF key \in B THEN g[key] ELSE 0) - (IF key \in A THEN f[key] ELSE 0)
    BY <1>2, <1>3, <2>1, SumTold
  <2> QED BY <1>2, <2>1, <2>2, <2>3, <2>4
<1>13. /\ SumsOf(old).net \in Int
       /\ SumsOf(new).net = SumsOf(old).net + i.net - (IF key \in A THEN old[key].net ELSE 0)
  <2> DEFINE f == [k \in A |-> old[k].net]
             g == [k \in B |-> new[k].net]
  <2>1. /\ \A k \in A : f[k] \in Int
        /\ \A k \in B : g[k] \in Int
        /\ \A k \in A \ {key} : g[k] = f[k]
        /\ g[key] = i.net /\ (key \in A => f[key] = old[key].net)
    BY <1>1, <1>2, <1>4
  <2>2. SumsOf(old).net = SumFunctionOnSet(f, A) /\ SumsOf(new).net = SumFunctionOnSet(g, B)
    BY <1>8
  <2>3. i.net \in Int /\ (key \in A => old[key].net \in Int)
    BY <1>1, <1>2, <1>4
  <2> HIDE DEF f, g
  <2>4. /\ SumFunctionOnSet(f, A) \in Int
        /\ SumFunctionOnSet(g, B) =
             SumFunctionOnSet(f, A) + (IF key \in B THEN g[key] ELSE 0) - (IF key \in A THEN f[key] ELSE 0)
    BY <1>2, <1>3, <2>1, SumTold
  <2> QED BY <1>2, <2>1, <2>2, <2>3, <2>4
<1> DEFINE t == SumsOf(old)
           o == old[key]
           m == SumsOf(new)
<1>14. /\ t = [trades |-> t.trades, incomplete |-> t.incomplete, wins |-> t.wins, risk |-> t.risk, net |-> t.net]
       /\ m = [trades |-> m.trades, incomplete |-> m.incomplete, wins |-> m.wins, risk |-> m.risk, net |-> m.net]
  BY DEF SumsOf
<1>15. key \in A => o.risk \in Int /\ o.net \in Int
  BY <1>4
<1>16. /\ (key \in A) <=> (o # NoTrade)
       /\ i.risk \in Int /\ i.net \in Int
       /\ b.totals = t
  BY <1>1, <1>2, <1>6 DEF Sound, Booked
<1> HIDE DEF t, m, o
<1>17. /\ C.trades = t.trades - (IF key \in A THEN 1 ELSE 0)
       /\ C.incomplete = t.incomplete - (IF key \in A /\ ~o.known THEN 1 ELSE 0)
       /\ C.wins = t.wins - (IF key \in A /\ o.known /\ o.net > 0 THEN 1 ELSE 0)
       /\ C.risk = t.risk - (IF key \in A THEN o.risk ELSE 0)
       /\ C.net = t.net - (IF key \in A THEN o.net ELSE 0)
       /\ t.trades \in Int /\ t.incomplete \in Int /\ t.wins \in Int /\ t.risk \in Int /\ t.net \in Int
  <2>0. /\ t.trades \in Int /\ t.incomplete \in Int /\ t.wins \in Int /\ t.risk \in Int /\ t.net \in Int
    BY <1>9, <1>10, <1>11, <1>12, <1>13 DEF t
  <2>1. CASE key \notin A
    <3>1. C = t
      BY <1>16, <2>1 DEF o
    <3> HIDE DEF C
    <3> QED BY <2>0, <2>1, <3>1
  <2>2. CASE key \in A
    <3>1. C = Adjust(t, o, -1)
      BY <1>16, <2>2 DEF o
    <3> HIDE DEF C
    <3>2. /\ C.trades = t.trades + (-1)
          /\ C.incomplete = t.incomplete + (IF o.known THEN 0 ELSE -1)
          /\ C.wins = t.wins + (IF o.known /\ o.net > 0 THEN -1 ELSE 0)
          /\ C.risk = t.risk + (-1) * o.risk
          /\ C.net = t.net + (-1) * o.net
      BY <3>1 DEF Adjust
    <3>3. (-1) * o.risk = -o.risk /\ (-1) * o.net = -o.net
      BY <1>15, <2>2
    <3> QED BY <1>15, <2>0, <2>2, <3>2, <3>3
  <2> QED BY <2>1, <2>2
<1> HIDE DEF C
<1>18. Adjust(C, i, 1) = m
  <2> DEFINE z == Adjust(C, i, 1)
  <2>1. /\ z = [trades |-> z.trades, incomplete |-> z.incomplete, wins |-> z.wins, risk |-> z.risk, net |-> z.net]
        /\ z.trades = C.trades + 1
        /\ z.incomplete = C.incomplete + (IF i.known THEN 0 ELSE 1)
        /\ z.wins = C.wins + (IF i.known /\ i.net > 0 THEN 1 ELSE 0)
        /\ z.risk = C.risk + 1 * i.risk
        /\ z.net = C.net + 1 * i.net
    BY DEF Adjust
  <2> HIDE DEF z
  <2>2. z.trades = m.trades
    BY <1>9, <1>17, <2>1 DEF t, m
  <2>3. z.incomplete = m.incomplete
    BY <1>10, <1>17, <2>1 DEF t, m, o
  <2>4. z.wins = m.wins
    BY <1>11, <1>17, <2>1 DEF t, m, o
  <2>5. z.risk = m.risk
    BY <1>12, <1>15, <1>16, <1>17, <2>1 DEF t, m, o
  <2>6. z.net = m.net
    BY <1>13, <1>15, <1>16, <1>17, <2>1 DEF t, m, o
  <2>7. z = m
    BY <1>14, <2>1, <2>2, <2>3, <2>4, <2>5, <2>6
  <2> QED BY <2>7 DEF z
<1>19. Book(b, key, i) = [rows |-> new, totals |-> SumsOf(new)]
  BY <1>5, <1>18 DEF m
<1>20. Book(b, key, i) \in Books
  <2>1. new \in [Keys -> Sound \cup {NoTrade}]
    BY <1>1
  <2> QED BY <1>19, <2>1 DEF Books
<1>21. Book(b, key, i).rows = new
  BY <1>19
<1> QED BY <1>20, <1>21 DEF new

\* Nothing booked adds up to nothing.
LEMMA NothingBooked == SumsOf([k \in Keys |-> NoTrade]) = NoTotals
<1> DEFINE f == [k \in Keys |-> NoTrade]
<1>1. RecordsIn(f) = {}
  BY DEF RecordsIn
<1>2. Cardinality({}) = 0 /\ IsFiniteSet({}) /\ \A g : SumFunctionOnSet(g, {}) = 0
  BY FS_EmptySet, SumPick
<1>3. {k \in RecordsIn(f) : ~f[k].known} = {} /\ {k \in RecordsIn(f) : f[k].known /\ f[k].net > 0} = {}
  BY <1>1
<1>4. /\ SumsOf(f).trades = 0 /\ SumsOf(f).incomplete = 0 /\ SumsOf(f).wins = 0
      /\ SumsOf(f).risk = 0 /\ SumsOf(f).net = 0
  <2> HIDE DEF f
  <2> QED BY <1>1, <1>2, <1>3 DEF SumsOf
<1>5. SumsOf(f) = [trades |-> SumsOf(f).trades, incomplete |-> SumsOf(f).incomplete, wins |-> SumsOf(f).wins,
                   risk |-> SumsOf(f).risk, net |-> SumsOf(f).net]
  BY DEF SumsOf
<1> HIDE DEF f
<1>6. SumsOf(f) = NoTotals
  BY <1>4, <1>5 DEF NoTotals
<1> QED BY <1>6 DEF f

-----------------------------------------------------------------------------
(* Booking many                                                            *)

\* A finite set of numbers that is not empty has a greatest.
LEMMA MaxOf ==
    ASSUME NEW s \in SUBSET Nat, IsFiniteSet(s), s # {}
    PROVE  Max(s) \in s /\ \A n \in s : n <= Max(s)
<1> DEFINE Good == {T \in SUBSET s : T = {} \/ \E m \in T : \A n \in T : n <= m}
<1>1. ASSUME NEW T \in SUBSET s, \A x \in T : T \ {x} \in Good PROVE T \in Good
  <2>1. CASE T = {}
    BY <2>1
  <2>2. CASE T # {}
    <3>1. PICK x \in T : TRUE
      BY <2>2
    <3>2. CASE T \ {x} = {}
      BY <3>1, <3>2
    <3>3. CASE T \ {x} # {}
      <4>1. PICK m \in T \ {x} : \A n \in T \ {x} : n <= m
        BY <1>1, <3>1, <3>3
      <4>2. CASE x <= m
        BY <4>1, <4>2
      <4>3. CASE ~(x <= m)
        BY <4>1, <4>3
      <4> QED BY <4>2, <4>3
    <3> QED BY <3>2, <3>3
  <2> QED BY <2>1, <2>2
<1>2. {} \in Good
  OBVIOUS
<1>3. Good = SUBSET s
  <2> HIDE DEF Good
  <2>1. Good \in SUBSET (SUBSET s)
    BY DEF Good
  <2> QED BY <1>1, <1>2, <2>1, SubsetInduction
<1>4. \E m \in s : \A n \in s : m >= n
  BY <1>3
<1>5. Max(s) \in s /\ \A n \in s : Max(s) >= n
  BY <1>4 DEF Max
<1> QED BY <1>5

\* Booking a row keeps a book and changes no record but the row's, which it sets once.
LEMMA BookRowKeeps ==
    ASSUME NEW b \in Books, NEW r \in Rows
    PROVE  /\ BookRow(b, r) \in Books
           /\ \A k \in Keys \ {r.key} : BookRow(b, r).rows[k] = b.rows[k]
           /\ IF r.old \/ b.rows[r.key] # NoTrade THEN BookRow(b, r).rows[r.key] = b.rows[r.key]
              ELSE BookRow(b, r).rows[r.key] = Impact(r.impact)
<1>1. r.key \in Keys /\ Impact(r.impact) \in Sound /\ b.rows \in [Keys -> Sound \cup {NoTrade}]
  BY RealizedAssumption, ImpactSound DEF Keys, Books
<1>2. CASE r.old \/ b.rows[r.key] # NoTrade
  BY <1>2 DEF BookRow
<1>3. CASE ~(r.old \/ b.rows[r.key] # NoTrade)
  <2>1. BookRow(b, r) = Book(b, r.key, Impact(r.impact))
    BY <1>3 DEF BookRow
  <2>2. /\ Book(b, r.key, Impact(r.impact)) \in Books
        /\ Book(b, r.key, Impact(r.impact)).rows = [b.rows EXCEPT ![r.key] = Impact(r.impact)]
    BY <1>1, BookKeeps
  <2> QED BY <1>1, <1>3, <2>1, <2>2
<1> QED BY <1>2, <1>3

LinesIn(b, cells, S) ==
    CHOOSE g : g = [s \in SUBSET S |-> IF s = {} THEN b
                                       ELSE BookRow(g[s \ {Max(s)}], cells[Max(s)].row)]

\* Booking the lines read is the value of LinesIn at all of them.
LEMMA LinesUnfold ==
    ASSUME NEW b, NEW cells, NEW from
    PROVE  BookLines(b, cells, from) = LinesIn(b, cells, Parsed(cells, from))[Parsed(cells, from)]
  BY DEF BookLines, MapThenFoldSet, LinesIn

\* The cells of a file to be read end lines of rows.
Legible(cells, S) == S \in SUBSET Nat /\ IsFiniteSet(S) /\ \A n \in S : cells[n].row \in Rows

\* LinesIn books the last line after the others.
LEMMA LinesStep ==
    ASSUME NEW b \in Books, NEW S, NEW cells, Legible(cells, S)
    PROVE  /\ LinesIn(b, cells, S)[{}] = b
           /\ \A s \in (SUBSET S) \ {{}} :
                LinesIn(b, cells, S)[s] = BookRow(LinesIn(b, cells, S)[s \ {Max(s)}], cells[Max(s)].row)
<1> DEFINE step == [s \in SUBSET S |-> [c \in Books |-> IF s = {} THEN c ELSE BookRow(c, cells[Max(s)].row)]]
           rest == [s \in SUBSET S |-> IF s = {} THEN s ELSE s \ {Max(s)}]
           Is(g) == g = [s \in SUBSET S |-> IF s = {} THEN b ELSE BookRow(g[s \ {Max(s)}], cells[Max(s)].row)]
<1>1. \A s \in (SUBSET S) \ {{}} : Max(s) \in s
  BY MaxOf, FS_Subset DEF Legible
<1>2. step \in [SUBSET S -> [Books -> Books]]
  BY <1>1, BookRowKeeps DEF Legible
<1>3. rest \in [SUBSET S -> SUBSET S] /\ \A s \in (SUBSET S) \ {{}} : rest[s] \subseteq s /\ rest[s] # s
  BY <1>1
<1>4. PICK g \in [SUBSET S -> Books] : \A s \in SUBSET S : g[s] = IF s = {} THEN b ELSE step[s][g[rest[s]]]
  <2> HIDE DEF step, rest
  <2>1. Computes(S, Books, b, step, rest)
    BY <1>2, <1>3 DEF Computes, Legible
  <2>2. \E g : g \in Values(S, Books, b, step, rest)
    BY <2>1, FoldExists
  <2> QED BY <2>2 DEF Values
<1>5. \A s \in (SUBSET S) \ {{}} : step[s][g[rest[s]]] = BookRow(g[s \ {Max(s)}], cells[Max(s)].row)
  BY <1>1
<1>6. Is(g)
  <2> HIDE DEF step, rest
  <2> QED BY <1>4, <1>5
<1>7. Is(LinesIn(b, cells, S))
  BY <1>6 DEF LinesIn
<1> QED BY <1>7

\* Booking lines keeps the totals the sums, replaces no record, books every line that is not old,
\* and writes what one of them says.
LEMMA LinesBooked ==
    ASSUME NEW b \in Books, NEW cells, NEW from,
           Legible(cells, Parsed(cells, from))
    PROVE  LET c == BookLines(b, cells, from)
           IN  /\ c \in Books
               /\ \A k \in Keys : b.rows[k] # NoTrade => c.rows[k] = b.rows[k]
               /\ \A n \in Parsed(cells, from) : cells[n].row.old \/ c.rows[cells[n].row.key] # NoTrade
               /\ \A k \in Keys : c.rows[k] = b.rows[k] \/
                      \E r \in Rows : ~r.old /\ r.key = k /\ c.rows[k] = Impact(r.impact)
<1> DEFINE S == Parsed(cells, from)
           g == LinesIn(b, cells, S)
           Told(s, c) ==
             /\ c \in Books
             /\ \A k \in Keys : b.rows[k] # NoTrade => c.rows[k] = b.rows[k]
             /\ \A n \in s : cells[n].row.old \/ c.rows[cells[n].row.key] # NoTrade
             /\ \A k \in Keys : c.rows[k] = b.rows[k] \/
                    \E r \in Rows : ~r.old /\ r.key = k /\ c.rows[k] = Impact(r.impact)
           Good == {s \in SUBSET S : Told(s, g[s])}
<1>1. /\ g[{}] = b
      /\ \A s \in (SUBSET S) \ {{}} : g[s] = BookRow(g[s \ {Max(s)}], cells[Max(s)].row)
  BY LinesStep
<1>2. \A s \in (SUBSET S) \ {{}} : Max(s) \in s
  BY MaxOf, FS_Subset DEF Legible
<1> HIDE DEF S, g
<1>3. {} \in Good
  BY <1>1
<1>4. ASSUME NEW s \in SUBSET S, \A x \in s : s \ {x} \in Good PROVE s \in Good
  <2>1. CASE s = {}
    BY <1>3, <2>1
  <2>2. CASE s # {}
    <3> DEFINE m == Max(s)
               r == cells[m].row
               d == g[s \ {m}]
    <3>1. m \in s /\ g[s] = BookRow(d, r)
      BY <1>1, <1>2, <2>2
    <3>2. r \in Rows /\ Told(s \ {m}, d)
      BY <1>4, <3>1 DEF S, Legible
    <3> HIDE DEF m, r, d, Told
    <3>3. d \in Books
      BY <3>2 DEF Told
    <3>4. /\ g[s] \in Books
          /\ \A k \in Keys \ {r.key} : g[s].rows[k] = d.rows[k]
          /\ IF r.old \/ d.rows[r.key] # NoTrade THEN g[s].rows[r.key] = d.rows[r.key]
             ELSE g[s].rows[r.key] = Impact(r.impact)
      BY <3>1, <3>2, <3>3, BookRowKeeps
    <3>5. r.key \in Keys /\ Impact(r.impact) # NoTrade
      BY <3>2, RealizedAssumption, ImpactSound DEF Keys, Sound
    <3>6. \A k \in Keys : d.rows[k] # NoTrade => g[s].rows[k] = d.rows[k]
      BY <3>4
    <3>7. \A n \in s : cells[n].row.key \in Keys
      BY RealizedAssumption DEF Keys, S, Legible
    <3>8. Told(s, g[s])
      <4>1. \A k \in Keys : b.rows[k] # NoTrade => g[s].rows[k] = b.rows[k]
        BY <3>2, <3>6 DEF Told
      <4>2. \A n \in s : cells[n].row.old \/ g[s].rows[cells[n].row.key] # NoTrade
        <5> SUFFICES ASSUME NEW n \in s PROVE cells[n].row.old \/ g[s].rows[cells[n].row.key] # NoTrade
          OBVIOUS
        <5>1. CASE n = m
          BY <3>4, <3>5, <5>1 DEF r
        <5>2. CASE n # m
          BY <3>2, <3>6, <3>7, <5>2 DEF Told
        <5> QED BY <5>1, <5>2
      <4>3. \A k \in Keys : g[s].rows[k] = b.rows[k] \/
               \E q \in Rows : ~q.old /\ q.key = k /\ g[s].rows[k] = Impact(q.impact)
        BY <3>2, <3>4, <3>5 DEF Told
      <4> QED BY <3>4, <4>1, <4>2, <4>3 DEF Told
    <3> QED BY <3>8
  <2> QED BY <2>1, <2>2
<1>5. Good = SUBSET S
  <2> HIDE DEF Good
  <2>1. Good \in SUBSET (SUBSET S) /\ IsFiniteSet(S)
    BY DEF Good, S, Legible
  <2> QED BY <1>3, <1>4, <2>1, SubsetInduction
<1>6. Told(S, g[S])
  <2> HIDE DEF Told
  <2> QED BY <1>5
<1>7. BookLines(b, cells, from) = g[S]
  BY LinesUnfold DEF g, S
<1> QED BY <1>6, <1>7 DEF S

ToldIn(b, says, S) ==
    CHOOSE g : g = [s \in SUBSET S |-> IF s = {} THEN b
                                       ELSE Rebook(g[s \ {Pick(s)}], Pick(s), Impact(says[Pick(s)]))]

Telling(says) == {t \in Trades : says[t] # NoTrade}

\* Booking a summary is the value of ToldIn at all the trades it tells of.
LEMMA ToldUnfold ==
    ASSUME NEW b, NEW says PROVE BookTold(b, says) = ToldIn(b, says, Telling(says))[Telling(says)]
  BY DEF BookTold, FoldSet, MapThenFoldSet, ToldIn, Telling, Pick

\* ToldIn books the picked trade after the others.
LEMMA ToldStep ==
    ASSUME NEW b \in Books, NEW S \in SUBSET Trades, NEW says, \A t \in S : says[t] \in ImpactIn
    PROVE  /\ ToldIn(b, says, S)[{}] = b
           /\ \A s \in (SUBSET S) \ {{}} :
                ToldIn(b, says, S)[s] = Book(ToldIn(b, says, S)[s \ {Pick(s)}], Pick(s), Impact(says[Pick(s)]))
<1> DEFINE step == [s \in SUBSET S |-> [c \in Books |-> IF s = {} THEN c ELSE Book(c, Pick(s), Impact(says[Pick(s)]))]]
           rest == [s \in SUBSET S |-> IF s = {} THEN s ELSE s \ {Pick(s)}]
           Is(g) == g = [s \in SUBSET S |-> IF s = {} THEN b
                                            ELSE Rebook(g[s \ {Pick(s)}], Pick(s), Impact(says[Pick(s)]))]
<1>0. IsFiniteSet(S)
  BY RealizedAssumption, FS_Subset
<1>1. \A s \in (SUBSET S) \ {{}} : Pick(s) \in s
  BY DEF Pick
<1>2. step \in [SUBSET S -> [Books -> Books]]
  <2> SUFFICES ASSUME NEW s \in (SUBSET S) \ {{}}, NEW c \in Books
               PROVE  Book(c, Pick(s), Impact(says[Pick(s)])) \in Books
    OBVIOUS
  <2>1. Pick(s) \in Keys /\ Impact(says[Pick(s)]) \in Sound
    BY <1>1, ImpactSound DEF Keys
  <2> QED BY <2>1, BookKeeps
<1>3. rest \in [SUBSET S -> SUBSET S] /\ \A s \in (SUBSET S) \ {{}} : rest[s] \subseteq s /\ rest[s] # s
  BY <1>1
<1>4. PICK g \in [SUBSET S -> Books] : \A s \in SUBSET S : g[s] = IF s = {} THEN b ELSE step[s][g[rest[s]]]
  <2> HIDE DEF step, rest
  <2>1. Computes(S, Books, b, step, rest)
    BY <1>0, <1>2, <1>3 DEF Computes
  <2>2. \E g : g \in Values(S, Books, b, step, rest)
    BY <2>1, FoldExists
  <2> QED BY <2>2 DEF Values
<1>5. \A s \in (SUBSET S) \ {{}} :
         step[s][g[rest[s]]] = Rebook(g[s \ {Pick(s)}], Pick(s), Impact(says[Pick(s)]))
  BY <1>1 DEF Rebook
<1>6. Is(g)
  <2> HIDE DEF step, rest
  <2> QED BY <1>4, <1>5
<1>7. Is(ToldIn(b, says, S))
  BY <1>6 DEF ToldIn
<1> QED BY <1>7 DEF Rebook

\* Booking a summary keeps the totals the sums, and puts what it says of every trade it tells of.
LEMMA ToldBooked ==
    ASSUME NEW b \in Books, NEW says, \A t \in Telling(says) : says[t] \in ImpactIn
    PROVE  LET c == BookTold(b, says)
           IN  /\ c \in Books
               /\ \A t \in Telling(says) : c.rows[t] = Impact(says[t])
               /\ \A k \in Keys \ Telling(says) : c.rows[k] = b.rows[k]
<1> DEFINE S == Telling(says)
           g == ToldIn(b, says, S)
           Told(s, c) ==
             /\ c \in Books
             /\ \A t \in s : c.rows[t] = Impact(says[t])
             /\ \A k \in Keys \ s : c.rows[k] = b.rows[k]
           Good == {s \in SUBSET S : Told(s, g[s])}
<1>1. S \in SUBSET Trades /\ S \in SUBSET Keys /\ IsFiniteSet(S)
  BY RealizedAssumption, FS_Subset DEF Telling, Keys
<1>2. /\ g[{}] = b
      /\ \A s \in (SUBSET S) \ {{}} : g[s] = Book(g[s \ {Pick(s)}], Pick(s), Impact(says[Pick(s)]))
  <2>1. \A t \in S : says[t] \in ImpactIn
    OBVIOUS
  <2> HIDE DEF S
  <2> QED BY <1>1, <2>1, ToldStep
<1>3. \A t \in S : Impact(says[t]) \in Sound
  BY ImpactSound
<1> HIDE DEF S, g
<1>4. {} \in Good
  BY <1>2
<1>5. ASSUME NEW s \in SUBSET S, \A x \in s : s \ {x} \in Good PROVE s \in Good
  <2>1. CASE s = {}
    BY <1>4, <2>1
  <2>2. CASE s # {}
    <3> DEFINE p == Pick(s)
               d == g[s \ {p}]
    <3>1. p \in s /\ g[s] = Book(d, p, Impact(says[p]))
      BY <1>2, <2>2 DEF Pick
    <3>2. Told(s \ {p}, d)
      BY <1>5, <3>1
    <3> HIDE DEF p, d
    <3>3. g[s] \in Books /\ g[s].rows = [d.rows EXCEPT ![p] = Impact(says[p])]
      BY <1>1, <1>3, <3>1, <3>2, BookKeeps
    <3>4. DOMAIN d.rows = Keys
      BY <3>2 DEF Books
    <3>5. Told(s, g[s])
      BY <1>1, <3>1, <3>2, <3>3, <3>4
    <3> QED BY <3>5
  <2> QED BY <2>1, <2>2
<1>6. Good = SUBSET S
  <2> HIDE DEF Good
  <2>1. Good \in SUBSET (SUBSET S)
    BY DEF Good
  <2> QED BY <1>1, <1>4, <1>5, <2>1, SubsetInduction
<1>7. Told(S, g[S])
  <2> HIDE DEF Told
  <2> QED BY <1>6
<1>8. BookTold(b, says) = g[S]
  BY ToldUnfold DEF g, S
<1> QED BY <1>7, <1>8 DEF S

-----------------------------------------------------------------------------
(* Reading the ledger                                                      *)

\* An element that no other exceeds is the greatest.
LEMMA MaxIs ==
    ASSUME NEW P \in SUBSET Int, NEW m \in P, \A n \in P : n <= m
    PROVE  Max(P) = m
<1>1. \A x \in P : (\A y \in P : x >= y) => x = m
  OBVIOUS
<1>2. \A y \in P : m >= y
  OBVIOUS
<1> QED BY <1>1, <1>2 DEF Max

Cells == [row : Rows, part : {"text", "newline"}]

\* A cell of the ledger is the text or the newline of a row.
LEMMA CellIs ==
    ASSUME ledger \in Seq(Cells), NEW n \in 1..Len(ledger)
    PROVE  /\ ledger[n] \in Cells
           /\ ledger[n].row \in Rows /\ ledger[n].part \in {"text", "newline"}
           /\ ledger[n] = [row |-> ledger[n].row, part |-> ledger[n].part]
<1>1. ledger[n] \in Cells
  OBVIOUS
<1> QED BY <1>1 DEF Cells

\* The two cells that end at n are the one before n and n.
LEMMA TwoCells ==
    ASSUME NEW S, NEW q \in Seq(S), NEW n \in Nat, n > 1, n <= Len(q)
    PROVE  SubSeq(q, n - 1, n) = <<q[n - 1], q[n]>>
<1>1. n - 1 \in 1..Len(q) /\ n \in 1..Len(q) /\ n - (n - 1) + 1 = 2
  OBVIOUS
<1>2. SubSeq(q, n - 1, n) = [i \in 1..2 |-> q[i + (n - 1) - 1]]
  BY <1>1
<1>3. <<q[n - 1], q[n]>> = [i \in 1..2 |-> q[i + (n - 1) - 1]]
  BY <1>1
<1> QED BY <1>2, <1>3

\* A file has finitely many line ends.
LEMMA EndsFinite ==
    ASSUME ledger \in Seq(Cells), NEW from \in Nat
    PROVE  LineEnds(ledger, from) \in SUBSET Nat /\ IsFiniteSet(LineEnds(ledger, from))
<1>1. LineEnds(ledger, from) \in SUBSET ((from + 1)..Len(ledger)) /\ Len(ledger) \in Nat
  BY DEF LineEnds
<1>2. IsFiniteSet((from + 1)..Len(ledger))
  BY <1>1, FS_Interval
<1> QED BY <1>1, <1>2, FS_Subset

\* From the end of a line every complete line parses.
LEMMA AllParse ==
    ASSUME ledger \in Seq(Cells), Lines, NEW from \in Nat, from <= Len(ledger),
           from = 0 \/ ledger[from].part = "newline"
    PROVE  /\ Parsed(ledger, from) = LineEnds(ledger, from)
           /\ Legible(ledger, Parsed(ledger, from))
<1>1. \A n \in 1..Len(ledger) : ledger[n].row \in Rows /\ ledger[n] = [row |-> ledger[n].row, part |-> ledger[n].part]
  BY CellIs
<1>2. ASSUME NEW n \in LineEnds(ledger, from)
      PROVE  SubSeq(ledger, Begin(ledger, from, n), n) = <<Text(ledger[n].row), Newline(ledger[n].row)>>
  <2> DEFINE P == {from} \cup {m \in LineEnds(ledger, from) : m < n}
  <2>1. /\ n \in Nat /\ n > from /\ n <= Len(ledger) /\ ledger[n].part = "newline" /\ n \in 1..Len(ledger)
        /\ Len(ledger) \in Nat
    BY DEF LineEnds
  <2>2. n > 1 /\ ledger[n - 1] = Text(ledger[n].row)
    BY <2>1 DEF Lines
  <2>3. ledger[n - 1].part = "text" /\ n - 1 # from /\ n - 1 \in 1..Len(ledger)
    BY <2>1, <2>2 DEF Text
  <2>4. n - 2 >= from
    BY <2>1, <2>3
  <2>5. n - 2 \in P
    <3>1. CASE n - 2 = from
      BY <3>1
    <3>2. CASE n - 2 # from
      <4>1. n - 2 \in 1..Len(ledger) /\ n - 2 \in (from + 1)..Len(ledger) /\ (n - 2) + 1 = n - 1
        BY <2>1, <2>4, <3>2
      <4>2. ledger[n - 2].part \in {"text", "newline"}
        BY <4>1, CellIs
      <4>3. ledger[n - 2].part # "text"
        <5>1. ledger[n - 2].part = "text" => n - 2 = Len(ledger) \/ ledger[(n - 2) + 1] = Newline(ledger[n - 2].row)
          BY <4>1 DEF Lines
        <5>2. Newline(ledger[n - 2].row).part = "newline"
          BY DEF Newline
        <5>3. n - 2 # Len(ledger) /\ ledger[n - 1] # Newline(ledger[n - 2].row)
          BY <2>1, <2>3, <5>2
        <5> QED BY <4>1, <5>1, <5>3
      <4> QED BY <4>1, <4>2, <4>3, <2>1 DEF LineEnds
    <3> QED BY <3>1, <3>2
  <2>6. \A m \in P : m <= n - 2
    BY <2>1, <2>3, <2>4 DEF LineEnds
  <2>7. P \in SUBSET Int
    BY EndsFinite
  <2>8. Max(P) = n - 2
    <3> HIDE DEF P
    <3> QED BY <2>5, <2>6, <2>7, MaxIs
  <2>9. Begin(ledger, from, n) = n - 1
    BY <2>1, <2>8 DEF Begin
  <2>10. SubSeq(ledger, n - 1, n) = <<ledger[n - 1], ledger[n]>>
    BY <2>1, <2>2, TwoCells
  <2>11. ledger[n] = Newline(ledger[n].row)
    BY <1>1, <2>1 DEF Newline
  <2> QED BY <2>2, <2>9, <2>10, <2>11
<1>3. Parsed(ledger, from) = LineEnds(ledger, from)
  BY <1>2 DEF Parsed
<1>4. \A n \in LineEnds(ledger, from) : ledger[n].row \in Rows
  <2> SUFFICES ASSUME NEW n \in LineEnds(ledger, from) PROVE ledger[n].row \in Rows
    OBVIOUS
  <2>1. n \in 1..Len(ledger)
    BY DEF LineEnds
  <2> QED BY <1>1, <2>1
<1> QED BY <1>3, <1>4, EndsFinite DEF Legible

-----------------------------------------------------------------------------
(* The invariant                                                           *)

\* In the invariant, the records and totals are a book.
LEMMA BookNow ==
    ASSUME TradesTypeOK, Cautious, TotalsAreSums
    PROVE  [rows |-> rows, totals |-> totals] \in Books
<1>1. rows \in [Keys -> Sound \cup {NoTrade}]
  BY DEF TradesTypeOK, Cautious, Records, RecordsIn, Sound
<1> QED BY <1>1 DEF Books, TotalsAreSums

\* Records and totals set to a book keep the parts of the invariant that are about them alone.
LEMMA BookThen ==
    ASSUME NEW c \in Books, rows' = c.rows, totals' = c.totals
    PROVE  rows' \in [Keys -> Booked \cup {NoTrade}] /\ Cautious' /\ TotalsAreSums'
<1>1. c.rows \in [Keys -> Sound \cup {NoTrade}] /\ c.totals = SumsOf(c.rows)
  BY DEF Books
<1>2. rows' \in [Keys -> Booked \cup {NoTrade}] /\ Cautious'
  BY <1>1 DEF Sound, Cautious, Records, RecordsIn
<1> QED BY <1>1, <1>2 DEF TotalsAreSums

\* A tracker that primes its offset at the end of the old ledger starts in the invariant.
LEMMA TradesInitInv == TradesInit => TradesInv
<1> SUFFICES ASSUME TradesInit PROVE TradesInv
  OBVIOUS
<1> USE DEF TradesInit
<1>1. ledger \in Seq(Cells)
  <2>1. CASE ledger = <<>>
    BY <2>1
  <2>2. ASSUME NEW r \in Rows, ledger = <<Text(r), Newline(r)>> PROVE ledger \in Seq(Cells)
    <3>1. Text(r) \in Cells /\ Newline(r) \in Cells
      BY DEF Cells, Text, Newline
    <3> QED BY <2>2, <3>1
  <2> QED BY <2>1, <2>2
<1>2. TradesTypeOK
  BY <1>1 DEF TradesTypeOK, Cells
<1>3. Records = {}
  BY DEF Records, RecordsIn
<1>4. Lines
  BY DEF Lines, Text, Newline
<1>5. Tailed
  BY <1>1 DEF Tailed, Text, Newline
<1>6. TotalsAreSums
  BY NothingBooked DEF TotalsAreSums
<1> QED BY <1>2, <1>3, <1>4, <1>5, <1>6
     DEF TradesInv, Owed, Cautious, JournalDated, NoRowMissed, NoChangeMissed

\* What a step that books nothing and leaves the file alone keeps.
LEMMA StatStep == ASSUME TradesInv, Stat PROVE TradesInv'
<1> USE DEF Stat
<1>0. /\ TradesTypeOK /\ Lines /\ Tailed /\ Cautious /\ JournalDated /\ TotalsAreSums
      /\ NoRowMissed /\ NoChangeMissed /\ Len(ledger) \in Nat
  BY DEF TradesInv, TradesTypeOK
<1>1. /\ duty' \subseteq Keys
      /\ \A k \in duty' : \E n \in 1..Len(ledger) :
           ledger[n].part = "newline" /\ ~ledger[n].row.old /\ ledger[n].row.key = k
  <2>1. \A m \in LineEnds(ledger, 0) : m \in 1..Len(ledger) /\ ledger[m].part = "newline"
    BY <1>0 DEF LineEnds
  <2>2. \A m \in LineEnds(ledger, 0) : ledger[m].row.key \in Keys
    BY <1>0, <2>1, CellIs DEF TradesTypeOK, Cells, Keys
  <2> QED BY <2>1, <2>2
<1>2. offset' \in Nat /\ offset' <= Len(ledger) /\ (offset' = offset \/ offset' = 0)
  BY <1>0 DEF StartFrom, TradesTypeOK
<1>3. TradesTypeOK'
  BY <1>0, <1>1, <1>2 DEF TradesTypeOK
<1>4. Tailed'
  BY <1>0, <1>2 DEF Tailed, Records, TradesTypeOK
<1> QED BY <1>0, <1>1, <1>3, <1>4
     DEF TradesInv, Lines, Owed, Cautious, JournalDated, TotalsAreSums, NoRowMissed, NoChangeMissed, Records

\* Reading the ledger books every line that ended beyond the offset, and moves the offset there.
LEMMA ReadStep == ASSUME TradesInv, ReadLedger PROVE TradesInv'
<1> DEFINE b == [rows |-> rows, totals |-> totals]
           c == BookLines(b, ledger, offset)
           S == LineEnds(ledger, offset)
<1>0. /\ TradesTypeOK /\ Lines /\ Tailed /\ Owed /\ Cautious /\ JournalDated /\ TotalsAreSums
      /\ NoRowMissed /\ NoChangeMissed /\ Len(ledger) \in Nat /\ ledger \in Seq(Cells)
  BY DEF TradesInv, TradesTypeOK, Cells
<1>1. /\ stage = "ledger" /\ stage' = "journal" /\ rows' = c.rows /\ totals' = c.totals
      /\ offset' = Consumed(ledger, offset) /\ stat' = journal.size
      /\ UNCHANGED <<ledger, journal, journalSeen, duty, trims>>
  BY DEF ReadLedger
<1>2. offset \in Nat /\ offset <= Len(ledger) /\ (offset = 0 \/ ledger[offset].part = "newline")
  BY <1>0, <1>1 DEF Tailed, TradesTypeOK
<1>3. Parsed(ledger, offset) = S /\ Legible(ledger, S) /\ S \in SUBSET Nat /\ IsFiniteSet(S)
  BY <1>0, <1>2, AllParse DEF Legible
<1>4. \A n \in S : n \in 1..Len(ledger) /\ n > offset /\ ledger[n].part = "newline"
  BY <1>2 DEF LineEnds
<1>5. \A n \in 1..Len(ledger) : ledger[n].part = "newline" /\ n > offset => n \in S
  BY <1>2 DEF LineEnds
<1>6. b \in Books
  BY <1>0, BookNow
<1>7. /\ c \in Books
      /\ \A k \in Keys : rows[k] # NoTrade => c.rows[k] = rows[k]
      /\ \A n \in S : ledger[n].row.old \/ c.rows[ledger[n].row.key] # NoTrade
      /\ \A k \in Keys : c.rows[k] = rows[k] \/
            \E r \in Rows : ~r.old /\ r.key = k /\ c.rows[k] = Impact(r.impact)
  <2>1. /\ c \in Books
        /\ \A k \in Keys : b.rows[k] # NoTrade => c.rows[k] = b.rows[k]
        /\ \A n \in Parsed(ledger, offset) : ledger[n].row.old \/ c.rows[ledger[n].row.key] # NoTrade
        /\ \A k \in Keys : c.rows[k] = b.rows[k] \/
              \E r \in Rows : ~r.old /\ r.key = k /\ c.rows[k] = Impact(r.impact)
    <3> HIDE DEF b
    <3> QED BY <1>3, <1>6, LinesBooked
  <2> QED BY <1>3, <2>1
<1>8. /\ offset' \in Nat /\ offset' <= Len(ledger) /\ (offset' = offset \/ ledger[offset'].part = "newline")
      /\ \A n \in S : n <= offset'
  <2>1. CASE S = {}
    BY <1>1, <1>2, <2>1 DEF Consumed
  <2>2. CASE S # {}
    <3>1. offset' = Max(S)
      BY <1>1, <2>2 DEF Consumed
    <3>2. Max(S) \in S /\ \A n \in S : n <= Max(S)
      <4> HIDE DEF S
      <4> QED BY <1>3, <2>2, MaxOf
    <3> QED BY <1>0, <1>4, <3>1, <3>2
  <2> QED BY <2>1, <2>2
<1> HIDE DEF b, c, S
<1>9. rows' \in [Keys -> Booked \cup {NoTrade}] /\ Cautious' /\ TotalsAreSums'
  BY <1>1, <1>7, BookThen
<1>10. \A n \in 1..Len(ledger) : ledger[n].row.key \in Keys /\ ledger[n].row \in Rows
  BY <1>0, CellIs DEF Keys
<1>11. \A n \in 1..Len(ledger) :
          ledger[n].part = "newline" => ledger[n].row.old \/ ledger[n].row.key \in Records'
  <2> SUFFICES ASSUME NEW n \in 1..Len(ledger), ledger[n].part = "newline", ~ledger[n].row.old
               PROVE  rows'[ledger[n].row.key] # NoTrade
    BY <1>10 DEF Records, RecordsIn
  <2>1. CASE n > offset
    BY <1>1, <1>5, <1>7, <2>1
  <2>2. CASE ~(n > offset)
    <3>1. n \in 1..offset
      BY <1>2, <2>2
    <3>2. rows[ledger[n].row.key] # NoTrade
      BY <1>0, <1>2, <3>1 DEF Tailed, Records, RecordsIn
    <3> QED BY <1>1, <1>7, <1>10, <3>2
  <2> QED BY <2>1, <2>2
<1>12. Tailed'
  BY <1>0, <1>1, <1>2, <1>8, <1>11 DEF Tailed
<1>13. NoRowMissed'
  <2>1. \A k \in duty : k \in Records'
    BY <1>0, <1>1, <1>11 DEF Owed
  <2>2. ASSUME NEW k \in Records' \ Trades
        PROVE  \E r \in Rows : ~r.old /\ r.key = k /\ rows'[k] = Impact(r.impact)
    <3>1. k \in Keys /\ rows'[k] # NoTrade
      BY DEF Records, RecordsIn
    <3>2. CASE rows'[k] = rows[k]
      <4>1. k \in Records \ Trades
        BY <3>1, <3>2 DEF Records, RecordsIn
      <4> QED BY <1>0, <3>2, <4>1 DEF NoRowMissed
    <3>3. CASE rows'[k] # rows[k]
      BY <1>1, <1>7, <3>1, <3>3
    <3> QED BY <3>2, <3>3
  <2> QED BY <1>1, <2>1, <2>2 DEF NoRowMissed
<1>14. NoChangeMissed'
  <2>1. \A t \in Trades : rows'[t] = rows[t]
    <3> SUFFICES ASSUME NEW t \in Trades PROVE c.rows[t] = rows[t]
      BY <1>1
    <3>1. t \in Keys /\ \A r \in Rows : r.key # t
      BY RealizedAssumption DEF Keys
    <3> QED BY <1>7, <3>1
  <2> QED BY <1>0, <1>1, <2>1 DEF NoChangeMissed
<1>15. TradesTypeOK'
  BY <1>0, <1>1, <1>8, <1>9 DEF TradesTypeOK
<1>16. Lines' /\ Owed' /\ JournalDated'
  <2>1. Lines' /\ Owed'
    BY <1>0, <1>1 DEF Lines, Owed
  <2>2. journal.size \in Nat /\ journalSeen <= journal.size
    BY <1>0 DEF JournalDated, TradesTypeOK
  <2>3. JournalDated'
    BY <1>1, <2>2 DEF JournalDated
  <2> QED BY <2>1, <2>3
<1> QED BY <1>9, <1>12, <1>13, <1>14, <1>15, <1>16 DEF TradesInv

\* A summary replaces the record of every trade it tells of, and is dated by the metadata read before it.
LEMMA SummarizeStep == ASSUME TradesInv, Summarize PROVE TradesInv'
<1> DEFINE b == [rows |-> rows, totals |-> totals]
           c == BookTold(b, journal.says)
           S == Telling(journal.says)
<1>0. /\ TradesTypeOK /\ Lines /\ Tailed /\ Cautious /\ JournalDated /\ TotalsAreSums
      /\ NoRowMissed /\ NoChangeMissed
  BY DEF TradesInv
<1>1. /\ stage = "journal" /\ stage' = "idle" /\ rows' = c.rows /\ totals' = c.totals
      /\ journalSeen' = stat
      /\ UNCHANGED <<ledger, journal, offset, stat, duty, trims>>
  BY DEF Summarize, Seen
<1>2. \A t \in S : journal.says[t] \in ImpactIn
  BY <1>0, RealizedAssumption DEF TradesTypeOK, Telling
<1>3. b \in Books
  BY <1>0, BookNow
<1>4. /\ c \in Books
      /\ \A t \in S : c.rows[t] = Impact(journal.says[t])
      /\ \A k \in Keys \ S : c.rows[k] = rows[k]
  <2>1. /\ c \in Books
        /\ \A t \in S : c.rows[t] = Impact(journal.says[t])
        /\ \A k \in Keys \ S : c.rows[k] = b.rows[k]
    <3> HIDE DEF b
    <3> QED BY <1>2, <1>3, ToldBooked
  <2> QED BY <2>1
<1> HIDE DEF b, c
<1>5. rows' \in [Keys -> Booked \cup {NoTrade}] /\ Cautious' /\ TotalsAreSums'
  BY <1>1, <1>4, BookThen
<1>6. Records \subseteq Records'
  <2>1. \A t \in S : Impact(journal.says[t]) # NoTrade
    BY <1>2, RealizedAssumption, ImpactSound DEF Sound
  <2> QED BY <1>1, <1>4, <2>1 DEF Records, RecordsIn
<1>7. Tailed'
  BY <1>0, <1>1, <1>6 DEF Tailed
<1>8. NoRowMissed'
  <2> SUFFICES ASSUME NEW k \in Records' \ Trades
               PROVE  \E r \in Rows : ~r.old /\ r.key = k /\ rows'[k] = Impact(r.impact)
    BY <1>1 DEF NoRowMissed
  <2>1. k \in Keys \ S /\ rows'[k] # NoTrade
    BY DEF Telling, Records, RecordsIn
  <2>2. rows'[k] = rows[k] /\ k \in Records \ Trades
    BY <1>1, <1>4, <2>1 DEF Records, RecordsIn
  <2> QED BY <1>0, <2>2 DEF NoRowMissed
<1>9. NoChangeMissed'
  BY <1>1, <1>4 DEF NoChangeMissed, Telling
<1>10. TradesTypeOK'
  BY <1>0, <1>1, <1>5 DEF TradesTypeOK
<1>11. Lines' /\ Owed' /\ JournalDated'
  BY <1>0, <1>1 DEF Lines, Owed, JournalDated
<1> QED BY <1>5, <1>7, <1>8, <1>9, <1>10, <1>11 DEF TradesInv

\* What only the file changes leaves the records as they are.
LEMMA FileStep ==
    ASSUME TradesInv, UNCHANGED <<journal, stage, offset, rows, totals, journalSeen, stat, duty>>,
           ledger' \in Seq(Cells), trims' \in Nat
    PROVE  TradesTypeOK' /\ Cautious' /\ JournalDated' /\ TotalsAreSums' /\ NoRowMissed' /\ NoChangeMissed'
           /\ Records' = Records
  BY DEF TradesInv, TradesTypeOK, Cells, Cautious, JournalDated, TotalsAreSums, NoRowMissed, NoChangeMissed, Records

\* Appending the text or the newline of a row keeps the lines whole and the offset at a line's end.
LEMMA GrowStep ==
    ASSUME TradesInv, NEW cell \in Cells, ledger' = Append(ledger, cell), trims' = trims,
           UNCHANGED <<journal, stage, offset, rows, totals, journalSeen, stat, duty>>,
           IF cell.part = "text" THEN ledger = <<>> \/ ledger[Len(ledger)].part = "newline"
           ELSE ledger # <<>> /\ ledger[Len(ledger)] = Text(cell.row),
           cell.part = "text" /\ offset > Len(ledger) => Len(ledger) + 2 < offset
    PROVE  TradesInv'
<1>0. /\ TradesTypeOK /\ Lines /\ Tailed /\ Owed /\ ledger \in Seq(Cells) /\ Len(ledger) \in Nat
      /\ offset \in Nat
  BY DEF TradesInv, TradesTypeOK, Cells
<1>1. /\ ledger' \in Seq(Cells) /\ Len(ledger') = Len(ledger) + 1 /\ ledger' # <<>>
      /\ \A n \in 1..Len(ledger) : ledger'[n] = ledger[n]
      /\ ledger'[Len(ledger) + 1] = cell
  BY <1>0
<1>2. cell.part \in {"text", "newline"} /\ (ledger # <<>> => Len(ledger) \in 1..Len(ledger))
      /\ (ledger = <<>> => Len(ledger) = 0)
  BY <1>0 DEF Cells
<1>3. /\ TradesTypeOK' /\ Cautious' /\ JournalDated' /\ TotalsAreSums' /\ NoRowMissed' /\ NoChangeMissed'
      /\ Records' = Records
  BY <1>0, <1>1, FileStep DEF TradesTypeOK
<1>4. Lines'
  <2> SUFFICES ASSUME NEW n \in 1..Len(ledger')
               PROVE  /\ ledger'[n].part = "newline" => n > 1 /\ ledger'[n - 1] = Text(ledger'[n].row)
                      /\ ledger'[n].part = "text" => n = Len(ledger') \/ ledger'[n + 1] = Newline(ledger'[n].row)
    BY DEF Lines
  <2>1. CASE n = Len(ledger) + 1
    <3>1. CASE cell.part = "text"
      BY <1>1, <2>1, <3>1
    <3>2. CASE cell.part # "text"
      <4>1. Len(ledger) \in 1..Len(ledger) /\ ledger[Len(ledger)] = Text(cell.row)
        BY <1>2, <3>2
      <4>2. n > 1 /\ n - 1 = Len(ledger)
        BY <1>0, <2>1, <4>1
      <4> QED BY <1>1, <1>2, <2>1, <3>2, <4>1, <4>2
    <3> QED BY <3>1, <3>2
  <2>2. CASE n # Len(ledger) + 1
    <3>1. n \in 1..Len(ledger)
      BY <1>0, <1>1, <2>2
    <3>2. ledger'[n] = ledger[n] /\ (n > 1 => ledger'[n - 1] = ledger[n - 1])
      BY <1>0, <1>1, <3>1
    <3>3. ledger[n].part = "newline" => n > 1 /\ ledger[n - 1] = Text(ledger[n].row)
      BY <1>0, <3>1 DEF Lines
    <3>4. ASSUME ledger[n].part = "text" PROVE ledger'[n + 1] = Newline(ledger[n].row)
      <4>1. CASE n = Len(ledger)
        <5>1. ledger # <<>> /\ cell.part # "text"
          BY <1>0, <3>1, <3>4, <4>1
        <5>2. ledger[n] = Text(cell.row) /\ cell.part = "newline"
          BY <1>2, <4>1, <5>1
        <5>3. ledger[n].row = cell.row
          BY <5>2 DEF Text
        <5>4. cell = [row |-> cell.row, part |-> cell.part]
          BY DEF Cells
        <5> QED BY <1>1, <4>1, <5>2, <5>3, <5>4 DEF Newline
      <4>2. CASE n # Len(ledger)
        <5>1. ledger[n + 1] = Newline(ledger[n].row)
          BY <1>0, <3>1, <3>4, <4>2 DEF Lines
        <5>2. n + 1 \in 1..Len(ledger)
          BY <1>0, <3>1, <4>2
        <5> QED BY <1>1, <5>1, <5>2
      <4> QED BY <4>1, <4>2
    <3> QED BY <3>2, <3>3, <3>4
  <2> QED BY <2>1, <2>2
<1>5. Tailed'
  <2>1. CASE offset <= Len(ledger)
    <3>1. offset <= Len(ledger') /\ \A n \in 1..offset : ledger'[n] = ledger[n]
      BY <1>0, <1>1, <2>1
    <3>2. offset > 0 => ledger'[offset].part = "newline"
      BY <1>0, <2>1, <3>1 DEF Tailed
    <3> QED BY <1>0, <1>1, <1>3, <2>1, <3>1, <3>2 DEF Tailed
  <2>2. CASE ~(offset <= Len(ledger))
    <3>1. trims > 0 /\ stage # "ledger" /\
          (ledger # <<>> /\ ledger[Len(ledger)].part = "text" => Len(ledger) + 1 < offset)
      BY <1>0, <2>2 DEF Tailed
    <3>2. CASE cell.part = "text"
      BY <1>0, <1>1, <2>2, <3>1, <3>2 DEF Tailed
    <3>3. CASE cell.part # "text"
      <4>1. Len(ledger) + 1 < offset
        BY <3>1, <3>3 DEF Text
      <4> QED BY <1>0, <1>1, <2>2, <3>1, <3>3, <4>1 DEF Tailed
    <3> QED BY <3>2, <3>3
  <2> QED BY <2>1, <2>2
<1>6. Owed'
  <2>1. \A n \in 1..Len(ledger) : n \in 1..Len(ledger')
    BY <1>0, <1>1
  <2> QED BY <1>0, <1>1, <2>1 DEF Owed
<1> QED BY <1>3, <1>4, <1>5, <1>6 DEF TradesInv

\* Trimming whole lines of a ledger that was read keeps the rest, and leaves the offset beyond its end.
LEMMA TrimStep == ASSUME TradesInv, NEW n \in 1..MaxCells, Trim(n) PROVE TradesInv'
<1>0. /\ TradesTypeOK /\ Lines /\ Tailed /\ Owed /\ ledger \in Seq(Cells) /\ Len(ledger) \in Nat
      /\ offset \in Nat /\ trims \in Nat /\ n \in Nat /\ n > 0
  BY RealizedAssumption DEF TradesInv, TradesTypeOK, Cells
<1>1. /\ offset = Len(ledger) /\ n <= Len(ledger) /\ ledger[n].part = "newline" /\ stage = "idle"
      /\ ledger' = SubSeq(ledger, n + 1, Len(ledger)) /\ trims' = trims + 1
      /\ UNCHANGED <<journal, stage, offset, rows, totals, journalSeen, stat, duty>>
  BY DEF Trim
<1>2. /\ ledger' \in Seq(Cells) /\ Len(ledger') = Len(ledger) - n
      /\ \A m \in 1..Len(ledger') : ledger'[m] = ledger[m + n]
  <2>1. \A m \in (n + 1)..Len(ledger) : ledger[m] \in Cells
    BY <1>0
  <2>2. /\ SubSeq(ledger, n + 1, Len(ledger)) \in Seq(Cells)
        /\ Len(SubSeq(ledger, n + 1, Len(ledger))) =
             IF n + 1 <= Len(ledger) THEN Len(ledger) - (n + 1) + 1 ELSE 0
        /\ \A m \in 1..(Len(ledger) - (n + 1) + 1) :
             SubSeq(ledger, n + 1, Len(ledger))[m] = ledger[(n + 1) + m - 1]
    BY <1>0, <2>1
  <2>3. Len(ledger') = Len(ledger) - n /\ Len(ledger) - (n + 1) + 1 = Len(ledger) - n
    BY <1>0, <1>1, <2>2
  <2>4. \A m \in 1..Len(ledger') : (n + 1) + m - 1 = m + n
    BY <1>0
  <2> QED BY <1>1, <2>2, <2>3, <2>4
<1>3. /\ TradesTypeOK' /\ Cautious' /\ JournalDated' /\ TotalsAreSums' /\ NoRowMissed' /\ NoChangeMissed'
      /\ Records' = Records
  BY <1>0, <1>1, <1>2, FileStep
<1>4. Lines'
  <2> SUFFICES ASSUME NEW m \in 1..Len(ledger')
               PROVE  /\ ledger'[m].part = "newline" => m > 1 /\ ledger'[m - 1] = Text(ledger'[m].row)
                      /\ ledger'[m].part = "text" => m = Len(ledger') \/ ledger'[m + 1] = Newline(ledger'[m].row)
    BY DEF Lines
  <2>1. m + n \in 1..Len(ledger) /\ ledger'[m] = ledger[m + n] /\ (m + n) + 1 = (m + 1) + n
        /\ (m + n) - 1 = (m - 1) + n
    BY <1>0, <1>2
  <2>2. ASSUME ledger[m + n].part = "newline" PROVE m > 1 /\ ledger'[m - 1] = Text(ledger'[m].row)
    <3>1. ledger[(m + n) - 1] = Text(ledger[m + n].row)
      BY <1>0, <2>1, <2>2 DEF Lines
    <3>2. ledger[(m - 1) + n].part = "text"
      BY <2>1, <3>1 DEF Text
    <3>3. m # 1
      <4> SUFFICES ASSUME m = 1 PROVE FALSE
        OBVIOUS
      <4>1. (m - 1) + n = n
        BY <1>0
      <4> QED BY <1>1, <3>2, <4>1
    <3>4. m > 1 /\ m - 1 \in 1..Len(ledger')
      BY <1>0, <1>2, <3>3
    <3>5. ledger'[m - 1] = ledger[(m - 1) + n]
      BY <1>2, <3>4
    <3> QED BY <2>1, <3>1, <3>4, <3>5
  <2>3. ASSUME ledger[m + n].part = "text", m # Len(ledger') PROVE ledger'[m + 1] = Newline(ledger'[m].row)
    <3>0. /\ Len(ledger) \in Nat /\ n \in Nat /\ m \in Nat /\ m > 0 /\ m <= Len(ledger')
          /\ Len(ledger') = Len(ledger) - n
      BY <1>0, <1>2
    <3>1. m + n # Len(ledger) /\ m + 1 \in 1..Len(ledger')
      BY <2>3, <3>0
    <3>2. ledger[(m + n) + 1] = Newline(ledger[m + n].row)
      BY <1>0, <2>1, <2>3, <3>1 DEF Lines
    <3>3. ledger'[m + 1] = ledger[(m + 1) + n]
      BY <1>2, <3>1
    <3> QED BY <2>1, <3>2, <3>3
  <2> QED BY <2>1, <2>2, <2>3
<1>5. Tailed'
  <2>1. offset' > Len(ledger') /\ trims' > 0 /\ stage' # "ledger"
    BY <1>0, <1>1, <1>2
  <2>2. ledger' # <<>> => ledger'[Len(ledger')].part = "newline"
    <3> SUFFICES ASSUME ledger' # <<>> PROVE ledger'[Len(ledger')].part = "newline"
      OBVIOUS
    <3>1. Len(ledger') \in 1..Len(ledger') /\ Len(ledger') + n = Len(ledger)
      BY <1>0, <1>2
    <3>2. ledger'[Len(ledger')] = ledger[Len(ledger)]
      BY <1>2, <3>1
    <3>3. ledger[offset].part = "newline"
      BY <1>0, <1>1 DEF Tailed
    <3> QED BY <1>1, <3>2, <3>3
  <2>3. offset' \in Nat /\ Len(ledger') \in Nat /\ ~(offset' <= Len(ledger'))
    BY <1>0, <1>1, <1>2
  <2>4. ledger' # <<>> => ledger'[Len(ledger')].part # "text"
    BY <2>2
  <2> QED BY <2>1, <2>3, <2>4 DEF Tailed
<1>6. Owed'
  BY <1>1 DEF Owed
<1> QED BY <1>3, <1>4, <1>5, <1>6 DEF TradesInv

\* Every step keeps the invariant.
LEMMA TradesStep == TradesInv /\ [TradesNext]_tradeVars => TradesInv'
<1> SUFFICES ASSUME TradesInv, [TradesNext]_tradeVars PROVE TradesInv'
  OBVIOUS
<1>0. ledger \in Seq(Cells) /\ Len(ledger) \in Nat /\ trims \in Nat /\ offset \in Nat
  BY DEF TradesInv, TradesTypeOK, Cells
<1>1. CASE Stat
  BY <1>1, StatStep
<1>2. CASE ReadLedger
  BY <1>2, ReadStep
<1>3. CASE Summarize
  BY <1>3, SummarizeStep
<1>4. CASE SkipSummary
  BY <1>4 DEF SkipSummary, TradesInv, TradesTypeOK, Lines, Tailed, Owed, Cautious, JournalDated,
     TotalsAreSums, NoRowMissed, NoChangeMissed, Records
<1>5. ASSUME NEW r \in Rows, AppendText(r) PROVE TradesInv'
  <2>1. Text(r) \in Cells /\ Text(r).part = "text"
    BY DEF Text, Cells
  <2>2. /\ ledger' = Append(ledger, Text(r))
        /\ trims' = trims /\ UNCHANGED <<journal, stage, offset, rows, totals, journalSeen, stat, duty>>
        /\ ledger = <<>> \/ ledger[Len(ledger)].part = "newline"
        /\ trims > 0 => Len(ledger) + 2 < offset \/ Len(ledger) >= offset
    BY <1>5 DEF AppendText
  <2>3. offset > Len(ledger) => Len(ledger) + 2 < offset
    BY <1>0, <2>2 DEF TradesInv, Tailed
  <2> QED BY <2>1, <2>2, <2>3, GrowStep
<1>6. CASE AppendNewline
  <2> DEFINE cell == Newline(ledger[Len(ledger)].row)
  <2>1. /\ ledger # <<>> /\ ledger[Len(ledger)].part = "text" /\ ledger' = Append(ledger, cell)
        /\ trims' = trims /\ UNCHANGED <<journal, stage, offset, rows, totals, journalSeen, stat, duty>>
    BY <1>6 DEF AppendNewline
  <2>2. Len(ledger) \in 1..Len(ledger)
    BY <1>0, <2>1
  <2>3. ledger[Len(ledger)].row \in Rows /\ ledger[Len(ledger)] = Text(ledger[Len(ledger)].row)
    BY <1>0, <2>1, <2>2, CellIs DEF Text
  <2>4. cell \in Cells /\ cell.part # "text" /\ ledger[Len(ledger)] = Text(cell.row)
    BY <2>3 DEF Newline, Cells
  <2> HIDE DEF cell
  <2> QED BY <2>1, <2>4, GrowStep
<1>7. ASSUME NEW n \in 1..MaxCells, Trim(n) PROVE TradesInv'
  BY <1>7, TrimStep
<1>8. ASSUME NEW t \in Trades, NEW i \in XemmImpacts, Journal(t, i) PROVE TradesInv'
  <2>1. /\ journal' = [size |-> journal.size + 1, says |-> [journal.says EXCEPT ![t] = i]]
        /\ UNCHANGED <<ledger, stage, offset, rows, totals, journalSeen, stat, duty, trims>>
    BY <1>8 DEF Journal
  <2>2. journal.size \in Nat /\ journalSeen \in Int /\ stat \in Int
    BY DEF TradesInv, TradesTypeOK
  <2>3. JournalDated' /\ NoChangeMissed'
    BY <2>1, <2>2 DEF TradesInv, JournalDated, NoChangeMissed
  <2>4. TradesTypeOK'
    BY <2>1, <2>2 DEF TradesInv, TradesTypeOK
  <2> QED BY <2>1, <2>3, <2>4
       DEF TradesInv, Lines, Tailed, Owed, Cautious, TotalsAreSums, NoRowMissed, Records
<1>9. CASE UNCHANGED tradeVars
  BY <1>9 DEF tradeVars, TradesInv, TradesTypeOK, Lines, Tailed, Owed, Cautious, JournalDated,
     TotalsAreSums, NoRowMissed, NoChangeMissed, Records
<1> QED BY <1>1, <1>2, <1>3, <1>4, <1>5, <1>6, <1>7, <1>8, <1>9 DEF TradesNext

\* The invariant of the tailed ledgers.
THEOREM TradesInvHolds == TradesSpec => []TradesInv
  BY TradesInitInv, TradesStep, PTL DEF TradesSpec

\* A sum of what counts no more than the nets is no more than the sum of the nets.
LEMMA SumsCautious == ASSUME TradesTypeOK, Cautious, TotalsAreSums PROVE Conservative
<1> DEFINE f == [k \in RecordsIn(rows) |-> rows[k].risk]
           g == [k \in RecordsIn(rows) |-> rows[k].net]
<1>1. IsFiniteSet(RecordsIn(rows))
  BY KeysFinite, FS_Subset DEF RecordsIn
<1>2. \A k \in RecordsIn(rows) : f[k] \in Int /\ g[k] \in Int /\ f[k] <= g[k]
  BY DEF TradesTypeOK, Cautious, Records, RecordsIn, Booked
<1>3. totals.risk = SumFunctionOnSet(f, RecordsIn(rows)) /\ totals.net = SumFunctionOnSet(g, RecordsIn(rows))
  BY DEF TotalsAreSums, SumsOf
<1> HIDE DEF f, g
<1> QED BY <1>1, <1>2, <1>3, SumMonotone DEF Conservative

\* The books are true in every state, for every set of rows, trades and impacts: no row or
\* change is missed or counted twice, and no total is better than what is known.
THEOREM BooksAreTrueHolds == TradesSpec => []BooksAreTrue
<1>1. TradesInv => BooksAreTrue
  BY SumsCautious DEF TradesInv, BooksAreTrue
<1> QED BY <1>1, TradesInvHolds, PTL
=============================================================================
