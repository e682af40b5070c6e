---------------------------- MODULE EquityBaseline ----------------------------
(***************************************************************************)
(* The equity drawdown stop of controller/risk.rs across restarts: the     *)
(* persisted baseline, the samples, the breaker file a drawdown leaves and *)
(* the start gate that reads it (controller/mod.rs).                       *)
(*                                                                         *)
(* Equity is an integer number of loss units.  Times are ages in ticks,    *)
(* saturating above MaxGap.                                                *)
(***************************************************************************)
EXTENDS Integers

CONSTANTS
    Equities,      \* the equities a status may report
    MaxLoss,       \* cfg.max_loss_usdc
    MaxGap,        \* cfg.baseline_max_gap_hours, in ticks; 0 keeps any baseline
    PersistEvery,  \* the hour between two refreshes of the file, in ticks
    DiskFails,     \* a write, a removal or a read of the files may fail
    None           \* no baseline, no sample

BaselineAssumption ==
    /\ Equities \subseteq Int
    /\ MaxLoss \in Nat \ {0}
    /\ MaxGap \in Nat
    /\ PersistEvery \in Nat \ {0}
    /\ DiskFails \in BOOLEAN
    /\ None \notin Equities

VARIABLES
    pc,        \* down; in the start gate; before the reset; before load; running; halting
    asked,     \* this start was given --reset-breaker-baseline
    file,      \* bot-<M>.baseline.json: its equity and the age of last_seen_ts
    breaker,   \* bot-<M>.breaker.json: none, or whose reason it records
    base,      \* EquityTracker.baseline
    last,      \* EquityTracker.last_equity
    persisted, \* age of last_persist
    active,    \* regime.active is some engine
    \* history, for the properties
    anchor,    \* the equity losses have to be counted from
    durable,   \* the anchor reached the disk
    silence,   \* ticks since a sample was last recorded, and saved if it was due
    acked      \* this start acknowledged a drawdown

tracker == <<base, last, persisted>>
history == <<anchor, durable, silence, acked>>
baselineVars == <<pc, asked, file, breaker, tracker, active, history>>

NoFile == [equity |-> None, age |-> 0]
Ages   == 0..(MaxGap + PersistEvery + 1)
Never  == MaxGap + PersistEvery + 1
Older(age) == IF age < Never THEN age + 1 ELSE age

BaselineTypeOK ==
    /\ pc \in {"down", "gate", "reset", "load", "run", "halt"}
    /\ {asked, active, durable, acked} \subseteq BOOLEAN
    /\ file \in [equity : Equities \cup {None}, age : Ages]
    /\ breaker \in {"none", "drawdown", "other"}
    /\ base \in Equities \cup {None} /\ last \in Equities \cup {None}
    /\ anchor \in Equities \cup {None}
    /\ persisted \in Ages /\ silence \in Ages

BaselineInit ==
    /\ pc = "down" /\ asked = FALSE /\ active = FALSE
    /\ file = NoFile /\ breaker = "none"
    /\ base = None /\ last = None /\ persisted = Never
    /\ anchor = None /\ durable = FALSE /\ silence = Never /\ acked = FALSE

-----------------------------------------------------------------------------
(* Starting                                                                *)

\* check_breaker: a latched breaker refuses a start without ack, and a drawdown
\* one a start that would keep the baseline that tripped it.
Passes(ack, reset) ==
    \/ breaker = "none"
    \/ ack /\ (breaker = "drawdown" => reset)

Start(ack, reset) ==
    /\ pc = "down" /\ Passes(ack, reset)
    /\ pc' = "gate" /\ asked' = reset /\ acked' = (breaker = "drawdown")
    /\ UNCHANGED <<file, breaker, tracker, active, anchor, durable, silence>>

\* The breaker file is archived: renamed, so it no longer refuses a start.
Archive ==
    /\ pc = "gate" /\ pc' = "reset" /\ breaker' = "none"
    /\ UNCHANGED <<asked, file, tracker, active, history>>

\* --reset-breaker-baseline removes the file; a failing removal ends the start.
ResetBaseline ==
    /\ pc = "reset" /\ pc' = "load"
    /\ IF asked
       THEN /\ file' = NoFile /\ anchor' = None /\ durable' = FALSE
       ELSE UNCHANGED <<file, anchor, durable>>
    /\ UNCHANGED <<asked, breaker, tracker, active, silence, acked>>

ResetFails ==
    /\ pc = "reset" /\ asked /\ DiskFails
    /\ pc' = "down"
    /\ UNCHANGED <<asked, file, breaker, tracker, active, history>>

Stale == MaxGap > 0 /\ file.age > MaxGap

\* EquityTracker::load: a stale file is removed and forgotten (the removal may
\* fail silently: the next sample with an engine overwrites it).  A file that an
\* earlier start could not read counts again.
Load ==
    /\ pc = "load" /\ pc' = "run"
    /\ last' = None /\ persisted' = Never
    /\ IF file # NoFile /\ ~Stale
       THEN /\ base' = file.equity /\ durable' = TRUE /\ UNCHANGED file
            /\ anchor' = IF anchor = None THEN file.equity ELSE anchor
       ELSE /\ base' = None
            /\ \/ file' = NoFile
               \/ DiskFails /\ file' = file
            /\ IF silence + PersistEvery > MaxGap
               THEN anchor' = None /\ durable' = FALSE
               ELSE UNCHANGED <<anchor, durable>>
    /\ UNCHANGED <<asked, breaker, active, silence, acked>>

\* A file that cannot be read or parsed is reported and ignored.
LoadFails ==
    /\ pc = "load" /\ file # NoFile /\ DiskFails
    /\ pc' = "run"
    /\ base' = None /\ last' = None /\ persisted' = Never
    /\ anchor' = None /\ durable' = FALSE
    /\ UNCHANGED <<asked, file, breaker, active, silence, acked>>

-----------------------------------------------------------------------------
(* Running                                                                 *)

\* breach(): inclusive, from the last sample and the baseline.
Breach(b, equity) == b # None /\ equity # None /\ equity - b <= -MaxLoss

\* Mutant of Rebased: a reload is followed by a new anchor.
Reanchor(equity) == IF base = None \/ last = None THEN equity ELSE base

\* The first sample with an engine active arms the baseline; a reloaded one is
\* kept however far the first sample lies from it.
Rebased(equity) == IF base = None /\ active THEN equity ELSE base

\* record(): armed at once, then refreshed at most hourly.
MustPersist(equity) ==
    /\ Rebased(equity) # None
    /\ base = None \/ persisted >= PersistEvery

Sample(equity) ==
    /\ base' = Rebased(equity) /\ last' = equity
    /\ anchor' = IF anchor = None THEN Rebased(equity) ELSE anchor
    /\ \/ /\ MustPersist(equity)
          /\ file' = [equity |-> Rebased(equity), age |-> 0]
          /\ persisted' = 0 /\ durable' = TRUE /\ silence' = 0
       \/ /\ MustPersist(equity) => DiskFails
          /\ silence' = IF MustPersist(equity) \/ Rebased(equity) = None THEN silence ELSE 0
          /\ UNCHANGED <<file, persisted, durable>>

\* One tick of the supervisor with a readable status: a sample when a status
\* carries an equity, then the test, which halts.
Record(equity) ==
    /\ pc = "run" /\ Sample(equity)
    /\ pc' = IF Breach(Rebased(equity), equity) THEN "halt" ELSE "run"
    /\ UNCHANGED <<asked, breaker, active, acked>>

SwitchEngine == pc = "run" /\ active' = ~active /\ UNCHANGED <<pc, asked, file, breaker, tracker, history>>

\* Every other halt (crash loop, realized loss, orders not clear).
OtherHalt ==
    /\ pc = "run" /\ ~Breach(base, last) /\ pc' = "halt"
    /\ UNCHANGED <<asked, file, breaker, tracker, active, history>>

Forget ==
    /\ active' = FALSE /\ base' = None /\ last' = None /\ persisted' = Never
    /\ anchor' = IF durable THEN anchor ELSE None
    /\ UNCHANGED <<asked, file, durable, silence, acked>>

\* safe_halt's breaker file carries the breaker_reason of a drawdown; the process ends.
Latch ==
    /\ pc = "halt" /\ pc' = "down"
    /\ \/ breaker' = IF Breach(base, last) THEN "drawdown" ELSE "other"
       \/ DiskFails /\ breaker' = breaker
    /\ Forget

\* A crash, a shutdown or a failing start, at any point.
Crash == pc # "down" /\ pc' = "down" /\ breaker' = breaker /\ Forget

TimePasses ==
    /\ file' = IF file = NoFile THEN file ELSE [file EXCEPT !.age = Older(@)]
    /\ persisted' = Older(persisted) /\ silence' = Older(silence)
    /\ UNCHANGED <<pc, asked, breaker, base, last, active, anchor, durable, acked>>

BaselineNext ==
    \/ \E ack, reset \in BOOLEAN : Start(ack, reset)
    \/ Archive \/ ResetBaseline \/ ResetFails \/ Load \/ LoadFails
    \/ \E equity \in Equities : Record(equity)
    \/ SwitchEngine \/ OtherHalt \/ Latch \/ Crash \/ TimePasses

BaselineSpec == BaselineInit /\ [][BaselineNext]_baselineVars

-----------------------------------------------------------------------------
(* Properties                                                              *)

\* Losses count from one equity across restarts, crashes and handovers: while
\* the stop runs, its baseline is the equity the bot was first armed at, until an
\* operator resets it or no sample was recorded for the gap less one refresh.
LossKeepsCounting == pc \in {"run", "halt"} => base = anchor

\* A loss at the limit, counted from that equity and not from the last start,
\* never passes a tick: the sample that shows it halts the supervisor.
LossHalts ==
    pc = "run" /\ anchor # None /\ last # None => last - anchor > -MaxLoss

\* A baseline that reached the disk is on it for as long as losses count from
\* it, fresh to within one refresh of the last recorded sample.
FileIsFresh ==
    anchor # None /\ durable =>
        file.equity = anchor /\ file.age <= silence + PersistEvery

\* The inductive invariant.  Losses are counted from no other equity than the one on disk
\* (or from none yet), a start finds that file, the file is as fresh as the last sample, the
\* time of the last write ends with the process that made it, and an acknowledged drawdown leaves no file to load.
Anchored == /\ durable => anchor # None /\ file.equity = anchor
            /\ pc \notin {"run", "halt"} /\ anchor # None => durable
Dated == /\ file.equity = None => file = NoFile
         /\ file # NoFile => file.age <= silence + PersistEvery
         /\ persisted < PersistEvery => file # NoFile /\ file.age <= persisted
         /\ pc \notin {"run", "halt"} => persisted = Never
Acknowledged == acked => /\ pc \in {"gate", "reset"} => asked
                         /\ pc = "load" => file = NoFile
                         /\ pc = "run" /\ last = None => base = None

IInv == BaselineTypeOK /\ LossKeepsCounting /\ LossHalts /\ Anchored /\ Dated /\ Acknowledged

\* An acknowledged drawdown is not a drawdown again: the run that passed its
\* gate does not halt on the loss of its first sample.
AcknowledgedStartsFresh ==
    [][acked /\ last = None /\ last' # None => pc' = "run"]_baselineVars

\* All of them: losses count from one equity across restarts and halt at the limit, a baseline that
\* reached the disk stays on it, and an acknowledged drawdown is not halted for again.
LossesStop == [](IInv /\ FileIsFresh) /\ AcknowledgedStartsFresh
===============================================================================
