----------------------------- MODULE XemmSession -----------------------------
(***************************************************************************)
(* A session of XEMM from start to exit (livebot/run.rs): the two files    *)
(* that refuse a start, the cumulative-loss breaker that the strategy      *)
(* checks on its tick (livebot/strategy.rs), the journal writer that also  *)
(* persists the breaker's trip (livebot/journal.rs, livebot/breaker.rs),   *)
(* and the stages of the shutdown, each of which can fail or time out.     *)
(*                                                                         *)
(* What the strategy does to its orders and hedges while it runs and       *)
(* drains is in MakerOrders and HedgeLedger: here it leaves the venues     *)
(* exposed (an order of the bot, or a net position) or not.                *)
(***************************************************************************)
EXTENDS Integers, Sequences, FiniteSets

CONSTANTS
    Equities,       \* equities a snapshot may show; 0 is a garbage read
    Limit,          \* max_cumulative_loss_usdc
    Samples,        \* BREAKER_BASELINE_SAMPLES
    Streak,         \* BREAKER_TRIP_STREAK
    MaxReads,       \* bound: snapshots a session publishes
    MaxSessions,    \* bound: sessions that start
    None

XemmSessionAssumption ==
    /\ Equities \subseteq Nat /\ Limit \in Nat
    /\ Samples \in Nat \ {0} /\ Streak \in Nat \ {0}
    /\ None \notin Equities

VARIABLES
    stage,      \* "off", "live", then the stages of the shutdown
    outcome,    \* how the last session ended
    sessions,
    \* the files
    marker, latch,
    \* the venues
    exposed,
    \* the account snapshot, and whether the breaker has counted it
    snapshot, counted, reads,
    \* the breaker of the strategy
    samples, baseline, streak, tripped,
    \* the shutdown token, and what the session has seen go wrong
    cancelled, strategyError, workersOk, verified,
    \* the journal
    writer,     \* "up", "failed", "done"
    healthy, persisted,
    lost,       \* history: a record was dropped or not written
    looks,      \* history: the last Streak snapshots the breaker looked at
    unread      \* history: a trip no operator has looked at

files == <<marker, latch>>
account == <<snapshot, counted, reads>>
breaker == <<samples, baseline, streak, tripped>>
shutdown == <<cancelled, strategyError, workersOk, verified>>
journal == <<writer, healthy, persisted, lost>>
xemmVars == <<stage, outcome, sessions, files, exposed, account, breaker, shutdown, journal, looks, unread>>

NoRead == [fresh |-> FALSE, marked |-> FALSE, equity |-> 0]

Stages == {"live", "quiesced", "drained", "stopped", "verified", "journaled"}

Running == stage # "off"

\* the process is gone: everything but the files, the venues and the history
NewProcess ==
    /\ snapshot' = NoRead /\ counted' = TRUE /\ reads' = 0
    /\ samples' = <<>> /\ baseline' = None /\ streak' = 0 /\ tripped' = FALSE
    /\ cancelled' = FALSE /\ strategyError' = FALSE /\ workersOk' = FALSE /\ verified' = FALSE
    /\ writer' = "up" /\ healthy' = TRUE /\ persisted' = FALSE /\ lost' = FALSE
    /\ looks' = <<>>

XemmInit ==
    /\ stage = "off" /\ outcome = None /\ sessions = 0
    /\ marker = FALSE /\ latch = FALSE /\ exposed \in BOOLEAN
    /\ snapshot = NoRead /\ counted = TRUE /\ reads = 0
    /\ samples = <<>> /\ baseline = None /\ streak = 0 /\ tripped = FALSE
    /\ cancelled = FALSE /\ strategyError = FALSE /\ workersOk = FALSE /\ verified = FALSE
    /\ writer = "up" /\ healthy = TRUE /\ persisted = FALSE /\ lost = FALSE
    /\ looks = <<>> /\ unread = FALSE

-----------------------------------------------------------------------------
\* The start.

Refused == latch \/ marker

\* check_startup, check_active_session, the clean start, then the marker
Start ==
    /\ stage = "off" /\ sessions < MaxSessions
    /\ ~Refused
    /\ stage' = "live" /\ outcome' = None /\ sessions' = sessions + 1 /\ marker' = TRUE
    /\ UNCHANGED <<latch, exposed, account, breaker, shutdown, journal, looks, unread>>

\* a refusal, a step of the bootstrap that fails, or a marker that is created and not written
StartFails ==
    /\ stage = "off" /\ outcome' = "err"
    /\ marker' \in {marker, marker \/ ~Refused}
    /\ UNCHANGED <<stage, sessions, latch, exposed, account, breaker, shutdown, journal, looks, unread>>

\* the operator resolves the session, resets the breaker
Resolve ==
    /\ stage = "off" /\ marker /\ marker' = FALSE /\ unread' = FALSE
    /\ UNCHANGED <<stage, outcome, sessions, latch, exposed, account, breaker, shutdown, journal, looks>>

ResetBreaker ==
    /\ stage = "off" /\ latch /\ latch' = FALSE /\ unread' = FALSE
    /\ UNCHANGED <<stage, outcome, sessions, marker, exposed, account, breaker, shutdown, journal, looks>>

-----------------------------------------------------------------------------
\* The session at work.

\* the venues and the strategy, up to the last look at them
Trade ==
    /\ stage \in {"live", "quiesced", "drained", "stopped"}
    /\ exposed' = ~exposed
    /\ UNCHANGED <<stage, outcome, sessions, files, account, breaker, shutdown, journal, looks, unread>>

\* a generation of the account snapshot is published, marked or not
Publish ==
    /\ stage = "live" /\ reads < MaxReads
    /\ \/ snapshot' = [fresh |-> TRUE, marked |-> FALSE, equity |-> 0]
       \/ \E q \in Equities : snapshot' = [fresh |-> TRUE, marked |-> TRUE, equity |-> q]
    /\ counted' = FALSE /\ reads' = reads + 1
    /\ UNCHANGED <<stage, outcome, sessions, files, exposed, breaker, shutdown, journal, looks, unread>>

\* no read succeeds until the snapshot is too old
Age ==
    /\ stage = "live" /\ snapshot.fresh /\ snapshot' = NoRead
    /\ UNCHANGED <<stage, outcome, sessions, files, exposed, counted, reads, breaker, shutdown, journal, looks, unread>>

\* a record the queue has no room for, or the writer cannot write
RecordDropped ==
    /\ Running /\ stage # "journaled" /\ healthy
    /\ healthy' = FALSE /\ lost' = TRUE /\ writer' \in {writer, IF writer = "up" THEN "failed" ELSE writer}
    /\ UNCHANGED <<stage, outcome, sessions, files, exposed, account, breaker, shutdown, persisted, looks, unread>>

-----------------------------------------------------------------------------
\* check_circuit_breaker, on the strategy's tick.

\* The middle one in order, the upper of two: at most half of the samples lie below it, and more
\* than half do not lie above it.
Median(s) ==
    CHOOSE m \in {s[i] : i \in 1 .. Len(s)} :
        /\ Cardinality({i \in 1 .. Len(s) : s[i] < m}) <= Len(s) \div 2
        /\ Cardinality({i \in 1 .. Len(s) : s[i] <= m}) > Len(s) \div 2

Recent(s) == IF Len(s) > Streak THEN Tail(s) ELSE s

Usable(s) == s.marked /\ s.equity > 0

\* a generation counts once
New == snapshot.fresh /\ ~counted

Forget == streak' = 0

Arm ==
    /\ samples' = Append(samples, snapshot.equity)
    /\ baseline' = IF Len(samples') >= Samples THEN Median(samples') ELSE baseline

Breach == baseline # None /\ baseline - snapshot.equity > Limit

CheckBreaker ==
    /\ stage = "live" /\ ~tripped
    /\ counted' = (counted \/ snapshot.fresh)
    /\ looks' = IF snapshot.fresh /\ counted THEN looks ELSE Recent(Append(looks, snapshot))
    /\ \/ /\ ~snapshot.fresh
          /\ Forget
          /\ UNCHANGED <<samples, baseline, tripped, cancelled, unread>>
       \/ /\ New /\ ~Usable(snapshot)
          /\ Forget
          /\ UNCHANGED <<samples, baseline, tripped, cancelled, unread>>
       \/ /\ New /\ Usable(snapshot) /\ baseline = None
          /\ Arm
          /\ UNCHANGED <<streak, tripped, cancelled, unread>>
       \/ /\ New /\ Usable(snapshot) /\ baseline # None /\ ~Breach
          /\ Forget
          /\ UNCHANGED <<samples, baseline, tripped, cancelled, unread>>
       \/ /\ New /\ Usable(snapshot) /\ Breach
          /\ streak' = streak + 1
          /\ tripped' = (streak' >= Streak)
          /\ cancelled' = (cancelled \/ tripped') /\ unread' = (unread \/ tripped')
          /\ UNCHANGED <<samples, baseline>>
    /\ UNCHANGED <<stage, outcome, sessions, files, exposed, snapshot, reads,
                   strategyError, workersOk, verified, journal>>

\* the writer wakes for the trip, before any record it still has
PersistTrip ==
    /\ Running /\ stage # "journaled" /\ writer = "up" /\ tripped /\ ~persisted
    /\ \/ latch' = TRUE /\ persisted' = TRUE /\ UNCHANGED <<writer, healthy>>
       \/ writer' = "failed" /\ healthy' = FALSE /\ UNCHANGED <<latch, persisted>>
    /\ UNCHANGED <<stage, outcome, sessions, marker, exposed, account, breaker, shutdown, lost, looks, unread>>

-----------------------------------------------------------------------------
\* The shutdown.

\* a stop is requested, the breaker asks for one, or the strategy ends by itself; the strategy
\* acknowledges within its time or not
QuiesceSession ==
    /\ stage = "live" /\ stage' = "quiesced" /\ cancelled' = TRUE
    /\ strategyError' \in BOOLEAN
    /\ snapshot' = NoRead /\ counted' = TRUE /\ reads' = 0 /\ streak' = 0      \* read no more
    /\ UNCHANGED <<outcome, sessions, files, exposed, samples, baseline, tripped, workersOk, verified,
                   journal, looks, unread>>

\* the strategy drains, or runs out of time with attempts or residuals open
Drain ==
    /\ stage = "quiesced" /\ stage' = "drained"
    /\ strategyError' \in {strategyError, TRUE}
    /\ UNCHANGED <<outcome, sessions, files, exposed, account, breaker, cancelled, workersOk,
                   verified, journal, looks, unread>>

StopWorkers ==
    /\ stage = "drained" /\ stage' = "stopped"
    /\ workersOk' \in BOOLEAN /\ strategyError' = (strategyError \/ ~workersOk')
    /\ UNCHANGED <<outcome, sessions, files, exposed, account, breaker, cancelled, verified,
                   journal, looks, unread>>

\* Mutant of Verify: the verdict is not taken from a read after the cancels.
VerifyLast ==
    /\ stage = "stopped" /\ stage' = "verified"
    /\ verified' \in {FALSE, workersOk}
    /\ exposed' \in {exposed, FALSE}
    /\ UNCHANGED <<outcome, sessions, files, account, breaker, cancelled, strategyError, workersOk,
                   journal, looks, unread>>

\* shutdown_verify: what is left is cancelled, then one read decides, if it succeeds and its
\* report can be written
Verify ==
    /\ stage = "stopped" /\ stage' = "verified"
    /\ exposed' \in {exposed, FALSE}
    /\ verified' \in {FALSE, workersOk /\ ~exposed'}
    /\ UNCHANGED <<outcome, sessions, files, account, breaker, cancelled, strategyError, workersOk,
                   journal, looks, unread>>

JournalOk == writer = "done"

\* the last sender is gone: the writer drains, persists the trip and flushes, or fails, or is
\* late; then the trip is tried once more
DrainJournal ==
    /\ stage = "verified" /\ stage' = "journaled"
    /\ \/ /\ writer = "up" /\ writer' = "done"
          /\ latch' = (latch \/ tripped) /\ persisted' = tripped /\ UNCHANGED lost
       \/ /\ writer' = "failed"
          /\ persisted' \in {persisted, tripped} /\ latch' = (latch \/ persisted')
          /\ lost' \in BOOLEAN /\ (lost => lost')
    /\ UNCHANGED <<outcome, sessions, marker, exposed, account, breaker, shutdown, healthy, looks, unread>>

CleanEnd == verified /\ workersOk /\ ~strategyError /\ JournalOk /\ healthy

\* the marker goes only after a clean end (or its removal fails); the first error is the answer
Exit ==
    /\ stage = "journaled" /\ stage' = "off"
    /\ \/ /\ CleanEnd /\ marker' = FALSE
          /\ outcome' = IF latch \/ tripped THEN "err" ELSE "ok"
       \/ /\ outcome' = "err" /\ UNCHANGED marker
    /\ NewProcess
    /\ UNCHANGED <<sessions, latch, exposed, unread>>

Crash ==
    /\ Running /\ stage' = "off" /\ outcome' = "err"
    /\ NewProcess
    /\ UNCHANGED <<sessions, files, exposed, unread>>

XemmNext ==
    \/ Start \/ StartFails \/ Resolve \/ ResetBreaker
    \/ Trade \/ Publish \/ Age \/ RecordDropped \/ CheckBreaker \/ PersistTrip
    \/ QuiesceSession \/ Drain \/ StopWorkers \/ Verify \/ DrainJournal \/ Exit \/ Crash

XemmSpec == XemmInit /\ [][XemmNext]_xemmVars

-----------------------------------------------------------------------------

Snapshots == [fresh : BOOLEAN, marked : BOOLEAN, equity : Equities \cup {0}]

XemmTypeOK ==
    /\ stage \in {"off"} \cup Stages /\ outcome \in {None, "ok", "err"}
    /\ marker \in BOOLEAN /\ latch \in BOOLEAN /\ exposed \in BOOLEAN /\ counted \in BOOLEAN
    /\ tripped \in BOOLEAN /\ cancelled \in BOOLEAN /\ strategyError \in BOOLEAN
    /\ workersOk \in BOOLEAN /\ verified \in BOOLEAN /\ healthy \in BOOLEAN
    /\ persisted \in BOOLEAN /\ lost \in BOOLEAN /\ unread \in BOOLEAN
    /\ writer \in {"up", "failed", "done"}
    /\ snapshot \in Snapshots /\ samples \in Seq(Equities) /\ looks \in Seq(Snapshots)
    /\ baseline \in Equities \cup {None} /\ streak \in 0 .. Streak
    /\ tripped => cancelled

\* A trip is remembered until an operator looks at it, whatever fails or dies in the meantime:
\* while no session runs, a file refuses the next start.
TripRemembered == stage = "off" /\ unread => Refused

\* A session that ends well, or only by its breaker, leaves clean venues and a whole journal;
\* and a trip never ends well.
CleanEnds ==
    [][stage = "journaled" /\ stage' = "off" =>
         /\ ~marker' => ~exposed /\ ~lost /\ ~strategyError
         /\ outcome' = "ok" => ~marker' /\ ~tripped]_xemmVars

\* The breaker trips on Streak breaches in a row: the last Streak snapshots it looked at are
\* each a generation of its own, fresh, marked, positive and a breach.
TripsOnStreak ==
    tripped => /\ Len(looks) = Streak
               /\ \A k \in 1 .. Streak : /\ looks[k].fresh /\ Usable(looks[k])
                                         /\ baseline - looks[k].equity > Limit

\* One wrong sample cannot move the baseline beyond what the other samples show.
BaselineResistsOutlier ==
    baseline # None /\ Samples >= 3 =>
        \A k \in 1 .. Samples :
            LET others == {samples[j] : j \in (1 .. Samples) \ {k}}
            IN \E lo, hi \in others : lo <= baseline /\ baseline <= hi

\* The breaker trips on what really happened: a streak, measured from a baseline no single
\* wrong sample can move.
BreakerIsSound == TripsOnStreak /\ BaselineResistsOutlier

\* Both, and how a session ends.
EndsClean == [](TripRemembered /\ BreakerIsSound) /\ CleanEnds

-----------------------------------------------------------------------------
(* The inductive invariant behind EndsClean                                *)

\* A session that runs has its marker; a trip nobody has looked at is one of this session, or a
\* file tells of it.
Remembers ==
    /\ Running => marker
    /\ unread => IF Running THEN tripped ELSE Refused
    /\ stage = "journaled" /\ writer = "done" /\ tripped => latch

\* The verdict is of venues nobody moves any more; a lost record is known of.
Verifies ==
    /\ stage \in {"verified", "journaled"} /\ verified => ~exposed
    /\ lost => ~healthy \/ writer = "failed"

\* The samples are those the baseline is made of.
Sampled ==
    IF baseline = None
    THEN Len(samples) < Samples /\ streak = 0
    ELSE Len(samples) = Samples /\ baseline = Median(samples)

Breaching(look, from) == look.fresh /\ Usable(look) /\ from - look.equity > Limit

\* The streak counts the breaches the last looks end with.
Streaks ==
    /\ Len(looks) <= Streak /\ streak <= Len(looks) /\ (~tripped => streak < Streak)
    /\ \A k \in 1 .. Len(looks) : k > Len(looks) - streak => Breaching(looks[k], baseline)

XemmInv == XemmTypeOK /\ Remembers /\ Verifies /\ Sampled /\ Streaks /\ TripsOnStreak
=============================================================================
