------------------------------- MODULE EntryGate -------------------------------
(***************************************************************************)
(* The taker's entry gate (taker/entry_gate.rs): an edge is taken only at  *)
(* or above a percentile of the edges seen within a window of time.        *)
(*                                                                         *)
(* The engine evaluates an edge against a snapshot and sends each sample   *)
(* to a worker thread, which appends it to the history file, keeps the     *)
(* ranked window and publishes the next snapshot.  The worker stores the   *)
(* window first and the snapshot after it, so the engine can run between.  *)
(* Samples are [at, edge]; the wall clock is taken not to step back.       *)
(***************************************************************************)
EXTENDS Integers, Sequences, SequencesExt, FiniteSetsExt

CONSTANTS
    Edges,       \* the gross edges of the opportunities
    Floor,       \* the required edge plus min_extra_bps
    Percent,     \* entry_percentile
    Window,      \* history_window_hours
    Interval,    \* sample_interval_ms
    MinSamples,  \* min_history_samples
    Capacity,    \* the places in the worker's queue
    Shadow,      \* EntryGateMode::Shadow: gated edges are only reported
    MaxTime,     \* bound: the clock
    MaxRecorded  \* bound: samples within a window

EntryGateAssumption ==
    /\ Edges \subseteq Nat /\ Floor \in Nat /\ Percent \in 1..100
    /\ {Window, Interval, MinSamples, Capacity} \subseteq Nat \ {0} /\ Shadow \in BOOLEAN

VARIABLES
    now,
    engine,      \* "up", "stopping", or "down": drained, timed out or dead
    history,     \* the readable rows of opportunities_<M>.jsonl
    torn,        \* its last line is only begun
    recorded,    \* history variable: the samples this run loaded or accepted
    \* the worker
    expiry,      \* the window's samples, oldest first
    lower, upper,\* its edges, counted: the ranks up to the percentile's, and above
    done,        \* the sequence of the last sample taken up
    unpublished, \* the window has changed since the snapshot
    queue,
    \* shared
    snapshot, healthy,
    \* the engine
    sequence, prunePending, lastSampleAt,
    answer       \* the evaluation just made

windowVars == <<expiry, lower, upper>>
fileVars == <<history, torn>>
workerVars == <<windowVars, done, unpublished>>
engineVars == <<sequence, prunePending, lastSampleAt>>
gateVars == <<now, engine, fileVars, recorded, workerVars, queue, snapshot, healthy, engineVars, answer>>

-----------------------------------------------------------------------------
(* RankedWindow                                                            *)

Never == -1
Empty == [e \in Edges |-> 0]
Held(part) == {e \in Edges : part[e] > 0}
Size(part) == MapThenSumSet(LAMBDA e : part[e], Edges)
Put(part, e) == [part EXCEPT ![e] = @ + 1]
Take(part, e) == [part EXCEPT ![e] = @ - 1]

\* ceil(p * N / 100)
Rank(n) == (Percent * n + 99) \div 100

Parts == [Edges -> Nat]

\* rebalance: edges move over the boundary until the lower part has the rank's size.
Moved[n \in Int, lo \in Parts, up \in Parts] ==
    IF n = 0 THEN <<lo, up>>
    ELSE IF n < 0 THEN LET e == Max(Held(lo)) IN Moved[n + 1, Take(lo, e), Put(up, e)]
    ELSE LET e == Min(Held(up)) IN Moved[n - 1, Put(lo, e), Take(up, e)]

Rebalanced(samples, lo, up) ==
    LET moved == Moved[Rank(Len(samples)) - Size(lo), lo, up]
    IN  [expiry |-> samples, lower |-> moved[1], upper |-> moved[2]]

Inserted(w, s) ==
    IF Held(w.lower) # {} /\ s.edge <= Max(Held(w.lower))
    THEN Rebalanced(w.expiry \o <<s>>, Put(w.lower, s.edge), w.upper)
    ELSE Rebalanced(w.expiry \o <<s>>, w.lower, Put(w.upper, s.edge))

\* Each expired sample is taken from the lower part if its edge is there at all.
Dropped(w, s) ==
    [w EXCEPT !.expiry = Tail(@),
              !.lower = IF @[s.edge] > 0 THEN Take(@, s.edge) ELSE @,
              !.upper = IF w.lower[s.edge] > 0 THEN @ ELSE Take(@, s.edge)]

Recent(samples, time) == SelectSeq(samples, LAMBDA s : s.at >= time - Window)

Pruned(w, time) ==
    LET old == SelectSeq(w.expiry, LAMBDA s : s.at < time - Window)
        rest == FoldLeft(Dropped, w, old)
    IN  Rebalanced(rest.expiry, rest.lower, rest.upper)

NoWindow == [expiry |-> <<>>, lower |-> Empty, upper |-> Empty]

SnapshotOf(w, seq) ==
    [sequence |-> seq, count |-> Len(w.expiry),
     percentile |-> IF Held(w.lower) = {} THEN 0 ELSE Max(Held(w.lower)),
     through |-> IF w.expiry = <<>> THEN MaxTime ELSE Head(w.expiry).at + Window]

-----------------------------------------------------------------------------
(* Starting                                                                *)

SetWindow(w) == expiry' = w.expiry /\ lower' = w.lower /\ upper' = w.upper

NoAnswer == [allow |-> FALSE, recorded |-> FALSE, edge |-> 0]

Init ==
    /\ now = 0 /\ engine = "down"
    /\ history = <<>> /\ torn = FALSE /\ recorded = <<>>
    /\ expiry = <<>> /\ lower = Empty /\ upper = Empty
    /\ done = 0 /\ unpublished = FALSE /\ queue = <<>>
    /\ snapshot = SnapshotOf(NoWindow, 0) /\ healthy = TRUE
    /\ sequence = 0 /\ prunePending = FALSE /\ lastSampleAt = Never
    /\ answer = NoAnswer

\* OpportunityGate::new: the recent rows of the file; malformed lines are skipped.
Start ==
    /\ engine = "down" /\ engine' = "up"
    /\ recorded' = Recent(history, now)
    /\ LET w == FoldLeft(Inserted, NoWindow, recorded')
       IN  SetWindow(w) /\ snapshot' = SnapshotOf(w, 0)
    /\ done' = 0 /\ unpublished' = FALSE /\ queue' = <<>> /\ healthy' = TRUE
    /\ sequence' = 0 /\ prunePending' = FALSE /\ lastSampleAt' = Never
    /\ answer' = NoAnswer
    /\ UNCHANGED <<now, fileVars>>

-----------------------------------------------------------------------------
(* The worker                                                              *)

Sample(s, seq) == [kind |-> "sample", row |-> s, sequence |-> seq]
Prune(time) == [kind |-> "prune", at |-> time]
Stop == [kind |-> "stop"]

\* A row appended after a line that was only begun makes one malformed line with it.
AppendOk(row) ==
    /\ history' = IF torn THEN history ELSE Append(history, row)
    /\ torn' = FALSE
    /\ UNCHANGED healthy

\* Nothing, a part, or all of the row is in the file; the gate closes for this run.
AppendFails(row) ==
    /\ \/ UNCHANGED history /\ torn' \in BOOLEAN
       \/ ~torn /\ history' = Append(history, row) /\ UNCHANGED torn
    /\ healthy' = FALSE

TakeUp ==
    /\ queue # <<>> /\ ~unpublished
    /\ LET command == Head(queue)
           w == [expiry |-> expiry, lower |-> lower, upper |-> upper]
       IN  CASE command.kind = "sample" ->
                  /\ \/ /\ AppendOk(command.row)
                        /\ SetWindow(Pruned(Inserted(w, command.row), command.row.at))
                     \/ AppendFails(command.row) /\ UNCHANGED windowVars
                  /\ done' = command.sequence /\ unpublished' = TRUE
                  /\ UNCHANGED engine
             [] command.kind = "prune" ->
                  /\ SetWindow(Pruned(w, command.at)) /\ unpublished' = TRUE
                  /\ UNCHANGED <<engine, fileVars, healthy, done>>
             [] command.kind = "stop" ->
                  /\ engine' = "down"
                  /\ UNCHANGED <<fileVars, healthy, workerVars>>
    /\ queue' = Tail(queue)
    /\ answer' = NoAnswer
    /\ UNCHANGED <<now, recorded, snapshot, engineVars>>

Publish ==
    /\ unpublished /\ unpublished' = FALSE
    /\ snapshot' = SnapshotOf([expiry |-> expiry, lower |-> lower, upper |-> upper], done)
    /\ answer' = NoAnswer
    /\ UNCHANGED <<now, engine, fileVars, recorded, windowVars, done, queue, healthy, engineVars>>

-----------------------------------------------------------------------------
(* evaluate                                                                *)

Expired == now > snapshot.through
Full == Len(queue) >= Capacity

\* Mutant of Current: a snapshot is used while samples are on their way into the window.
CurrentOrBehind == TRUE

Current == snapshot.sequence = sequence

\* The window has expired: one Prune is asked for, and none again until one check passes.
AskPrune ==
    IF Expired /\ ~prunePending
    THEN IF Full THEN healthy' = FALSE /\ UNCHANGED <<queue, prunePending>>
         ELSE queue' = Append(queue, Prune(now)) /\ prunePending' = TRUE /\ UNCHANGED healthy
    ELSE UNCHANGED <<queue, prunePending, healthy>>

Blocked == ~healthy \/ ~Current \/ Expired

Pending(edge) ==
    /\ engine = "up" /\ Blocked
    /\ AskPrune
    /\ answer' = NoAnswer
    /\ UNCHANGED <<now, engine, fileVars, recorded, workerVars, snapshot, sequence, lastSampleAt>>

Greater(a, b) == IF a >= b THEN a ELSE b
Threshold == Greater(Floor, snapshot.percentile)
Ready == snapshot.count >= MinSamples

Due == lastSampleAt = Never \/ now - lastSampleAt >= Interval

\* record_if_due: an edge about to be executed is always recorded.
Decide(edge, executing) ==
    LET would == Ready /\ edge >= Threshold
        allow == Ready /\ (would \/ Shadow)
        record == (allow /\ executing) \/ Due
        row == [at |-> now, edge |-> edge]
    IN  /\ engine = "up" /\ ~Blocked
        /\ record => Len(recorded) < MaxRecorded
        /\ prunePending' = FALSE
        /\ IF ~record THEN UNCHANGED <<queue, healthy, recorded, sequence, lastSampleAt>>
           ELSE IF Full THEN healthy' = FALSE /\ UNCHANGED <<queue, recorded, sequence, lastSampleAt>>
           ELSE /\ queue' = Append(queue, Sample(row, sequence + 1))
                /\ sequence' = sequence + 1 /\ lastSampleAt' = now
                /\ recorded' = Append(recorded, row)
                /\ UNCHANGED healthy
        /\ answer' = [allow |-> allow /\ healthy', recorded |-> sequence' # sequence, edge |-> edge]
        /\ UNCHANGED <<now, engine, fileVars, workerVars, snapshot>>

-----------------------------------------------------------------------------
(* Stopping, and the clock                                                 *)

\* shutdown waits for a place in the queue, and for the acknowledgement.
Shutdown ==
    /\ engine = "up" /\ ~Full
    /\ engine' = "stopping"
    /\ queue' = Append(queue, Stop) /\ answer' = NoAnswer
    /\ UNCHANGED <<now, fileVars, recorded, workerVars, snapshot, healthy, engineVars>>

\* The five seconds run out, or the process dies.
Abandon ==
    /\ engine # "down" /\ engine' = "down"
    /\ queue' = <<>> /\ unpublished' = FALSE /\ answer' = NoAnswer
    /\ UNCHANGED <<now, fileVars, recorded, windowVars, done, snapshot, healthy, engineVars>>

\* Rows that are too old for every later window are forgotten.
Tick ==
    /\ now < MaxTime /\ now' = now + 1
    /\ history' = Recent(history, now') /\ recorded' = Recent(recorded, now')
    /\ answer' = NoAnswer
    /\ UNCHANGED <<engine, torn, workerVars, queue, snapshot, healthy, engineVars>>

Worker == TakeUp \/ Publish
Evaluate == \E edge \in Edges : Pending(edge) \/ \E executing \in BOOLEAN : Decide(edge, executing)

Next == Start \/ Worker \/ Evaluate \/ Shutdown \/ Abandon \/ Tick

Spec == Init /\ [][Next]_gateVars

\* The worker's thread runs, and the scan finds edges to evaluate again and again.
GateSpec == Spec /\ WF_gateVars(Worker) /\ WF_gateVars(Evaluate)

-----------------------------------------------------------------------------
(* Properties                                                              *)

\* The nearest-rank percentile of a set of samples, by its definition: the least edge
\* that at least Percent % of them do not exceed.
Edge(samples, i) == samples[i].edge
AtMost(samples, e) == Cardinality({i \in DOMAIN samples : samples[i].edge <= e})
NearestRank(samples) ==
    Min({e \in Edges : 100 * AtMost(samples, e) >= Percent * Len(samples)})

\* The history an evaluation ought to be judged by: what was recorded before it, within
\* the window.
Judged == LET recent == Recent(recorded, now)
          IN  IF answer.recorded THEN Front(recent) ELSE recent

\* An edge is allowed only with enough recent samples, and at or above both the floor and
\* the exact percentile of all of them, whatever the worker has caught up with.
AllowedAtPercentile ==
    answer.allow /\ ~Shadow =>
        /\ Len(Judged) >= MinSamples
        /\ answer.edge >= Floor
        /\ Judged # <<>> => answer.edge >= NearestRank(Judged)

\* The edge passes the gate once it is there, "blocking during history warmup" (RUNBOOK):
\* a gate that works and is asked again and again does not stay at an expired window.
Reopens ==
    engine = "up" /\ healthy /\ Expired ~> ~Expired \/ ~healthy \/ engine # "up"
=============================================================================
