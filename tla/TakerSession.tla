---------------------------- MODULE TakerSession ----------------------------
(***************************************************************************)
(* The taker's executions and the session marker that guards them          *)
(* (taker/arb.rs, taker/pnl.rs): a two-legged execution, one retry of a    *)
(* missing hedge, the recovery of a residual, the accounting of the result *)
(* and the shutdown, with a crash between any two steps and an operator    *)
(* who may resolve a stopped session.                                      *)
(*                                                                         *)
(* One engine runs at a time (the controller's part), one market, and one  *)
(* direction: the Aster leg buys and the Lighter leg sells.  The account   *)
(* starts flat and keeps the inventory of each execution for the next; in  *)
(* the filter that reduces, legs and retry would be reduce-only as well.   *)
(* Orders are immediate-or-cancel: an order in flight is in no venue's     *)
(* list of open orders, so the checks of those lists see nothing here.     *)
(***************************************************************************)
EXTENDS Integers, Sequences, FiniteSetsExt

CONSTANTS
    Clip,           \* the quantity of a leg, in steps
    Tolerance,      \* the net residual taken as balanced (max_position_mismatch_usd)
    MinRetry,       \* the least retry that Lighter takes (lighter_min_notional)
    MaxLoss,        \* pnl.max_loss_usdc
    MaxCloses,      \* close attempts of one recovery
    LagBounded,     \* REST shows every fill before a wait for it runs out
    MaxExecutions,  \* bound: executions and recoveries explored
    MaxOrders,      \* bound: orders explored
    MaxOutside      \* bound: changes of a position from outside the bot

ASSUME TakerSessionAssumption ==
    /\ Clip \in Nat \ {0} /\ Tolerance \in Nat /\ MinRetry \in Nat /\ MaxLoss \in Nat \ {0}
    /\ MaxCloses \in Nat \ {0} /\ LagBounded \in BOOLEAN
    /\ MaxExecutions \in Nat /\ MaxOrders \in Nat /\ MaxOutside \in Nat

VARIABLES
    \* the venues
    orders,         \* every order sent: its batch, execution, venue, signed quantity, fill
    pos,            \* the positions
    shown,          \* the positions their REST interfaces show
    outside,        \* the changes of positions from outside so far
    \* the disk
    marker,         \* active_session_<market>.json
    pnl,            \* the sum of the ledger's rows
    booked,         \* the executions that have a row
    breaker,        \* circuit_breaker_<market>.json is there
    retired,        \* history: executions whose session resolve-session retired
    \* the engine
    pc,
    armed, unresolved,  \* the session's flags in memory
    cum,                \* the PnL tracker's sum
    exec,               \* executions and recoveries begun, over all runs
    batch,              \* the orders whose outcome is awaited
    known,              \* the orders this execution or recovery names in its evidence
    pre,                \* the positions before it
    expected,           \* the positions its terminal fills imply
    retried,            \* the hedge retry was made
    closes,             \* the recovery's attempts
    estimate            \* the row under way is a recovery's loss estimate

restVars == <<shown, outside>>
venueVars == <<orders, pos, restVars>>
ledgerVars == <<pnl, booked, breaker, cum>>
diskVars == <<marker, retired>>
flags == <<armed, unresolved>>
workVars == <<exec, batch, known, pre, expected, retried, closes, estimate>>
vars == <<venueVars, ledgerVars, diskVars, pc, flags, workVars>>

Venues == {"aster", "lighter"}
Net(p) == p["aster"] + p["lighter"]
Abs(n) == IF n < 0 THEN -n ELSE n
Lesser(m, n) == IF m < n THEN m ELSE n
Balanced(p) == Abs(Net(p)) <= Tolerance
Near(p, q) == \A v \in Venues : Abs(p[v] - q[v]) <= Tolerance

NoMarker == [there |-> FALSE]
NoEvidence == [there |-> FALSE]
Armed == [there |-> TRUE, evidence |-> NoEvidence]

Init ==
    /\ orders = <<>>
    /\ pos = [v \in Venues |-> 0] /\ shown = pos /\ outside = 0
    /\ marker = NoMarker /\ retired = {}
    /\ pnl = 0 /\ booked = {} /\ breaker = FALSE /\ cum = 0
    /\ pc = "down" /\ armed = FALSE /\ unresolved = FALSE
    /\ exec = 0 /\ batch = {} /\ known = {}
    /\ pre = pos /\ expected = pos
    /\ retried = FALSE /\ closes = 0 /\ estimate = FALSE

-----------------------------------------------------------------------------
(* The venues                                                              *)

Live(i) == orders[i].st = "live"

\* What the venue lets an order fill: a close is reduce-only, so no more than the position it
\* reduces.
Fillable(i) ==
    LET want == orders[i].want
        held == pos[orders[i].venue]
    IN  IF orders[i].kind # "close" THEN Abs(want)
        ELSE IF (want > 0) = (held > 0) THEN 0 ELSE Lesser(Abs(want), Abs(held))

\* A live order ends, filled, partly filled or not at all.
Fill(i) ==
    /\ Live(i)
    /\ \E part \in 0..Fillable(i) :
        LET got == IF orders[i].want < 0 THEN -part ELSE part
            v   == orders[i].venue
        IN  /\ orders' = [orders EXCEPT ![i].st = "done", ![i].got = got]
            /\ pos' = [pos EXCEPT ![v] = @ + got]
    /\ UNCHANGED <<restVars, ledgerVars, diskVars, pc, flags, workVars>>

CatchUp(v) ==
    /\ shown[v] # pos[v]
    /\ shown' = [shown EXCEPT ![v] = pos[v]]
    /\ UNCHANGED <<orders, pos, outside, ledgerVars, diskVars, pc, flags, workVars>>

\* A fill that is not the bot's ("an external fill"), at rest and shown at once.
OutsideFill(v) ==
    /\ pc \in {"down", "standby", "scan"} /\ outside < MaxOutside
    /\ shown = pos /\ \A i \in DOMAIN orders : ~Live(i)
    /\ outside' = outside + 1
    /\ \E d \in {-1, 1} : pos' = [pos EXCEPT ![v] = @ + d] /\ shown' = [shown EXCEPT ![v] = @ + d]
    /\ UNCHANGED <<orders, ledgerVars, diskVars, pc, flags, workVars>>

\* What a wait for REST may rely on once it has run out.
Fresh == LagBounded => shown = pos

-----------------------------------------------------------------------------
(* Submitting, and the evidence on disk                                    *)

NewOrder(v, kind, want, refused) ==
    [exec |-> exec', venue |-> v, kind |-> kind, want |-> want[v], got |-> 0,
     st |-> IF v \in refused THEN "refused" ELSE "live"]

\* One order per venue with a quantity, together.  A venue may refuse its own;
\* whether the others arrive is not known until their outcome is resolved.
Asked(want) == (IF want["aster"] # 0 THEN <<"aster">> ELSE <<>>)
               \o (IF want["lighter"] # 0 THEN <<"lighter">> ELSE <<>>)

Submit(kind, want) ==
    \E refused \in SUBSET {v \in Venues : want[v] # 0} :
        LET sent == Asked(want)
        IN  /\ Len(orders) + Len(sent) <= MaxOrders
            /\ orders' = orders \o [i \in 1..Len(sent) |-> NewOrder(sent[i], kind, want, refused)]
            /\ batch' = Len(orders) + 1 .. Len(orders) + Len(sent)

Filled(base) == [v \in Venues |->
    base[v] + (IF \E i \in batch : orders[i].venue = v
               THEN orders[CHOOSE i \in batch : orders[i].venue = v].got ELSE 0)]

Terminal == \A i \in batch : ~Live(i)

\* Mutant of Merged: later evidence replaces what the marker held.
Replaced(named, complete) ==
    [there |-> TRUE,
     evidence |-> [there |-> TRUE, named |-> named, complete |-> complete, pre |-> pre]]

\* record_unresolved keeps the orders and the positions of earlier evidence.
Merged(named, complete) ==
    LET old == marker.evidence
    IN  [there |-> TRUE,
         evidence |-> IF old.there
                      THEN [there |-> TRUE, named |-> old.named \cup named,
                            complete |-> old.complete /\ complete, pre |-> old.pre]
                      ELSE [there |-> TRUE, named |-> named, complete |-> complete, pre |-> pre]]

\* The flag is raised first, so it stands even if the marker cannot be written.
RecordUnresolved(named, complete) ==
    /\ unresolved' = TRUE
    /\ marker' = Merged(named, complete)

SumGot(S) == MapThenSumSet(LAMBDA i : orders[i].got, S)

RecordFails == unresolved' = TRUE /\ marker' = marker

-----------------------------------------------------------------------------
(* Starting and arming                                                     *)

LossReached(sum) == sum <= -MaxLoss

\* Mutant of Start: only the breaker file stops a start.
StartUnchecked ==
    /\ pc = "down" /\ ~breaker
    /\ pc' = "standby" /\ cum' = pnl
    /\ UNCHANGED <<venueVars, pnl, booked, breaker, diskVars, flags, workVars>>

\* The ledger is summed again, and a loss it already shows latches the breaker.
Start ==
    /\ pc = "down" /\ ~breaker
    /\ IF LossReached(pnl)
       THEN breaker' = TRUE /\ UNCHANGED <<pc, cum>>
       ELSE pc' = "standby" /\ cum' = pnl /\ UNCHANGED breaker
    /\ UNCHANGED <<venueVars, pnl, booked, diskVars, flags, workVars>>

\* The marker is created new: one already there refuses the session.
Arm ==
    /\ pc = "standby" /\ ~marker.there
    /\ marker' = Armed
    /\ \/ armed' = TRUE /\ pc' = "scan"
       \/ UNCHANGED <<armed, pc>>           \* written, and then an error
    /\ UNCHANGED <<venueVars, ledgerVars, retired, unresolved, workVars>>

-----------------------------------------------------------------------------
(* execute_opportunity                                                     *)

Leg == [aster |-> Clip, lighter |-> -Clip]

Begin(kind, want) ==
    /\ exec < MaxExecutions
    /\ exec' = exec + 1
    /\ Submit(kind, want)

Execute ==
    /\ pc = "scan" /\ armed /\ ~unresolved /\ Balanced(shown)
    /\ Begin("leg", Leg)
    /\ pre' = shown
    /\ known' = {} /\ retried' = FALSE
    /\ pc' = "sent"
    /\ UNCHANGED <<pos, restVars, ledgerVars, diskVars, flags, expected, closes, estimate>>

RecordOrders ==
    /\ pc = "sent"
    /\ known' = batch
    /\ \/ RecordUnresolved(batch, TRUE) /\ pc' = "resolving"
       \/ RecordFails /\ pc' = "draining"
    /\ UNCHANGED <<venueVars, ledgerVars, retired, armed, exec, batch, pre, expected, retried,
                   closes, estimate>>

LegsTerminal ==
    /\ pc = "resolving" /\ Terminal
    /\ expected' = Filled(pre)
    /\ pc' = "settling"
    /\ UNCHANGED <<venueVars, ledgerVars, diskVars, flags, exec, batch, known, pre, retried,
                   closes, estimate>>

\* No terminal evidence by the deadline, though there may be a fill.
LegsUnresolved ==
    /\ pc = "resolving" /\ \E i \in batch : orders[i].st # "refused"
    /\ \/ RecordUnresolved(batch, TRUE)
       \/ RecordFails
    /\ pc' = "draining"
    /\ UNCHANGED <<venueVars, ledgerVars, retired, armed, workVars>>

Settled == pc = "settling" /\ Near(shown, expected)

Hedged ==
    /\ Settled /\ Balanced(shown)
    /\ pc' = "economics"
    /\ UNCHANGED <<venueVars, ledgerVars, diskVars, flags, workVars>>

ToRecovery ==
    /\ pc' = "recover"
    /\ known' = {} /\ closes' = 0
    /\ UNCHANGED <<exec, batch, pre, expected, retried, estimate>>

SettleTimeout ==
    /\ pc = "settling" /\ Fresh
    /\ ToRecovery
    /\ UNCHANGED <<venueVars, ledgerVars, diskVars, flags>>

\* hedge_retry_plan: exactly one venue is short of its leg, and by a quantity it takes; Aster's
\* minimum is below the tolerance.
Missing == [v \in Venues |-> pre[v] + Leg[v] - shown[v]]
Short(v) == Abs(Missing[v]) > Tolerance
Planned(v) == /\ Short(v) /\ \A w \in Venues \ {v} : ~Short(w)
              /\ (v = "lighter" => Abs(Missing[v]) >= MinRetry)

Retry ==
    /\ Settled /\ ~Balanced(shown)
    /\ \E v \in Venues :
        /\ Planned(v)
        /\ exec' = exec
        /\ Submit("retry", [w \in Venues |-> IF w = v THEN Missing[v] ELSE 0])
    /\ retried' = TRUE
    /\ pc' = "retrying"
    /\ UNCHANGED <<pos, restVars, ledgerVars, diskVars, flags, known, pre, expected, closes,
                   estimate>>

NoRetry ==
    /\ Settled /\ ~Balanced(shown)
    /\ \A v \in Venues : ~Planned(v)
    /\ ToRecovery
    /\ UNCHANGED <<venueVars, ledgerVars, diskVars, flags>>

\* The execution's record cannot be queued, which ends the run as it stands.
JournalFails ==
    /\ pc \in {"settling", "verifying", "economics"}
    /\ pc' = "draining"
    /\ UNCHANGED <<venueVars, ledgerVars, diskVars, flags, workVars>>

\* A retry without terminal evidence, or whose submission itself ran out of
\* time, which leaves it without an identity.
RetryUnresolved ==
    /\ pc = "retrying" /\ \E i \in batch : orders[i].st # "refused"
    /\ known' = known \cup batch
    /\ \/ \E identified \in BOOLEAN : RecordUnresolved(known \cup batch, identified)
       \/ RecordFails
    /\ pc' = "draining"
    /\ UNCHANGED <<venueVars, ledgerVars, retired, armed, exec, batch, pre, expected, retried,
                   closes, estimate>>

RetryTerminal ==
    /\ pc = "retrying" /\ Terminal
    /\ known' = known \cup batch
    /\ pc' = "verifying"
    /\ UNCHANGED <<venueVars, ledgerVars, diskVars, flags, exec, batch, pre, expected, retried,
                   closes, estimate>>

RetryVerified ==
    /\ pc = "verifying" /\ Balanced(shown)
    /\ pc' = "economics"
    /\ UNCHANGED <<venueVars, ledgerVars, diskVars, flags, workVars>>

RetryUnverified ==
    /\ pc = "verifying" /\ Fresh
    /\ ToRecovery
    /\ UNCHANGED <<venueVars, ledgerVars, diskVars, flags>>

\* resolve_execution: the marker loses its evidence, then the flag falls.
Resolved == marker' = Armed /\ unresolved' = FALSE

\* The rewrite of the marker failed, before or after it replaced the file.
ResolveFails == unresolved' = TRUE /\ marker' \in {marker, Armed}

NoFill == \A i \in DOMAIN orders : orders[i].exec = exec => orders[i].got = 0

\* Both legs ended without a fill and nothing else was tried: nothing to book.
Skip ==
    /\ pc = "economics" /\ NoFill /\ ~retried
    /\ \/ Resolved /\ pc' = "scan"
       \/ ResolveFails /\ pc' = "draining"
    /\ UNCHANGED <<venueVars, ledgerVars, retired, armed, workVars>>

Account ==
    /\ pc = "economics" /\ ~(NoFill /\ ~retried)
    /\ estimate' = FALSE
    /\ pc' = "book"
    /\ UNCHANGED <<venueVars, ledgerVars, diskVars, flags, exec, batch, known, pre, expected,
                   retried, closes>>

\* The fills' economics, the margins or the open orders cannot be read.
AccountingUnavailable ==
    /\ pc = "economics"
    /\ ToRecovery
    /\ UNCHANGED <<venueVars, ledgerVars, diskVars, flags>>

-----------------------------------------------------------------------------
(* recover_if_needed                                                       *)

\* A mismatch found between executions is flattened by the same recovery.
Flatten ==
    /\ pc = "scan" /\ armed /\ ~Balanced(shown)
    /\ exec < MaxExecutions /\ exec' = exec + 1
    /\ pc' = "recover"
    /\ known' = {} /\ closes' = 0 /\ pre' = shown
    /\ UNCHANGED <<venueVars, ledgerVars, diskVars, flags, batch, expected, retried, estimate>>

\* After a failed execution the result is always booked; after a mismatch only
\* if an order was sent, which is what leaves the session unresolved.
Recovered ==
    /\ pc = "recover" /\ Balanced(shown)
    /\ estimate' = TRUE
    /\ pc' = IF unresolved THEN "book" ELSE "scan"
    /\ UNCHANGED <<venueVars, ledgerVars, diskVars, flags, exec, batch, known, pre, expected,
                   retried, closes>>

\* Its record cannot be queued: after a mismatch with no order sent, only a retry.
RecoveryUnjournaled ==
    /\ pc = "recover" /\ Balanced(shown)
    /\ pc' = IF unresolved THEN "draining" ELSE "scan"
    /\ UNCHANGED <<venueVars, ledgerVars, diskVars, flags, workVars>>

\* residual_close_qtys: only a venue that holds the residual's sign can reduce it, Aster first.
Residual(v) ==
    IF shown[v] # 0 /\ (shown[v] > 0) = (Net(shown) > 0) THEN Abs(shown[v]) ELSE 0

CloseQtys ==
    LET net == Abs(Net(shown))
        onAster == Lesser(net, Residual("aster"))
        qty == [aster |-> onAster, lighter |-> Lesser(net - onAster, Residual("lighter"))]
    IN  [v \in Venues |-> IF Net(shown) > 0 THEN -qty[v] ELSE qty[v]]

\* Mutant of MoreCloses: the attempts are not counted.
EndlessCloses == closes' = closes + 1

MoreCloses == closes < MaxCloses /\ closes' = closes + 1

Close ==
    /\ pc = "recover" /\ ~Balanced(shown)
    /\ MoreCloses
    /\ exec' = exec
    /\ Submit("close", CloseQtys)
    /\ pre' = IF closes = 0 THEN shown ELSE pre
    /\ expected' = shown
    /\ pc' = "closing"
    /\ UNCHANGED <<pos, restVars, ledgerVars, diskVars, flags, known, retried, estimate>>

RecordClose ==
    /\ pc = "closing"
    /\ known' = known \cup batch
    /\ \/ RecordUnresolved(known \cup batch, TRUE) /\ pc' = "closeResolving"
       \/ RecordFails /\ pc' = "draining"
    /\ UNCHANGED <<venueVars, ledgerVars, retired, armed, exec, batch, pre, expected, retried,
                   closes, estimate>>

\* The thirty seconds run out with the submission in flight.
CloseInFlight ==
    /\ pc = "closing"
    /\ \/ RecordUnresolved(known, FALSE)
       \/ RecordFails
    /\ pc' = "draining"
    /\ UNCHANGED <<venueVars, ledgerVars, retired, armed, workVars>>

\* Mutant of CloseTerminal: the next attempt does not wait for this one's end.
CloseAssumed ==
    /\ pc = "closeResolving"
    /\ expected' = Filled(expected)
    /\ pc' = "closeSettling"
    /\ UNCHANGED <<venueVars, ledgerVars, diskVars, flags, exec, batch, known, pre, retried,
                   closes, estimate>>

CloseTerminal ==
    /\ pc = "closeResolving" /\ Terminal
    /\ expected' = Filled(expected)
    /\ pc' = "closeSettling"
    /\ UNCHANGED <<venueVars, ledgerVars, diskVars, flags, exec, batch, known, pre, retried,
                   closes, estimate>>

\* Mutant of CloseSettled: the next attempt reads the positions at once.
CloseUnwaited ==
    /\ pc = "closeSettling"
    /\ pc' = "recover"
    /\ UNCHANGED <<venueVars, ledgerVars, diskVars, flags, workVars>>

\* The next attempt sizes from REST positions, once they show this one.
CloseSettled ==
    /\ pc = "closeSettling" /\ Near(shown, expected)
    /\ pc' = "recover"
    /\ UNCHANGED <<venueVars, ledgerVars, diskVars, flags, workVars>>

\* A read fails, a close stays unresolved, the attempts or the time run out.
RecoveryFails ==
    /\ pc \in {"recover", "closeResolving", "closeSettling"}
    /\ \/ RecordUnresolved(known, TRUE)
       \/ RecordFails
    /\ pc' = "draining"
    /\ UNCHANGED <<venueVars, ledgerVars, retired, armed, workVars>>

-----------------------------------------------------------------------------
(* commit_accounting                                                       *)

Row(net) == pnl' = pnl + net /\ booked' = booked \cup {exec}

\* loss_guard_value: an estimate never counts as a gain.
Results == IF estimate THEN {-1, 0} ELSE {-1, 1}

AppendRow ==
    /\ pc = "book"
    /\ \E net \in Results : Row(net) /\ cum' = cum + net
    /\ pc' = IF LossReached(cum') THEN "latch" ELSE "release"
    /\ UNCHANGED <<venueVars, breaker, diskVars, flags, workVars>>

\* Mutant of AppendFails: the failed append is only logged.
AppendIgnored ==
    /\ pc = "book"
    /\ pc' = "release"
    /\ UNCHANGED <<venueVars, ledgerVars, diskVars, flags, workVars>>

\* The row was not written, or was and the acknowledgement failed.
AppendFails ==
    /\ pc = "book"
    /\ pc' = "draining"
    /\ \/ \E net \in Results : Row(net)
       \/ UNCHANGED <<pnl, booked>>
    /\ UNCHANGED <<venueVars, breaker, cum, diskVars, flags, workVars>>

Latch ==
    /\ pc = "latch"
    /\ \/ breaker' = TRUE /\ pc' = "release"
       \/ UNCHANGED breaker /\ pc' = "draining"
    /\ UNCHANGED <<venueVars, pnl, booked, cum, diskVars, flags, workVars>>

\* What the hourly breaker counts: recoveries that acted, and hedge retries.
Hourly == IF estimate THEN closes > 0 ELSE retried

\* The barrier falls only now; a breaker then stops the engine.
Release ==
    /\ pc = "release"
    /\ \/ /\ Resolved
          /\ pc' \in IF LossReached(cum) THEN {"draining"}
                     ELSE IF Hourly THEN {"scan", "draining"} ELSE {"scan"}
       \/ ResolveFails /\ pc' = "draining"
    /\ UNCHANGED <<venueVars, ledgerVars, retired, armed, workVars>>

-----------------------------------------------------------------------------
(* Shutdown, crash and the operator                                        *)

Stop ==
    /\ pc \in {"standby", "scan"}
    /\ pc' = "draining"
    /\ UNCHANGED <<venueVars, ledgerVars, diskVars, flags, workVars>>

Halted == pc' = "down" /\ armed' = FALSE /\ unresolved' = FALSE

\* Mutant of Retire: a clean account is taken for a clean session.
RetireUnasked ==
    /\ pc = "draining" /\ armed
    /\ Balanced(shown)
    /\ marker' = NoMarker
    /\ Halted
    /\ UNCHANGED <<venueVars, ledgerVars, retired, workVars>>

\* clear_verified, after the books and the positions were read.
Retire ==
    /\ pc = "draining" /\ armed /\ ~unresolved
    /\ Balanced(shown)
    /\ marker' = NoMarker
    /\ Halted
    /\ UNCHANGED <<venueVars, ledgerVars, retired, workVars>>

\* Nothing armed, an unresolved session, a failed drain or an unverified account.
Keep ==
    /\ pc = "draining"
    /\ Halted
    /\ UNCHANGED <<venueVars, ledgerVars, diskVars, workVars>>

Crash ==
    /\ pc # "down"
    /\ Halted
    /\ UNCHANGED <<venueVars, ledgerVars, diskVars, workVars>>

\* taker resolve-session: every named order is terminal, the positions are
\* balanced and agree with the named fills.
ResolveSession ==
    LET evidence == marker.evidence
        fills(v) == {i \in evidence.named : orders[i].venue = v}
    IN  /\ pc = "down"
        /\ marker.there /\ evidence.there
        /\ evidence.complete /\ evidence.named # {}
        /\ \A i \in evidence.named : ~Live(i)
        /\ Balanced(shown)
        /\ Near(shown, [v \in Venues |->
                evidence.pre[v] + SumGot(fills(v))])
        /\ marker' = NoMarker
        /\ retired' = 1..exec
        /\ UNCHANGED <<venueVars, ledgerVars, pc, flags, workVars>>

\* taker reset-circuit-breaker
ResetBreaker ==
    /\ breaker /\ breaker' = FALSE
    /\ UNCHANGED <<venueVars, pnl, booked, cum, diskVars, pc, flags, workVars>>

-----------------------------------------------------------------------------

Execution ==
    \/ Execute \/ RecordOrders \/ LegsTerminal \/ LegsUnresolved \/ Hedged \/ SettleTimeout
    \/ Retry \/ NoRetry \/ RetryUnresolved \/ RetryTerminal \/ RetryVerified \/ RetryUnverified
    \/ JournalFails \/ Skip \/ Account \/ AccountingUnavailable

Recovery ==
    \/ Flatten \/ Recovered \/ RecoveryUnjournaled \/ Close \/ RecordClose \/ CloseInFlight \/ CloseTerminal
    \/ CloseSettled \/ RecoveryFails

Accounting == AppendRow \/ AppendFails \/ Latch \/ Release

Life == Start \/ Arm \/ Stop \/ Retire \/ Keep \/ Crash \/ ResolveSession \/ ResetBreaker

VenueStep ==
    \/ \E i \in DOMAIN orders : Fill(i)
    \/ \E v \in Venues : CatchUp(v) \/ OutsideFill(v)

Next == Execution \/ Recovery \/ Accounting \/ Life \/ VenueStep

Spec == Init /\ [][Next]_vars

-----------------------------------------------------------------------------
(* Properties                                                              *)

Evidence == [there : {TRUE}, named : SUBSET (1..MaxOrders), complete : BOOLEAN,
             pre : [Venues -> Int]]

PCs == {"down", "standby", "scan", "sent", "resolving", "settling", "retrying",
        "verifying", "economics", "recover", "closing", "closeResolving", "closeSettling",
        "book", "latch", "release", "draining"}

Order == [exec : 1..MaxExecutions, venue : Venues, kind : {"leg", "retry", "close"},
          want : Int, got : Int, st : {"live", "refused", "done"}]

\* The types of the state.
TypeOK ==
    /\ orders \in Seq(Order) /\ Len(orders) <= MaxOrders
    /\ pos \in [Venues -> Int] /\ shown \in [Venues -> Int]
    /\ marker \in {NoMarker, Armed} \cup [there : {TRUE}, evidence : Evidence]
    /\ retired \subseteq 1..MaxExecutions /\ booked \subseteq 1..MaxExecutions
    /\ pnl \in Int /\ cum \in Int /\ breaker \in BOOLEAN
    /\ pc \in PCs /\ armed \in BOOLEAN /\ unresolved \in BOOLEAN
    /\ exec \in 0..MaxExecutions
    /\ batch \subseteq 1..MaxOrders /\ known \subseteq 1..MaxOrders
    /\ pre \in [Venues -> Int] /\ expected \in [Venues -> Int]
    /\ closes \in 0..MaxCloses
    /\ outside \in 0..MaxOutside /\ retried \in BOOLEAN /\ estimate \in BOOLEAN

\* An execution is closed when none of its orders can still fill and, if it
\* filled anything, the ledger has its row.
Closed(e) ==
    /\ \A i \in DOMAIN orders : orders[i].exec = e => ~Live(i)
    /\ \/ e \in booked
       \/ \A i \in DOMAIN orders : orders[i].exec = e => orders[i].got = 0

AllClosed == \A e \in 1..exec \ retired : Closed(e)

\* While any execution that the operator has not taken over is not closed, the
\* marker is there: no crash, failed write or early return lets a session be
\* retired, or the next one armed, over it.
Barrier == marker.there \/ AllClosed

\* A new execution begins only when all before it are closed.
OneAtATime == [][exec' # exec => AllClosed]_vars

\* Orders that may still fill belong to one submission: while any is unresolved
\* no retry, close or leg is sent ("no further close may be submitted").
OneBatch == \A i \in DOMAIN orders : Live(i) /\ orders[i].exec \notin retired => i \in batch

\* No execution begins while the ledger's loss is at the limit, whatever
\* happened to the breaker file since.
LossStops == [][pc = "scan" /\ pc' = "sent" => ~LossReached(pnl)]_vars

\* Evidence on disk only grows until its execution is accounted: no order is
\* dropped from it, and evidence once incomplete does not become complete.
EvidenceGrows ==
    [][marker.there /\ marker.evidence.there /\ marker'.there /\ marker'.evidence.there
        => /\ marker.evidence.named \subseteq marker'.evidence.named
           /\ marker'.evidence.complete => marker.evidence.complete]_vars

\* A fill of a retry or a close brings the net position nearer to balance or
\* leaves it balanced: the same residual is never closed twice.
ClosesOnce ==
    [][\A i \in DOMAIN orders :
        orders[i].kind # "leg" /\ orders'[i].got # orders[i].got
            => Abs(Net(pos')) < Abs(Net(pos)) \/ Balanced(pos')]_vars

\* The next close of a recovery does not close the residual of the one before
\* again ("wait until they show these closes, or a lagging read would close the
\* same residual twice").
NextCloseOnce ==
    [][\A i \in DOMAIN orders :
        orders[i].kind = "close" /\ closes > 1 /\ orders'[i].got # orders[i].got
            => Abs(Net(pos')) < Abs(Net(pos)) \/ Balanced(pos')]_vars

\* resolve-session accepts a marker only if it names every order that reached a
\* venue (RUNBOOK: "It refuses a marker from a crash before any receipt, without
\* enough identities").
ResolvesNamedOnly ==
    [][marker.there /\ ~marker'.there /\ pc = "down"
        => \A i \in DOMAIN orders :
               orders[i].exec = exec /\ orders[i].st = "done" => i \in marker.evidence.named]_vars

-----------------------------------------------------------------------------
(* The inductive invariant behind Barrier, OneBatch and LossStops           *)

\* The orders belong to executions begun, and a submission has its execution.
Numbered ==
    /\ \A i \in DOMAIN orders : orders[i].exec <= exec
    /\ batch \subseteq DOMAIN orders
    /\ pc \notin {"down", "standby", "scan", "draining"} => exec >= 1

\* A session that works is armed, armed means its marker is there, and the flag
\* stays up from the evidence of an execution to its release.
Flagged ==
    /\ armed => marker.there /\ pc \notin {"down", "standby"}
    /\ pc \notin {"down", "standby", "draining"} => armed
    /\ unresolved => armed /\ pc # "scan"
    /\ pc \in {"resolving", "settling", "retrying", "verifying", "economics", "closeResolving",
               "closeSettling", "book", "latch", "release"} => unresolved

NothingLive == \A i \in DOMAIN orders : Live(i) => orders[i].exec \in retired

\* Where the next order may come from, or the session be retired, nothing is in flight.
Waited ==
    pc \in {"scan", "settling", "verifying", "economics", "recover", "closeSettling", "book",
           "latch", "release"} => NothingLive

OthersClosed == \A e \in (1..exec \ retired) \ {exec} : Closed(e)

\* All but the execution under way are closed, and that one too while the flag is down.
Accounted ==
    /\ OthersClosed
    /\ armed /\ ~unresolved /\ pc \in {"scan", "recover", "draining"} => AllClosed
    /\ pc \in {"latch", "release"} => exec \in booked

\* The tracker's sum is the ledger's while the engine may trade, and below the limit.
Counted ==
    /\ pc \notin {"down", "draining"} => cum = pnl
    /\ pc \notin {"down", "draining", "latch", "release"} => ~LossReached(cum)

\* The inductive invariant: types, and the facts above.
IInv == TypeOK /\ Numbered /\ Flagged /\ Waited /\ Accounted /\ Counted /\ Barrier /\ OneBatch
=============================================================================
