# A TLA+ model of the Lighter/Aster market-making bot

The repository holds a two-engine trading bot (`LIGHTER_ASTER_BOT`), a read-only market screener
(`SCREENER`) and reporting scripts. This directory models the bot: the state machines that decide
who may send orders, how orders, fills and hedges are kept in step, when the bot must stop, and what
a crash leaves behind. Paths below are relative to `src/LIGHTER_ASTER_BOT/src/`.

## 1. The system

One process per market runs two engines and a controller that gives the execution rights to one
of them at a time. The XEMM engine quotes on Aster and hedges its fills on Lighter; the taker trades
both venues at once and reduces positions XEMM may not.

| Part | State | Operations | Talks to | What makes it correct |
|---|---|---|---|---|
| Supervisor (`controller/supervisor.rs`) | active engine and mode, reduce lease, burst, status failures, pause, exit counts, engine tasks | fast tick, tick, handover, halt, shutdown | spawns and stops engines, publishes the lease, reads statuses, writes the breaker file | one writer at a time; rights move only after a drain on clean venues; a halt is final and latched; a stop ends |
| Regime (`controller/regime.rs`) | confirm windows | `decide` | pure, called by the tick | no flapping; a blocked taker loses the rights, an expired lease too |
| Loss stops (`controller/risk.rs`, `live_report.rs`) | equity baseline on disk, realized totals, execution rows | record, poll, breach, breaker gate, summary | statuses, ledgers | no loss is forgotten or counted twice |
| Taker engine (`taker/arb.rs`, `taker/pnl.rs`, `taker/entry_gate.rs`) | session marker, lease cache, execution epoch, ledger, gate window, journal queue | scan, gate, execute two legs, recover, account, shut down | venue clients, controller channels | every execution is accounted for before its barrier is released |
| XEMM engine (`livebot/`) | maker slots, fills, hedge intents, reserved margin, session marker, trip latch | quote, fill, hedge, reconcile, drain | user stream, Lighter tx socket, journal | every fill is hedged once; the drain leaves nothing behind |
| Nonces (`livebot/exec/shared_nonce.rs`, `lighter/nonce.rs`) | shared counter, Lighter's table | next, open, refresh, repair | every signer of an account | no nonce is used twice |
| Hot path (`hotpath/`) | seqlock cells, dirty set, heartbeat | publish, read, wake, watch | feeds, strategy | no torn or silently stale book |
| Feeds and sockets (`lighter/`, `connectors/`) | local books, pending transactions | apply, resync, send, ack | venues | a book with a gap is not used; an ack reaches its sender |
| Dry run (`dryrun/`) | simulated venues | match, fill, fund, save, serve | the same clients over local servers | fills conserve quantity and money |
| Screener, scripts | files | collect, report | public data | outside the trading loop |

**What is hard here.** The supervisor is one asynchronous task, but each of its handovers spans
several `await`s during which the engines (on their own threads), the clock, bursts, statuses and
stop requests move. A lease-bound taker acts on a cached snapshot of the lease, so it can still be
inside an execution that began under a lease already revoked. Engines can exit at any time, hang
when stopped, or be aborted with orders in an unknown state; the process can be killed between any
two steps, and its markers, breaker file and resting orders outlive it. XEMM's commands pass through
a worker with two lanes, and their answers, the user stream, snapshots and the venue's own dead-man
timer report on the same order in any order. Answers of the transaction socket carry no identity.
`PROJECT.json` lists these hazards at the lines where they bite, with the properties that cover them.

## 2. Modules

| Module | Models | Kind |
|---|---|---|
| `Regime` | `controller/regime.rs`: the conditions, confirm windows and `decide()` | pure operators |
| `Hysteresis` | `decide()` on freely moving reports, without handovers | state machine over `Regime` |
| `ExecutionRights` | what the controller promises: engines start to write alone, on clean venues | abstract specification |
| `Supervisor` | `controller/supervisor.rs` with the engines as it sees them | state machine, composes `Regime`, implements `ExecutionRights` |
| `ConfirmWindow` | the supervisor with one history variable, `kept`: what the reports of an open window called for | extends `Supervisor` |
| `EquityBaseline` | `controller/risk.rs`: the equity drawdown stop over restarts | state machine |
| `RealizedTrades` | `controller/risk.rs`: tailing the ledger and XEMM's journal | state machine |
| `ExecutionEconomics` | `live_report.rs`: the summary of XEMM's journal | function of the rows, checked against a definition |
| `TakerSession` | `taker/arb.rs` executions and recovery, `taker/pnl.rs` marker, ledger and breaker, `resolve-session` | state machine |
| `EntryGate` | `taker/entry_gate.rs`: the ranked window, its worker and history | state machine |
| `ColdJournal` | `taker/pnl.rs`, `livebot` journals: queue, worker, confirmations | state machine |
| `NonceDispenser` | nonces handed out once, in increasing order | abstract specification |
| `AsterNonce` | `livebot/exec/shared_nonce.rs`: opening the shared file and drawing from it | state machine, implements `NonceDispenser` |
| `MakerOrders` | `livebot/orders.rs`, `exec/aster.rs`, parts of `strategy.rs`: one side's maker orders | state machine |
| `HedgeLedger` | `livebot/fills.rs`, hedges in `strategy.rs`: fills, attempts, corrections | state machine |
| `XemmSession` | `livebot/run.rs`, `breaker.rs`: start, stop stages, marker, trips | state machine |
| `MarginRoom` | `livebot/strategy.rs`: the reservation of margin over both sides | state machine |
| `QuoteEngine`, `HedgePricing` | prices, skew, edges and caps of a quote; the walk of a book | pure operators |
| `QuoteDesk` | when a quote is placed, kept, replaced or cancelled | state machine over `QuoteEngine` |
| `BookCell` | `hotpath/book_cell.rs`, `exec/command.rs`: publications, the books the strategy prices from, the claim of a permit | state machine |
| `FeedWatch` | `hotpath/watchdog.rs`, reconnects, divergence check | state machine |
| `LighterBook` | `lighter/messages.rs`: sequence checks of the local book | state machine |
| `LighterSend` | `lighter/tx_ws.rs`, `lighter/nonce.rs`: frames, answers, nonce repair | state machine |
| `LighterFills` | `taker/venues/lighter.rs`: what became of an order | state machine |
| `SimMatching`, `SimVenue`, `SimFeed`, `SimServers` | `dryrun/`: matching, clock and funding, feed, servers | state machines |
| `SumTheorems` | lemmas about the library's sums | proofs |
| `*Safety` | theorems and proofs | proofs |
| `MC*` | values, reports and scenarios for TLC | model checking |

### Supervisor, ConfirmWindow, Regime, Hysteresis

The supervisor is one task, so `pc` names its await points and one action is what runs between two
of them. `plan` holds the locals of the handover under way. `bot`, `mode`, `since`, `lease` are the
fields of `Regime`; `failures`, `paused`, `stable`, `exits`, `halted` those of `Supervisor`.

| Code | Actions |
|---|---|
| `run`: startup check | `VerifyStartClear`, `VerifyStartFails` |
| `check_exits` (called in three places) | `Exits(from, next)` = `CheckExits`, `ReapActive` |
| `fast_tick`, `activate_reduce` | `IgnoreBurst`, `ExtendOnBurst`, `ActivateReduce` ... `VerifyClear`, `GrantReduce`, `AbandonGrant` |
| `tick` | `StatusLost`, `LossStop`, `HoldWhilePaused`, `DecideTick`, `ReadXemm` |
| `ensure_bot`, `ensure_observer_for` | `KeepBot`, `CheckSwitch`, `BeginSwitch`, `ObserverStopped`, `ActiveStopped`, `GrantBot` and their failures |
| `safe_halt`, end of `run` | `SafeHalt`, `FinalActiveStopped`, `FinalObserverStopped`, `Latch`, `Shutdown`, `EndProcess` |
| `run_with` start gates | `Launch`, `ResolveSessions` (the operator) |
| `taker/arb.rs` `run` | `Arm`, `RefreshLease`, `Scan`, `PublishBurst`, `Execute`, `Settle`, `ExitOk`, `ExitErr` |
| `livebot/run.rs` `run` | `Arm`, `Quote`, `Fill`, `Settle`, `ExitOk`, `ExitErr` |
| process death, venues, clock | `Crash`, `OrderGone`, `Tick` |

An engine's `seen` flag is its lease cache: `RefreshLease` copies the channel, so a revoked lease
stays cached until the next refresh, and `phase = "exec"` outlives even that. `CanWrite` counts
both. A `resting` order stands for any order of the bot on a venue; `verify_orders_clear` passes
only without one. The breaker file, the engines' session markers and resting orders survive a
crash; everything else is reset. With `DiskFails` the breaker file may not be written, as in the
code, where a write error is only reported.

Times are relative: the lease and its cap count down, a burst and the mode count up, all saturating
at the largest value a guard compares, so the clock is unbounded although the state space is not.

Reports are records of exactly the fields `decide` reads; a field the lenient reader cannot take is
`Unknown`. An unreadable headroom or margin therefore never blocks, as in the code. `Hysteresis`
isolates the switching rule from what a handover takes, and remembers in `left` the report that
took the rights from the taker. Two things hold only with a proviso, stated in the properties: near
flat the taker is ready whatever its margin, so such a report can be both blocked and ready; and an
opportunity cut by headroom or margin is outside the clip band.

### EquityBaseline, RealizedTrades, ExecutionEconomics

`EquityBaseline` takes the samples, the file with its age, the breaker file and the start gates
through `Start`, `Archive`, `ResetBaseline`, `ResetFails`, `Load`, `LoadFails`, `Record`,
`SwitchEngine`, `OtherHalt`, `Latch`, `Crash` and `TimePasses`. `anchor` is the equity losses should count from; a sample
that was due but could not be saved does not restart `silence`.

`RealizedTrades` tails an append-only file that a writer extends, tears and trims (`AppendText`,
`AppendNewline`, `Trim`, `Journal`) while the poll reads its length, then its bytes, then the summary
(`Stat`, `ReadLedger`, `Summarize`, `SkipSummary`). It assumes that a trimmed ledger was read to its
end and does not grow past the old offset before the next poll, and that a read which began also ends:
an I/O error within one returns after the offset was moved, without the rows read by then.
`ExecutionEconomics` compares the summary with a definition over all orders and repetitions of the
rows (`Write`). A later row of the same attempt and quantity takes its predecessor's fee, quote and end
(`live_report.rs:388-401`), so the summary depends on the order of such rows: `Stands` and `Latest` name
the rows that count, and the rows of the instance hold such a pair of each kind. Only a row that still
stands changes nothing when it comes again.

### TakerSession, EntryGate, ColdJournal

One engine, one market, one direction, from a flat account; what an execution
leaves is the inventory of the next. The variables of `TakerSession` are grouped by what survives a crash:
the venues (`orders`, `pos`, and `shown`, what REST says), the disk (`marker`, `pnl`, `booked`,
`breaker`), and the engine's locals, of which `pc` names the await point. `exec` numbers executions
and recoveries over all runs of the engine.

| Code | Actions |
|---|---|
| `run`: breaker and ledger at the start, arming | `Start`, `Arm` |
| `execute_opportunity` | `Execute`, `RecordOrders`, `LegsTerminal`, `LegsUnresolved`, `Hedged`, `SettleTimeout`, `Skip`, `Account`, `AccountingUnavailable`, `JournalFails` |
| `try_missing_hedge_retry` | `Retry`, `NoRetry`, `RetryTerminal`, `RetryUnresolved`, `RetryVerified`, `RetryUnverified` |
| `recover_if_needed`, auto-flatten | `Flatten`, `Close`, `RecordClose`, `CloseInFlight`, `CloseTerminal`, `CloseSettled`, `Recovered`, `RecoveryUnjournaled`, `RecoveryFails` |
| `commit_accounting`, `record_trade` | `AppendRow`, `AppendFails`, `Latch`, `Release` |
| end of `run` | `Stop`, `Retire`, `Keep` |
| `taker resolve-session`, `reset-circuit-breaker` | `ResolveSession`, `ResetBreaker` |
| process death, venues | `Crash`, `Fill`, `CatchUp`, `OutsideFill` |

An order is one record, `batch` the orders of the submission whose outcome is awaited. Both legs of
a submission are sent in one step, and each ends at the venue, in any order, filled, partly filled
or not at all; the marker is written only in the step after. A write to the marker can fail
(`RecordFails`, `ResolveFails`), and a ledger row can be durable although its acknowledgement failed.
Prices, margins, fees and the venues' minimum sizes are left out, but for the least retry Lighter takes
(`MinRetry`): where they decide, both outcomes are open. The closes are `residual_close_qtys`'s
(`CloseQtys`: the residual on Aster as far as Aster holds it, the rest on Lighter) and reduce-only: the
venue fills no more of one than the position it reduces (`Fillable`), as `dryrun/matching.rs:1064` has it,
which also takes a reduce-only order below the minimum notional (`matching.rs:555`). The lease that
lets `Execute` run is `Supervisor`'s concern. An outside fill moves a position only at rest. The close attempts
are three in the code and `MaxCloses` in the model.

`EntryGate` (`Start`, `Worker`, `Evaluate`, `Shutdown`, `Abandon`, `Tick`) keeps the samples of each
edge, the worker's queue and the history file; the evaluation's rank is compared with the percentile
of all samples in the window. The wall clock is monotone in it, the "off" mode is left out. A row
appended after a torn line is lost from the history file, as in the code. `ColdJournal`
(`RefuseStart`, `Start`, `TryAppend`, `AppendConfirmed`, `Shutdown`, `Abandon`, `WriteRow`, `Drained`)
is the queue between the engines and the journal's worker. A full queue makes the worker discard rows
it had accepted although the disk works, and the execution journal's first row after a torn line is
glued to it; both are in the model. What an abandoned worker still writes is not.

### AsterNonce

Each step of `open_at` that touches the file, and the load and the swap of `next_at`, are actions of
one process, so that any number of processes interleave in them and each can stop (`Abandon`) between
any two. The clock is any value at every draw. `issued` is a history variable.

### MakerOrders, HedgeLedger, XemmSession, MarginRoom, QuoteDesk

`MakerOrders` is one side's slot in the strategy, the Aster worker with its two lanes and the venue:

| Code | Actions |
|---|---|
| strategy: quoting, gates, events, safety sweep, drain | `Place`, `Replace`, `CancelQuote`, `GateCloses`, `Fill`, `ExecEvent`, `Tick`, `Quiesce`, `SendStop`, `Finish` |
| `exec/aster.rs`: worker | `CheckPlace`, `ClaimPlace`, `AnswerPlace`, `DoCancel`, `DoReplace`, `DoCancelAll`, `DoBarrier`, `RefuseUnsent` |
| venue | `VenueFill`, `LateArrival`, `DeadmanFires` |
| reconciliation | `Snapshot`, `Backfill` |

A refused, unknown or lost command is an outcome of the worker's step; when a slot heals or backs off
is a choice, and `SendStop` follows the acknowledged quiesce only. `HedgeLedger` keeps the fills, the
hedge attempts with their outcomes and the corrections (`MakerOrderFills`, `MakerFill`, `UnpricedFill`, `PendingLimit`,
`PositionsArrive`, `Recover`; `Refuse`, `Execute`, `Fills`, `Progress`, `Unknown`, `Rejected`, `Timeout`).
A fill an order query reports without a price, while there is no book to take one from, is recorded and
goes no further (`UnpricedFill`, `strategy.rs:2336-2340`): no hedge follows it, and no later report of the
same quantity adds anything. `Covered` counts such fills apart (`Unpriced`), and `UnpricedIsSeen` says what is
left to notice them: no snapshot of the positions read since then agrees with the predicted ones.
`XemmSession` is the run around them (`Start`, `StartFails`, `Resolve`, `ResetBreaker`, `Trade`,
`Publish`, `Age`, `RecordDropped`, `CheckBreaker`, `PersistTrip`; `QuiesceSession`, `Drain`, `StopWorkers`,
`Verify`, `DrainJournal`, `Exit`, `Crash`).

`MarginRoom` (`PlaceOrder`, `ReplaceOrder`, `CancelAck`, `VenueFills`, `FillArrives`, `LateFillArrives`,
`HedgeFills`, `HedgeProgress`, `SnapshotArrives`) asks whether the orders of both sides fit into the margin
together. The bound needs both `margin_allows` and `positions_reconciled`, and is exceeded by no more
than the fills a cancel acknowledgement hid (`hidden`). Mark and equity are constant in it, the
position tolerance is below every quantity, and a failed hedge attempt stays owed.

`QuoteDesk` (`Reprice`, `FastCancel`, `RequestSafetySweep`, `SweepConfirmed`, `PlaceAck`, `PlaceReject`,
`CancelAck`, `Gone`, `RateLimited`, `Books`, `Tick`) decides on one side's quote from `QuoteEngine`'s
prices. The comment at `strategy.rs:583-586` puts the urgent safety check first; the arm that replaces
returns earlier when the replace budget is used up, and the model follows the code. A latched touch
is not refreshed by a later rejection while it is set. Integer Lighter books are rounded to Aster's
tick. Partial fills and the cancel after a replacement's acknowledgement are `MakerOrders`'.

### BookCell, FeedWatch, LighterBook, LighterSend, LighterFills

`BookCell` runs the thread of each venue, the strategy that prices from two cells and the worker that
claims the order's permit against each other, one atomic load or store a step:

| Code | Actions |
|---|---|
| `publish*`, `mark_stream_down` | `AsterDepth`, `AsterTicker`, `LighterUpdate`, `MarkStreamDown`, then one `Store` each |
| `run_strategy`: the permit, the dirty bit, a tick | `Wakeup`, `TakeDirty`, `Tick` |
| `reprice_market` | `Generations`, `Guards`, `Reprice`, each load by load |
| `revoke_makers` | `RevokeMakers` |
| `MakerPermit::try_claim`, `Admission::try_claim` | `ClaimEpoch`, `ClaimLoad`, `ClaimAdmission` |

Between two of a claim's loads anything may be published. So the property says what the check can
promise, not that the books are still the venues' when the order is sent: there was one instant, after the
worker took the order up, at which both cells held the books it was priced from (`PricedFromOneInstant`),
and an integer book that was ahead when its cell's version was compared has its raw book in the cell by the
time the order is sent (`NoneAhead`).
An update of Lighter's touch that leaves its prices wakes nobody (`Following`), as in
`publish_bbo_price_wake`. Ages, deadlines and the divergence flag are left out.

`FeedWatch` (`Connect`, `ConnectFails`, `Reconnect`, `FullBook`,
`Bbo`, `OtherFrame`, `UnusableFrame`, `Closed`, `TooQuiet`, `Requested`, `Scan`, `Request`, `Compare`,
`Tick`) holds the watchdog, the stored reconnect request and the comparison with REST; the divergence
flag lives here, and a cell that is down or divergent offers no book to a hedge. `ClearedAfterLimit`
there is a remark, not a checked property: a comment says the breach counter is cleared by the limit.

`LighterBook` (`Move`, `Snapshot`, `Delta`, `Malformed`, `Unreadable`, `ResetAfterGap`,
`RequestReconnect`, `Disconnect`, `Subscribe`) numbers updates by nonces, by offsets or by neither. In
the code the worker's book can be read half applied between a refused `apply` and its `reset`; the
property speaks of the states outside that interval. `LighterSend` (`Submit`, `SignFails`, `NotSent`,
`Write`, `WriteFails`, `NoAnswer`, `Answer`, `Refresh`, `RepairNonce`, `RefreshNonce`, `ConnectionDies`,
`Reconnect`, `Notice`, `TakeFrame`, `Lose`) pairs a frame with the next answer. It assumes that a frame whose
fate is unknown lands or is lost before `RepairNonce`'s budget ends, that notices come only while nothing
is in flight, and that REST's nonce is current. `LighterFills` (`Fill`, `Expire`, `OnTrade`, `OnOrder`,
`Settle`, `Receive`, `Deadline`, `Lookup`, `TakeTrade`, `Observe`, `ResolveOrderTerminal`, `Unresolved`)
is how the taker learns what became of an order; a trade without an identity is journaled but not counted,
so that an order may be told as partly filled with nothing counted yet.

### SimMatching, SimVenue, SimFeed, SimServers

The dry run serves the same clients from simulated venues. `SimMatching` (`OnBook`, `OnTrade`, `Gap`,
`Place`, `Cancel`, `CancelAll`) keeps queue positions; its next book is any frame's, and filters and
margin refusals are left out. `SimVenue` (`Submit`, `Ingest`, `Funding`, `Tick`, `Advance`, `Save`,
`Restart`, `Resume`) delays effects and charges funding; `SimFeed` (`Forward`, `Lose`, `Unsubscribe`,
`Subscribe`, `Receive`, `SessionEnds`, `Deliver`, `Reconnect`, `Tick`) and `SimServers` (`Account`,
`Signing`, `Listening`, `Tick`) answer requests. The order of effects is stated for trading requests
only: reads, the dead-man's arming and no-ops do not wait for the feed. Two settlements fall into the
instance, reported as `feed.rs:172-189` reads them: Aster's the next one, Lighter's the last one. A rate
reported again is not charged again, but with a proviso: a settlement that waits for a mark while the next
one is charged sets `settled` back when its turn comes (`matching.rs:1286`), and if the later rate is then reported
again, it is charged again, although `matching.rs:421` says "a rate reported again is not charged twice".
`FundingCharges` therefore bounds the charges of a settlement by one more than those of all older ones.

## 3. Runs

A project of this many models would need many small runs. Models of one area share a run instead: its
MC module extends or instantiates each, a variable `scenario` names the one whose steps are taken, and the other
variables rest at their start. A property of such a run speaks of its own model's variables, which never
move in the other scenarios.

| Run | Scenarios | Shows |
|---|---|---|
| `supervision` | | the inductive invariant `IInv`, `OneWriter`, `NoObserverBesideTaker`, the refinement `ImplementsRights` of `ExecutionRights`, `LeaseTerm`; and `Sustained`: no engine is replaced before its confirm window has run, and every report decided upon in it calls for the change |
| `supervisor_progress` | | under fairness, with crashes: `StopEnds`, `PauseLifts`, `ExpiredHandsBack`; and `HaltLatched` |
| `controller` | regime, equity, faults, trades, report, matching, clock | `NeverBoth`, `HandBackCrossesBand` (the switch's thresholds), `LossesStop` (the drawdown stop with working and failing files), `BooksAreTrue` (tailing), `ReportIsTrue` (the summary), `ExchangeIsFair` (matching and the simulated clock) |
| `clients` | nonce, closes, feed, book, sends, fills | `TypeOK`, `Increasing`, `DispenserSpec` of the nonce file; `ClosesOnce`: a residual is closed once; `FeedSupervised`, `BooksAreTheVenues`, `SendsAreKnown`, `ToldIsTheVenues` |
| `taker_session` | session, gate, journal, cells | `IInv`, `Barrier`, `OneBatch`, `OneAtATime`, `LossStops`, `EvidenceGrows`; `EntriesAreBacked` (gate and journal); `CellsArePriced` (XEMM's book cells) |
| `xemm` | orders, hedges, session, margin, quotes, feed, servers | `NoGhost`, `Settles` (maker orders), `Accounted`, `UnpricedIsSeen` (hedges), `EndsClean` (session), `MarginHolds`, `QuotesHold`, `DryRunServes` |

The `violation` runs are disagreements between a comment or the runbook and the code, recorded under
"findings" with the lines they quote:

- `confirm_window_paused` (`StaysBlocked`): the comment and the runbook promise a taker blocked
  throughout, while a window that began before a network pause counts the pause in whatever the taker
  reported during it.
- `taker_close_tolerance` (`NextCloseOnce`): the comment promises that the next close waits until REST
  shows the last ones, while the wait is satisfied by positions within the mismatch limit, on each
  venue, of the fills, and the next wait counts from the lagging read. Two closes that fill in part can so
  both be missing from the read that sizes the third; reduce-only does not stop it, since the venue still
  holds the other leg of the hedged inventory.
- `taker_resolve` (`ResolvesNamedOnly`): the runbook promises that a marker without enough identities is
  refused, while a hedge retry is named in the marker only once its outcome is found unresolved. Only the
  comparison of positions, again within the mismatch limit, stands between a crash in that interval and a
  retired session.
- `maker_cleared` (`ClearedIsGone`): a snapshot without orders clears a slot whose place is still on its
  way; the order then rests untracked until a later snapshot or sweep finds it.
- `hedged_once` (`HedgedOnce`): inventory whose correction is already out goes into the hedge of the next
  fill, so the same exposure is reduced twice.
- `gate_reopens` (`Reopens`): once two samples of the window expire between two evaluations, the entry
  gate never asks for another prune and answers `history_pending` for the rest of the run, although its
  worker and its history work. It is checked under `GateSpec`: weak fairness of the worker and of the
  evaluation, both of which run in loops without an exit.

**Bounds.** They are chosen so that every comparison has both outcomes.

- Supervisor, `supervision` and `supervisor_progress`: crashes; windows of 2 ticks (1 in
  `supervisor_progress`), a lease of 3 with cap 5 and a minimum extension of 1 (1, 1 and 0), a burst fresh
  for 1 (0), a pause after 2 misses (1). A lease can be extended, capped and expire;
  a burst can be fresh, stale and arrive during a drain; a window can fill, be cut short, and be carried
  across a switch. Reports are one per case `decide` tells apart. Two engine slots are all the code has.
- Hysteresis: clip 2, a band from 1 to 2 clips, all combinations of four headrooms, three margins, three
  opportunity sets and two positions. Equity: four equities, a limit of 2, a gap of 3 ticks, a refresh
  every 2. Ledger: six cells, one trim; summary: five rows of ten, among them two reports of one trade and
  two of one attempt and quantity. Dry-run matching: three prices, two orders; clock: two settlements.
- Nonce: two processes, three clock values, a counter of five values that lets it reach its limit, a lead
  of one. Closes: two executions, four orders, two close attempts.
  Feed: connection stale after 2, book after 1, idle after 3, two breaches, two trips. Book: three moves
  of the venue. Sends: three orders. Fills: three lots, a route of capacity 1.
- Taker session: legs of one step, two executions, four orders (a first execution with both legs and a
  retry or a close, and a second one over what it left), two closes, one outside fill; REST may lag for
  ever. Gate: a window of 2, times to 4, three samples, two edges, the 60th percentile, a queue of 2 (1024
  in the code). Journal: a queue of 2 and five rows. Cells: two
  publications or losses of a stream, of any kind, around one pricing and its claim, with and without
  integer books.
- XEMM: two orders of one lot, two execution events, one loss or dead-man firing for `MakerOrders`; three
  lots filled and three attempts for `HedgeLedger`; equity 4 or 3, a buffer of 1 or 0, a cap of 5 and two orders of up to 2 for
  `MarginRoom`; eight views of the books, two positions, a budget of four with a reserve of one for
  `QuoteDesk`; two requests in flight, one event and two orders for `SimServers`.

`ClosesOnce` needs its proviso, `LagBounded`: after a wait that ran out (ten seconds for the legs, the
retry's own deadline) the code goes on to `recover_if_needed`, whose first close is sized from whatever
REST shows. The safety properties of `taker_session` do not need it. Deadlock is not checked in the
shared runs but `taker_session`, since one model may end while the run's other models have not begun;
there `CellsIdle` stands for the cells with their bounds reached and every thread at rest.

**Fairness.** `Supervisor`'s `Fairness` asks that the supervisor task keeps running (every await in it has
a timeout, `STATUS_TIMEOUT`, `ORDERS_CLEAR_TIMEOUT`, `ENGINE_STOP_TIMEOUT`), that its tick, due again
and again, is not skipped forever (`next_tick` is reached because the loop sleeps 250 ms and the
poll is 15 s), and that the clock advances. Nothing is assumed of the engines, of the venues or of
the statuses; the two properties that need readable statuses say so (`NetworkRecovers`). A crash is never
fair: the properties end at `pc = "down"`.

## 4. Proofs

Proved with TLAPS for every value of the constants that satisfies the assumptions named with each
module (the thresholds `ControllerCfg::validate` enforces, a cap no shorter than a lease, clock times
within the counter's range). Each safety theorem follows the same argument: `Init => IInv`,
`IInv /\ [Next]_vars => IInv'`, and `IInv` implies the property. TLC checks `IInv` too: a run lists the
supervisor's, and every other one holds when it is added to the invariants of its run.

- **`SupervisorSafety`**: `TypesHold`, the type invariant, with lemmas for the lease's arithmetic;
  `InvHolds` and from it `OneWriterHolds`, `NoObserverHolds`, `LeaseHolderHolds`. `OneWriter` is not
  inductive: a second writer needs an observer that sees a lease, a lease outside reduce mode, or a role
  that disagrees with the regime. `IInv` names those facts: `RolesAgree`, `ObserverHarmless`,
  `SeenOnlyLeaseBound`, `RevokedWhileStopping`, `SlotsFree`, `PlanHonoured`, and
  `RestingExplained`/`XemmMarked` for the orders left on a venue.
  Over the same invariant: `Refines`, each action maps to a step of `ExecutionRights` or a stutter;
  `LeaseTermHolds`, no step moves a standing lease past its cap or revives it; `HaltLatchedHolds`, with a
  disk that works (`~DiskFails`) every halt that runs to its end has latched the breaker, because a halt
  that has not is still on its way through the three stops (`LatchUnderWay`). `SustainedHolds` is about
  `ConfirmWindow`'s specification, each step of which is one of the supervisor's (`HistoryWatches`): a
  window never runs longer than `kept`, what the reports decided upon have called for (`Windowed`), and
  nothing but a decision outside a halt plans a switch (`Undecided`). It needs `~CountsPaused`: counting
  the reports read during a network pause it is false, as `confirm_window_paused` shows.
- **`ControllerSafety`**, the band: `NeverBothHolds` and `HandBackHolds`, for every report and threshold. The
  second needs the invariant that `report` and `left` are reports of the market.
- **`ControllerSafety`**, the drawdown stop: `InvHolds`, `LossKeepsCountingHolds`, `LossHaltsHolds`, `FileIsFreshHolds`,
  `AcknowledgedHolds` and, of all of them, `LossesStopHolds`, for every set of equities, limit, gap and
  refresh, with files that work or fail.
  The tracker's baseline and the file agree only through three more facts: an anchor outside a run is on
  disk (`Anchored`), the file's age is within a refresh of the last sample and the time of the last write
  dies with its process (`Dated`), and an acknowledged drawdown leaves no file to load (`Acknowledged`).
- **`ClientsSafety`**, Aster's nonce: `NeverReissued`, `Refines`, `TypeCorrect`, for any number of
  processes. The inductive invariant adds to `Increasing` that no nonce issued exceeds the counter
  (`Bounded`), that only the lock's holder is inside the initialization (`Exclusive`), and that a
  process draws only once the header is written (`Stamped`): without the last two a second opener
  could zero a counter in use.
- **`TakerSessionSafety`**: `IInv` with its parts `Numbered`, `Flagged`, `Waited`, `Accounted`, `Counted`
  is inductive, and from it `Barrier`, `OneBatch`, `OneAtATime`, `LossStops` and `EvidenceGrows`, for any
  number of orders, executions and closes.
- **`XemmSafety`**, the margin: `MarginHeld`, the margin both sides reserve stays within what the account has,
  but for the fills a cancel acknowledgement hid, for any sizes, equity, buffer and cap.
- **`ControllerSafety`**, the realized-PnL stop: `TradesInvHolds` and `BooksAreTrueHolds`, for every finite set of rows
  and trades whose keys differ. That no row is missed needs to know what the offset stands for: the file
  holds whole lines but perhaps the last (`Lines`), the offset is the end of one and everything up to it is
  booked or older than the start, or the file was trimmed below it (`Tailed`), and what a poll has to book
  is still in the file when it reads (`Owed`). The totals stay sums because a book in which they are,
  and in which no record counts more than its net (`Cautious`), stays one when a row or a whole summary is
  booked, in the order the library's folds take them. `NoChangeMissed` rests on the journal's metadata being
  read before its summary (`JournalDated`).
- **`ClientsSafety`**, Lighter's orders: `SendsAreKnownHolds`, `OutcomesHold`, `NoncesHold`, for any number of orders. An answer
  carries no identity, so `OutcomeIsOwn` rests on what is on its way: every frame but the awaited one has
  an unknown outcome and no live connection (`Frames`), and an answer queued for an awaited frame is that
  frame's (`Queued`). `HedgeNonceKnown` needs to know which nonce each stage of a send has used
  (`Counted`) and that an uncertain worker is at rest (`Sending`).
- **`MakerOrdersSafety`**: `InvHolds`, `NoGhostHolds`, `SettlesHolds`, for any number and size of orders,
  any lead of the worker and any number of faults. None of the properties is inductive: the strategy acts
  on answers that are old when it reads them, and the orders it knows are sent or cancelled by commands
  still in a lane. `IInv` (in `MakerOrders`) says how the pieces agree: a ticket that may still be
  claimed is the slot's and every command is sent once (`Tickets`), a claim comes before its order
  (`Claims`), what the slot believes is so at the venue, and a replacement follows only a cancel that
  took the old order down unfilled (`SlotIsTrue`), an answer is evidence or its order has been called
  uncertain before (`Evidence`), every order that is out is known (`Known`), a slot that waits has its
  answer or its command on the way unless a sweep is pending (`Awaited`), and nothing is sent behind the
  barrier (`Drained`). Every action is shown to be one of a few kinds of step: what the strategy learns
  (`Learns`, `Turns`), what the worker carries and answers (`Works`, `Replies`), what the venue does
  (`VenueMoves`), a claim, an answer, a new order (`Quotes`). Each part survives each kind.
- **`XemmSafety`**, the session: `SessionInvHolds` and `EndsCleanHolds`, for any equities, limit, number of samples
  and streak. `XemmInv` says what a file must still tell when the process forgets it (`Remembers`), what
  the verdict of the shutdown and the journal's health are worth (`Verifies`), and that samples, baseline
  and streak are those of the snapshots the breaker looked at (`Sampled`, `Streaks`). The lemmas about
  `Median` hold for sequences of any length: the median exists (a least value that more than half of
  the samples do not exceed, from the well-foundedness of the naturals) and, of three samples or more,
  one other lies at or below it and one other at or above it, whichever sample is left out.
- **`HedgeLedgerSafety`**: `LedgerInvHolds` and `AccountedHolds`, for any number and size of fills and attempts,
  any least hedge and step. None of the three parts of `Accounted` is inductive. `Lifecycle` says what an
  attempt's ticket, its answer and the venue may be for each thing the strategy believes of it.
  `Balanced` is `Covered` in the form a step changes in one place: the priced fills and what every
  attempt takes or will take from them (`Booked`) add up to the inventory. `Reserved` is why no exposure
  has two orders: the priced fills cover what each attempt took and may still ask for (`Held`, which
  keeps the quantity of a ticket taken back until its refusal is answered, since a refusal is retried),
  and the inventory too unless it is under correction. `Late` says a ticket taken back is owed.
- **`SumTheorems`**: what the proofs about sums need of the library's `SumFunctionOnSet`, whose definition
  is a recursive function over the subsets of a set that picks an element by `CHOOSE`: that the function
  exists, that a sum does not depend on the order of the picks (`SumRemove`), is monotone, changes by as
  much as a summand does (`SumChange`, `SumChangeTwo`), and splits over sets and summands (`SumSplit`,
  `SumPlus`). `FoldExists` gives the recursive function of any fold over a finite set. They rest on an
  induction over sets of subsets of a finite set (`SubsetInduction`), proved from the well-foundedness of
  the naturals without an operator parameter.

Only model-checked: the liveness properties and `gate_reopens` (there is no fairness or `ENABLED`
reasoning); the summary of `ExecutionEconomics` (folds over data), which is the
controller's `ReportIsTrue`; `UnpricedIsSeen`; the feeds, books and fills of the `clients` run; the entry
gate, the journal and the cells of `taker_session`; the dry run.

## 5. Not modelled, and what is left

Not modelled: JSON and TOML parsing, signing and HTTP, Lighter's native signer, the status reports and
event logs, the screener and the offline scripts; in the taker the sizing of an opportunity, the account
snapshot's epoch and the numeric filters of `book_sanity`; the Aster REST client; in the hot path the
registry and the pinning of threads; in the dry run the account's file and the tape.

Left, in this order:

1. Proofs: `ColdJournal`.
2. The account snapshot's epoch and the sizing of an opportunity in the taker.
