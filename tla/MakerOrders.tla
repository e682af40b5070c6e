----------------------------- MODULE MakerOrders -----------------------------
(***************************************************************************)
(* One side of one market as XEMM quotes it on Aster: the strategy's maker *)
(* slot (livebot/orders.rs), the strategy's freeze, safety sweep and heal  *)
(* (livebot/strategy.rs), the execution worker with its two lanes          *)
(* (livebot/exec/aster.rs, livebot/exec/command.rs), the venue, and the    *)
(* reconciler's snapshots and order queries (livebot/reconcile.rs).        *)
(*                                                                         *)
(* Prices, budgets, book ages and the other side are choices: a decision   *)
(* to quote may fall whenever the maker gate allows it, a dispatch may be  *)
(* refused, a clock may have run out or not.  Fills reach the strategy as  *)
(* cumulative quantities, late, repeated, out of order or never; what they *)
(* cost and how they are hedged is in HedgeLedger.                         *)
(***************************************************************************)
EXTENDS Integers, Sequences, FiniteSets

CONSTANTS
    MaxOrders,      \* bound: client ids allotted
    Lots,           \* size of every order, in lots
    MaxEvents,      \* bound: the worker and the reconciler do not run further ahead of the strategy
    MaxTroubles     \* bound: refused dispatches, failed or rate-limited requests, dead-man
                    \* firings, cancels sent again, CancelAllBot the stop

MakerOrdersAssumption ==
    /\ MaxOrders \in Nat \ {0} /\ Lots \in Nat \ {0}
    /\ MaxEvents \in Nat \ {0} /\ MaxTroubles \in Nat

Ids == 1 .. MaxOrders
NoId == 0

VARIABLES
    \* the strategy
    slot,       \* the maker slot
    adm,        \* the admission ticket of every order
    cov,        \* the cumulative fill the strategy has processed (maker_coverage)
    frozen, sweep, uncertain,
    mode,       \* "run", "drain", "done"
    \* the worker
    prio, fifo, followup, hand,
    barrier,    \* "none", "queued", "completed"
    events,     \* worker and reconciler to strategy
    \* the venue and its readers
    venue,
    snap,       \* the open orders of the last snapshot read since the freeze, the request of
                \* the sweep and the barrier; NoSnapshot before one is
    \* bounds and history
    troubles,
    forgotten   \* orders in flight or not yet shown when a sweep cleared their slot

stratVars == <<slot, adm, cov, frozen, sweep, uncertain, mode>>
laneVars == <<prio, fifo>>
workVars == <<followup, hand, barrier>>
vars == <<stratVars, laneVars, workVars, events, venue, snap, troubles, forgotten>>

NoSnapshot == {NoId}

IdleSlot == [state |-> "Idle", id |-> NoId, acked |-> FALSE, filled |-> 0,
             next |-> NoId, after |-> FALSE]

NoCommand == [op |-> "none", id |-> NoId, old |-> NoId]

Command(op, id, old) == [op |-> op, id |-> id, old |-> old]

Event(kind, id) == [kind |-> kind, id |-> id, cum |-> 0]

Init ==
    /\ slot = IdleSlot /\ adm = [i \in Ids |-> "none"]
    /\ cov = [i \in Ids |-> 0]
    /\ frozen = FALSE /\ sweep = FALSE /\ uncertain = {} /\ mode = "run"
    /\ prio = <<>> /\ fifo = <<>> /\ followup = NoCommand /\ hand = NoCommand
    /\ barrier = "none" /\ events = <<>>
    /\ venue = [i \in Ids |-> [st |-> "none", filled |-> 0]]
    /\ snap = NoSnapshot
    /\ troubles = 0 /\ forgotten = {}

-----------------------------------------------------------------------------
\* The slot.

Live(s) == s.state # "Idle"

\* the order whose admission ticket the slot holds
Ticket(s) == IF s.next # NoId THEN s.next ELSE s.id

\* cancel_queued: a claimed order stays claimed
Cancelled(a, id) ==
    IF id \in Ids /\ a[id] \in {"queued", "revoked"} THEN [a EXCEPT ![id] = "cancelled"] ELSE a

\* revoke_makers: the permits of an earlier maker epoch are no longer valid
Revoked(a) == [i \in Ids |-> IF a[i] = "queued" THEN "revoked" ELSE a[i]]

Allotted == {i \in Ids : adm[i] # "none"}

PlaceSent(id) == [IdleSlot EXCEPT !.state = "PendingPlace", !.id = id]

ReplaceSent(s, id) == [s EXCEPT !.state = "PendingReplace", !.next = id, !.after = FALSE]

\* Mutant of CancelAcked: a replacement is lost with its predecessor.
PromoteNever(s) == IdleSlot

\* the CancelAck of the current order: empty the slot, or promote the replacement
CancelAcked(s) ==
    IF s.state = "PendingReplace" /\ s.next # NoId
    THEN [PlaceSent(s.next) EXCEPT !.after = s.after]
    ELSE IdleSlot

Acked(s) ==
    [s EXCEPT !.acked = TRUE,
              !.state = IF @ \in {"PendingPlace", "PendingReplace"} THEN "Open" ELSE @]

CancelSent(s) == [s EXCEPT !.state = "PendingCancel", !.after = FALSE]

\* cumulative, so a repeated or late fill cannot count twice; a fill that completes the
\* old order of a replace keeps the slot and marks the replacement
FillProgress(s, id, c) ==
    LET f == IF s.filled > c THEN s.filled ELSE c
    IN CASE s.id # id -> s
         [] s.id = id /\ f < Lots -> [s EXCEPT !.filled = f]
         [] s.id = id /\ f >= Lots /\ s.state = "PendingReplace" /\ s.next # NoId ->
               [s EXCEPT !.filled = Lots, !.after = TRUE]
         [] OTHER -> IdleSlot

\* a slot that is cleared cancels its queued ticket
Releases(a, old, new) == IF new = IdleSlot THEN Cancelled(a, Ticket(old)) ELSE a

-----------------------------------------------------------------------------
\* The strategy's freeze and safety sweep.

Spend(n) == troubles + n <= MaxTroubles /\ troubles' = troubles + n

Trouble == Spend(1)

\* request_safety_sweep: the command goes out, is refused, or was sent too recently; the
\* sweep is pending in every case, counted from the first request
Sweep(n) ==
    /\ sweep' = TRUE
    /\ snap' = IF sweep THEN snap ELSE NoSnapshot
    /\ frozen' \in {TRUE, frozen}
    /\ \/ Spend(n + 1) /\ fifo' = Append(fifo, Command("cancelAll", NoId, NoId))
       \/ /\ sweep \/ frozen' \/ troubles + n = MaxTroubles
          /\ Spend(n) /\ UNCHANGED fifo

FreezeAndSweep(n) == Sweep(n) /\ frozen' = TRUE

\* no sweep and no freeze
Calm == UNCHANGED <<sweep, frozen, fifo, snap>>

\* try_send_aster_cmd: an acknowledged order's cancel takes the priority lane, or the normal
\* one when that is full
Dispatch(s, n) ==
    LET cancel == Command("cancel", s.id, NoId) IN
    \/ s.acked /\ prio' = Append(prio, cancel) /\ UNCHANGED fifo /\ Spend(n)
    \/ fifo' = Append(fifo, cancel) /\ UNCHANGED prio /\ Spend(IF s.acked THEN n + 1 ELSE n)

\* cancel_target and the dispatch of the cancel it asks for: s is the slot as the handler
\* has left it
PullQuote(s) ==
    /\ adm' = Revoked(Releases(Cancelled(adm, Ticket(s)), slot, s))
    /\ \/ /\ sweep \/ ~Live(s)
          /\ slot' = s /\ Calm /\ UNCHANGED <<prio, troubles>>
       \/ /\ ~sweep /\ s.state = "PendingReplace"
          /\ slot' = [s EXCEPT !.after = TRUE]
          /\ Calm /\ UNCHANGED <<prio, troubles>>
       \/ /\ ~sweep /\ s.state = "PendingCancel"
          /\ slot' = s /\ Calm /\ UNCHANGED <<prio, troubles>>
       \/ /\ ~sweep /\ s.state \in {"PendingPlace", "Open", "PendingCancel"}
          /\ slot' = CancelSent(s)
          /\ Dispatch(s, IF s.state = "PendingCancel" THEN 1 ELSE 0)      \* 1: sent again
          /\ UNCHANGED <<sweep, frozen, snap>>
       \/ /\ ~sweep /\ s.state \in {"PendingPlace", "Open", "PendingCancel"}
          /\ slot' = s /\ FreezeAndSweep(1) /\ UNCHANGED prio

-----------------------------------------------------------------------------
\* Quoting: reprice_market decides for a side and dispatches.

GateOpen == mode = "run" /\ ~frozen /\ ~sweep /\ uncertain = {}

Fresh == {i \in Ids : adm[i] = "none" /\ \A j \in 1 .. i - 1 : adm[j] # "none"}

\* no current order to decide about: an empty slot, or one whose order is filled
Place ==
    /\ GateOpen /\ (~Live(slot) \/ slot.filled = Lots)
    /\ \E id \in Fresh :
         /\ slot' = PlaceSent(id)
         /\ adm' = [Cancelled(adm, Ticket(slot)) EXCEPT ![id] = "queued"]
         /\ fifo' = Append(fifo, Command("place", id, NoId))
    /\ UNCHANGED <<cov, frozen, sweep, uncertain, mode, prio, workVars, events,
                   venue, snap, troubles, forgotten>>

Replace ==
    /\ GateOpen /\ slot.state = "Open" /\ slot.filled < Lots
    /\ \E id \in Fresh :
         /\ slot' = ReplaceSent(slot, id)
         /\ adm' = [Cancelled(adm, Ticket(slot)) EXCEPT ![id] = "queued"]
         /\ fifo' = Append(fifo, Command("replace", id, slot.id))
    /\ UNCHANGED <<cov, frozen, sweep, uncertain, mode, prio, workVars, events,
                   venue, snap, troubles, forgotten>>

\* the gate is closed, or no acceptable quote: the resting order is pulled
CancelQuote ==
    /\ mode = "run" /\ Live(slot) /\ slot.filled < Lots
    /\ PullQuote(slot)
    /\ UNCHANGED <<cov, uncertain, mode, workVars, events, venue, forgotten>>

\* the gate is closed for a reason that sweeps (note_quote_gate), a residual or a breach makes
\* the strategy freeze and sweep, or a hedge that cannot be sent makes it freeze
GateCloses ==
    /\ mode = "run"
    /\ \/ troubles < MaxTroubles /\ Sweep(0) /\ adm' = Cancelled(adm, Ticket(slot))
       \/ ~frozen /\ frozen' = TRUE /\ adm' = Revoked(adm) /\ UNCHANGED <<sweep, fifo, snap, troubles>>
    /\ UNCHANGED <<slot, cov, uncertain, mode, prio, workVars, events, venue, forgotten>>

-----------------------------------------------------------------------------
\* What the strategy learns.

\* a fill of the user stream (handle_maker_fill): every permit is revoked, an increase is
\* processed and both sides are pulled
Fill ==
    /\ mode # "done"
    /\ \E id \in Ids : \E c \in 1 .. venue[id].filled :
         /\ uncertain' = IF c >= Lots THEN uncertain \ {id} ELSE uncertain
         /\ IF c > cov[id]
            THEN /\ cov' = [cov EXCEPT ![id] = c]
                 /\ PullQuote(FillProgress(slot, id, c))
            ELSE /\ uncertain' # uncertain
                 /\ adm' = Revoked(adm) /\ Calm /\ UNCHANGED <<cov, slot, prio, troubles>>
    /\ UNCHANGED <<mode, workVars, events, venue, forgotten>>

OnPlaceAck(id) ==
    /\ UNCHANGED <<adm, uncertain, cov>>
    /\ IF slot.id # id THEN slot' = slot /\ Calm /\ UNCHANGED <<prio, troubles>>
       ELSE LET s == Acked(slot) IN
            \/ /\ ~slot.after \/ sweep
               /\ slot' = s /\ Calm /\ UNCHANGED <<prio, troubles>>
            \/ /\ slot.after /\ ~sweep
               /\ slot' = CancelSent(s)
               /\ prio' = Append(prio, Command("cancel", id, NoId))
               /\ Calm /\ UNCHANGED troubles
            \/ /\ slot.after /\ ~sweep
               /\ slot' = s /\ FreezeAndSweep(1) /\ UNCHANGED prio

\* Mutant of OnClosed: the slot of a closed order is kept.
KeepSlot(id) == slot' = slot /\ UNCHANGED adm /\ Calm /\ UNCHANGED <<uncertain, cov, prio, troubles>>

OnClosed(id) ==
    /\ slot' = IF slot.id = id THEN IdleSlot ELSE slot
    /\ adm' = IF slot.id = id THEN Cancelled(adm, Ticket(slot)) ELSE adm
    /\ Calm /\ UNCHANGED <<uncertain, cov, prio, troubles>>

OnCancelAck(id) ==
    /\ slot' = IF slot.id = id THEN CancelAcked(slot) ELSE slot
    /\ adm' = Releases(adm, slot, slot')
    /\ Calm /\ UNCHANGED <<uncertain, cov, prio, troubles>>

\* the order may rest: keep the slot, freeze and sweep
OnUnknown(id) ==
    /\ uncertain' = uncertain \cup {id}
    /\ FreezeAndSweep(0) /\ adm' = Revoked(adm)
    /\ UNCHANGED <<slot, cov, prio>>

\* a sweep is pending although no CancelAllBot was sent
OnRateLimited ==
    /\ frozen' = TRUE /\ sweep' = TRUE /\ adm' = Revoked(adm)
    /\ snap' = IF sweep THEN snap ELSE NoSnapshot
    /\ UNCHANGED <<slot, uncertain, cov, prio, fifo, troubles>>

\* the answer to an order query (handle_maker_order_progress)
OnProgress(e) ==
    /\ uncertain' = IF e.kind = "Terminal" THEN uncertain \ {e.id} ELSE uncertain
    /\ IF e.cum > cov[e.id]
       THEN /\ cov' = [cov EXCEPT ![e.id] = e.cum]
            /\ \/ PullQuote(FillProgress(slot, e.id, e.cum))
               \/ FreezeAndSweep(1) /\ adm' = Revoked(adm) /\ UNCHANGED <<slot, prio>>   \* no price for it
       ELSE Calm /\ UNCHANGED <<cov, slot, adm, prio, troubles>>

ExecEvent ==
    /\ mode # "done" /\ events # <<>>
    /\ events' = Tail(events)
    /\ LET e == Head(events) IN
         \/ e.kind = "PlaceAck" /\ OnPlaceAck(e.id)
         \/ e.kind = "PlaceReject" /\ OnClosed(e.id)
         \/ e.kind = "CancelAck" /\ OnCancelAck(e.id)
         \/ e.kind \in {"PlaceUnknown", "CancelReject"} /\ OnUnknown(e.id)
         \/ e.kind = "RateLimited" /\ OnRateLimited
         \/ e.kind \in {"Terminal", "Resting"} /\ OnProgress(e)
    /\ UNCHANGED <<mode, workVars, venue, forgotten>>

-----------------------------------------------------------------------------
\* The tick: drive the sweep, then heal (from the second clean snapshot on: which one is a
\* choice here).

\* a snapshot whose reads began after the sweep was asked for shows no order of ours
SweepProven == sweep /\ uncertain = {} /\ snap = {}

InFlight(id) == venue[id].st \in {"rest", "late"} \/ (hand.op = "place" /\ hand.id = id)

Tick ==
    /\ mode # "done"
    /\ \/ /\ sweep /\ ~SweepProven
          /\ Sweep(0) /\ adm' = Revoked(adm) /\ UNCHANGED <<slot, forgotten>>
       \/ /\ sweep => SweepProven
          /\ sweep' = FALSE
          /\ IF sweep /\ Live(slot)
             THEN /\ slot' = IdleSlot /\ adm' = Cancelled(adm, Ticket(slot))
                  /\ forgotten' = forgotten \cup {i \in {slot.id, slot.next} \ {NoId} : InFlight(i)}
             ELSE UNCHANGED <<slot, adm, forgotten>>
          /\ LET clean == mode = "run" /\ uncertain = {} /\ snap = {}
             IN frozen' \in {frozen, frozen /\ ~clean}
          /\ snap' = IF frozen' \/ mode = "drain" THEN snap ELSE NoSnapshot
          /\ UNCHANGED <<fifo, troubles>>
    /\ UNCHANGED <<cov, uncertain, mode, prio, workVars, events, venue>>

-----------------------------------------------------------------------------
\* The stop: the strategy quiesces, then run.rs sends CancelAllBot and a barrier.

\* (frozen stays set from here on; mode says so)
Quiesce ==
    /\ mode = "run" /\ mode' = "drain"
    /\ PullQuote(slot)
    /\ UNCHANGED <<cov, uncertain, workVars, events, venue, forgotten>>

\* run.rs after the acknowledgement: CancelAllBot if it is configured, then the barrier
SendStop ==
    /\ mode = "drain" /\ barrier = "none" /\ barrier' = "queued"
    /\ LET stop == <<Command("barrier", NoId, NoId)>> IN
         \/ fifo' = fifo \o stop
         \/ fifo' = fifo \o <<Command("cancelAll", NoId, NoId)>> \o stop
    /\ UNCHANGED <<stratVars, prio, followup, hand, events, venue, snap, troubles, forgotten>>

\* every maker command is done, a later snapshot shows no order, nothing is uncertain and the
\* slot is empty
Finish ==
    /\ mode = "drain"
    /\ barrier = "completed" /\ snap = {}
    /\ uncertain = {} /\ events = <<>> /\ ~Live(slot)
    /\ mode' = "done"
    /\ UNCHANGED <<slot, adm, cov, frozen, sweep, uncertain, laneVars, workVars,
                   events, venue, snap, troubles, forgotten>>

-----------------------------------------------------------------------------
\* The execution worker.

NextCommand ==
    IF prio # <<>> THEN Head(prio)
    ELSE IF followup # NoCommand THEN followup
    ELSE IF fifo # <<>> THEN Head(fifo) ELSE NoCommand

KeepsUp == Len(events) < MaxEvents

TakeNext ==
    /\ KeepsUp
    /\ hand = NoCommand /\ NextCommand # NoCommand
    /\ prio' = IF prio # <<>> THEN Tail(prio) ELSE prio
    /\ followup' = IF prio # <<>> THEN followup ELSE NoCommand
    /\ fifo' = IF prio = <<>> /\ followup = NoCommand THEN Tail(fifo) ELSE fifo

Say(es) == events' = events \o es

Limited(es) == es \o <<Event("RateLimited", NoId)>>

\* reject_unsent_maker: only a cancelled ticket proves that nothing was sent
RejectUnsent(id, before, after) ==
    /\ adm' = Cancelled(adm, id)
    /\ Say(before \o (IF adm'[id] = "cancelled" THEN <<Event("PlaceReject", id)>> ELSE <<>>) \o after)

\* the worker looks at the permit of a place: its epoch and books, then its ticket
CheckPlace ==
    /\ TakeNext /\ NextCommand.op = "place"
    /\ IF adm[NextCommand.id] = "revoked"
       THEN RejectUnsent(NextCommand.id, <<>>, <<>>) /\ UNCHANGED hand
       ELSE /\ hand' = [NextCommand EXCEPT !.op = "checked"]
            /\ UNCHANGED <<adm, events>>
    /\ UNCHANGED <<slot, cov, frozen, sweep, uncertain, mode, barrier, venue,
                   snap, troubles, forgotten>>

ClaimPlace ==
    /\ hand.op = "checked"
    /\ \/ /\ adm[hand.id] \in {"queued", "revoked"}
          /\ adm' = [adm EXCEPT ![hand.id] = "claimed"]
          /\ hand' = [hand EXCEPT !.op = "place"]
          /\ UNCHANGED <<events, troubles>>
       \/ /\ adm[hand.id] = "cancelled" /\ UNCHANGED troubles
          /\ RejectUnsent(hand.id, <<>>, <<>>) /\ hand' = NoCommand
       \/ /\ adm[hand.id] # "cancelled" /\ Trouble      \* its deadline has passed
          /\ RejectUnsent(hand.id, <<>>, <<>>) /\ hand' = NoCommand
    /\ UNCHANGED <<slot, cov, frozen, sweep, uncertain, mode, laneVars, followup,
                   barrier, venue, snap, forgotten>>

\* the answer to a place: accepted, refused, or unknown with the order resting, lost, or
\* still on its way
AnswerPlace ==
    /\ hand.op = "place" /\ hand' = NoCommand
    /\ LET id == hand.id IN
         \/ /\ venue' = [venue EXCEPT ![id].st = "rest"]
            /\ Say(<<Event("PlaceAck", id)>>) /\ UNCHANGED troubles
         \/ /\ Trouble /\ venue' = [venue EXCEPT ![id].st = "refused"]
            /\ \/ Say(<<Event("PlaceReject", id)>>)
               \/ Say(Limited(<<Event("PlaceReject", id)>>))
         \/ /\ Trouble /\ \E st \in {"rest", "late", "refused"} : venue' = [venue EXCEPT ![id].st = st]
            /\ Say(<<Event("PlaceUnknown", id)>>)
    /\ UNCHANGED <<stratVars, laneVars, followup, barrier, snap, forgotten>>

Gone(v, id) == [v EXCEPT ![id].st = IF @ = "rest" THEN "gone" ELSE @]

\* what cancelling an order at the venue comes to: -2011 is answered for an order unknown or
\* gone, FILLED or EXPIRED only for one that is over
CancelOutcomes(id) ==
    IF venue[id].st = "rest" THEN {"Canceled"}
    ELSE IF venue[id].st = "gone" THEN {"AlreadyGone", "FilledOrExpired"} ELSE {"AlreadyGone"}

DoCancel ==
    /\ TakeNext /\ NextCommand.op = "cancel"
    /\ LET id == NextCommand.id IN
         \/ \E o \in CancelOutcomes(id) :
              /\ venue' = Gone(venue, id)
              /\ Say(<<Event(IF o = "FilledOrExpired" THEN "CancelReject" ELSE "CancelAck", id)>>)
              /\ UNCHANGED troubles
         \/ /\ Trouble /\ venue' \in {venue, Gone(venue, id)}
            /\ Say(<<Event("CancelReject", id)>>)
         \/ /\ Trouble /\ UNCHANGED venue
            /\ Say(Limited(<<Event("CancelReject", id)>>))
    /\ UNCHANGED <<stratVars, hand, barrier, snap, forgotten>>

\* cancel-then-place: a replacement follows only a cancel verified to have taken the old order down
PlaceFollows(o) == o = "Canceled"

DoReplace ==
    /\ KeepsUp /\ hand = NoCommand /\ NextCommand.op = "replace"
    /\ prio = <<>> /\ followup = NoCommand /\ fifo' = Tail(fifo)
    /\ LET old == NextCommand.old
           new == NextCommand.id
       IN \E o \in CancelOutcomes(old) \cup {"Unknown"} :
            /\ IF o = "Unknown" THEN Trouble /\ venue' \in {venue, Gone(venue, old)}
               ELSE venue' = Gone(venue, old) /\ UNCHANGED troubles
            /\ LET answer == Event(IF o \in {"Canceled", "AlreadyGone"} THEN "CancelAck" ELSE "CancelReject", old)
               IN IF PlaceFollows(o)
                  THEN followup' = Command("place", new, NoId) /\ Say(<<answer>>) /\ UNCHANGED adm
                  ELSE RejectUnsent(new, <<answer>>, <<>>) /\ UNCHANGED followup
    /\ UNCHANGED <<slot, cov, frozen, sweep, uncertain, mode, prio, hand, barrier, snap,
                   forgotten>>

DoCancelAll ==
    /\ TakeNext /\ NextCommand.op = "cancelAll"
    /\ \/ /\ venue' = [i \in Ids |-> Gone(venue, i)[i]] /\ UNCHANGED <<troubles, events>>
       \/ /\ Trouble /\ UNCHANGED venue
          /\ \/ UNCHANGED <<events>>
             \/ Say(Limited(<<>>))
    /\ UNCHANGED <<stratVars, hand, barrier, snap, forgotten>>

DoBarrier ==
    /\ TakeNext /\ NextCommand.op = "barrier"
    /\ barrier' = "completed" /\ snap' = NoSnapshot
    /\ UNCHANGED <<stratVars, hand, events, venue, troubles, forgotten>>

\* during a rate-limit backoff every command but the barrier is answered unsent; the first
\* refusal counts as a fault, the later ones may be of the same backoff
RefuseUnsent ==
    /\ TakeNext /\ NextCommand.op # "barrier"
    /\ IF troubles = 0 THEN Trouble ELSE UNCHANGED troubles
    /\ LET c == NextCommand IN
         CASE c.op = "place" -> RejectUnsent(c.id, <<>>, Limited(<<>>))
           [] c.op = "cancel" -> Say(Limited(<<Event("CancelReject", c.id)>>)) /\ UNCHANGED adm
           [] c.op = "replace" -> RejectUnsent(c.id, <<Event("CancelReject", c.old)>>, Limited(<<>>))
           [] OTHER -> Say(Limited(<<>>)) /\ UNCHANGED adm
    /\ UNCHANGED <<slot, cov, frozen, sweep, uncertain, mode, hand, barrier,
                   venue, snap, forgotten>>

-----------------------------------------------------------------------------
\* The venue and its readers.

VenueFill ==
    /\ \E id \in Ids :
         /\ venue[id].st = "rest"
         /\ venue' = [venue EXCEPT ![id].filled = @ + 1,
                                   ![id].st = IF venue[id].filled + 1 = Lots THEN "gone" ELSE @]
    /\ UNCHANGED <<stratVars, laneVars, workVars, events, snap, troubles, forgotten>>

\* a place whose answer was lost arrives
LateArrival ==
    /\ \E id \in Ids : venue[id].st = "late" /\ venue' = [venue EXCEPT ![id].st = "rest"]
    /\ UNCHANGED <<stratVars, laneVars, workVars, events, snap, troubles, forgotten>>

\* the dead-man countdown runs out
DeadmanFires ==
    /\ Trouble /\ \E id \in Ids : venue[id].st = "rest" /\ venue' = Gone(venue, id)
    /\ UNCHANGED <<stratVars, laneVars, workVars, events, snap, forgotten>>

\* the reconciler reads the open orders and publishes them
Snapshot ==
    /\ frozen \/ sweep \/ mode = "drain"
    /\ snap' = {i \in Ids : venue[i].st = "rest"}
    /\ UNCHANGED <<stratVars, laneVars, workVars, events, venue, troubles, forgotten>>

\* the reconciler queries an order of uncertain outcome; no answer is no evidence
Backfill ==
    /\ KeepsUp
    /\ \E id \in uncertain :
         /\ venue[id].st \in {"rest", "gone"}
         /\ \A k \in DOMAIN events : events[k].id # id
         /\ Say(<<[kind |-> IF venue[id].st = "gone" THEN "Terminal" ELSE "Resting",
                   id |-> id, cum |-> venue[id].filled]>>)
    /\ UNCHANGED <<stratVars, laneVars, workVars, venue, snap, troubles, forgotten>>

-----------------------------------------------------------------------------

Next ==
    \/ Place \/ Replace \/ CancelQuote \/ GateCloses \/ Fill \/ ExecEvent \/ Tick \/ Quiesce \/ SendStop \/ Finish
    \/ CheckPlace \/ ClaimPlace \/ AnswerPlace \/ DoCancel \/ DoReplace \/ DoCancelAll \/ DoBarrier
    \/ RefuseUnsent
    \/ VenueFill \/ LateArrival \/ DeadmanFires \/ Snapshot \/ Backfill

Spec == Init /\ [][Next]_vars

-----------------------------------------------------------------------------
Slots == [state : {"Idle", "PendingPlace", "Open", "PendingCancel", "PendingReplace"},
          id : Ids \cup {NoId}, acked : BOOLEAN, filled : 0 .. Lots,
          next : Ids \cup {NoId}, after : BOOLEAN]

Admissions == {"none", "queued", "revoked", "claimed", "cancelled"}

Commands == [op : {"place", "replace", "cancel", "cancelAll", "barrier"},
             id : Ids \cup {NoId}, old : Ids \cup {NoId}]

Events == [kind : {"PlaceAck", "PlaceReject", "PlaceUnknown", "CancelAck", "CancelReject", "RateLimited",
                   "Terminal", "Resting"}, id : Ids \cup {NoId}, cum : 0 .. Lots]

Orders == [st : {"none", "rest", "late", "refused", "gone"}, filled : 0 .. Lots]

SlotOK(s) ==
    /\ s \in Slots
    /\ s.state = "PendingReplace" <=> s.next # NoId
    /\ s.state = "Idle" <=> s = IdleSlot
    /\ s.state # "Idle" <=> s.id \in Ids
    /\ s.next = s.id => s.next = NoId
    /\ s.state \in {"Open", "PendingReplace"} => s.acked

CommandOK(c) ==
    /\ c \in Commands
    /\ c.op \in {"place", "replace", "cancel"} => c.id \in Ids
    /\ c.op = "replace" => c.old \in Ids

TypeOK ==
    /\ SlotOK(slot)
    /\ adm \in [Ids -> Admissions] /\ cov \in [Ids -> 0 .. Lots] /\ venue \in [Ids -> Orders]
    /\ sweep \in BOOLEAN /\ uncertain \subseteq Ids
    /\ mode \in {"run", "drain", "done"} /\ barrier \in {"none", "queued", "completed"}
    /\ prio \in Seq(Commands) /\ \A k \in 1 .. Len(prio) : CommandOK(prio[k]) /\ prio[k].op = "cancel"
    /\ fifo \in Seq(Commands) /\ \A k \in 1 .. Len(fifo) : CommandOK(fifo[k])
    /\ followup = NoCommand \/ (CommandOK(followup) /\ followup.op = "place")
    /\ hand = NoCommand \/ (/\ hand.op \in {"checked", "place"} /\ hand.id \in Ids
                            /\ hand = Command(hand.op, hand.id, hand.old))
    /\ events \in Seq(Events)
    /\ \A k \in 1 .. Len(events) : events[k].kind # "RateLimited" => events[k].id \in Ids
    /\ \A id \in Ids : cov[id] <= venue[id].filled

Resting(id) == venue[id].st = "rest"

Tracked(id) == id \in {slot.id, slot.next} \cup uncertain

\* No order rests at the venue unknown to the strategy: the slot holds it, or its outcome is
\* marked uncertain.  The one exception is an order that was in flight, or not yet in the
\* snapshot, when a sweep cleared the slot (see ClearedIsGone).
NoGhost == \A id \in Ids : Resting(id) => Tracked(id) \/ id \in forgotten

\* Two orders of one side never rest together: a replacement is placed only after its
\* predecessor's cancel is verified, and nothing new is placed while an outcome is open.
OneResting ==
    \A a, b \in Ids : a # b /\ Resting(a) /\ Resting(b) => {a, b} \cap forgotten # {}

\* Nothing stays half done.  With the lanes and the event queue empty, a strategy that is not
\* frozen has a slot that is empty or open: none waits for an answer that will not come.
QuietIsSettled ==
    /\ prio = <<>> /\ fifo = <<>> /\ followup = NoCommand /\ hand = NoCommand /\ events = <<>>
    /\ ~frozen /\ ~sweep /\ mode = "run"
    => slot.state \in {"Idle", "Open"}

\* The drain ends only with no order of this side at the venue and none on its way.
DrainedIsFlat == mode = "done" => \A id \in Ids : venue[id].st \notin {"rest", "late"} /\ adm[id] # "queued"

\* Nothing is left behind: one order at most rests for the side, no slot is left waiting, and a
\* drain that ended left no order.
Settles == OneResting /\ QuietIsSettled /\ DrainedIsFlat

\* What the comment of drive_safety_sweep says: a snapshot taken after the request and
\* without orders is enough to clear the slots.
ClearedIsGone == \A id \in Ids : Resting(id) => Tracked(id)

-----------------------------------------------------------------------------
(* The inductive invariant of the properties above.                         *)

\* The order can neither rest nor arrive any more.
Over(id) == adm[id] = "cancelled" \/ venue[id].st \in {"gone", "refused"}

\* The order is at the venue, on its way there, or being sent.
Out(id) == venue[id].st \in {"rest", "late"} \/ (hand.op = "place" /\ hand.id = id)

Placing(c) == c.op \in {"place", "replace"}

\* A command that will send the order waits in the worker's normal lane.
Queued(id) == \E k \in 1 .. Len(fifo) : Placing(fifo[k]) /\ fifo[k].id = id

Sending(id) == Queued(id) \/ followup.id = id \/ hand.id = id

Told(kinds, id) == \E k \in 1 .. Len(events) : events[k].kind \in kinds /\ events[k].id = id

\* A ticket that may still be claimed is the slot's; a command is sent for one order at one place.
Tickets ==
    /\ \A x \in Ids : adm[x] \in {"queued", "revoked"} => x = Ticket(slot)
    /\ \A x \in {slot.id, slot.next} \ {NoId} : adm[x] # "none"
    /\ \A x \in Ids : Sending(x) =>
         adm[x] \in {"queued", "revoked", "cancelled"} \/ (hand.op = "place" /\ hand.id = x)
    /\ \A j, k \in 1 .. Len(fifo) : Placing(fifo[j]) /\ Placing(fifo[k]) /\ fifo[j].id = fifo[k].id => j = k
    /\ \A x \in Ids : followup.id = x => ~Queued(x)
    /\ \A x \in Ids : hand.id = x => ~Queued(x) /\ followup.id # x
    /\ \A k \in 1 .. Len(prio) : adm[prio[k].id] \in {"cancelled", "claimed"}
    /\ \A k \in 1 .. Len(fifo) : fifo[k].op = "cancel" => adm[fifo[k].id] \in {"cancelled", "claimed"}

\* An order is claimed before it is sent, once.
Claims ==
    /\ \A x \in Ids : venue[x].st # "none" => adm[x] = "claimed"
    /\ hand.op = "place" => adm[hand.id] = "claimed" /\ venue[hand.id].st = "none"
    /\ \A x \in Ids : adm[x] = "claimed" => venue[x].st # "none" \/ (hand.op = "place" /\ hand.id = x)
    /\ \A x \in Ids : venue[x].filled = Lots => venue[x].st = "gone"

\* What the slot says of its order is so at the venue, and a replacement follows only a cancel
\* that took the old order down unfilled.
SlotIsTrue ==
    /\ slot.id \in Ids => slot.filled <= venue[slot.id].filled
    /\ slot.acked => venue[slot.id].st \in {"rest", "gone"}
    /\ \A k \in 1 .. Len(fifo) :
         /\ fifo[k].op = "replace" => venue[fifo[k].old].st \in {"rest", "gone"}
         /\ Placing(fifo[k]) /\ fifo[k].id = slot.next => fifo[k].op = "replace" /\ fifo[k].old = slot.id
    /\ slot.next # NoId /\ (followup.id = slot.next \/ hand.id = slot.next \/ adm[slot.next] = "claimed") =>
         venue[slot.id].st = "gone" /\ venue[slot.id].filled < Lots

\* An answer is evidence: what the strategy concludes from it is so at the venue, or the order has
\* been called uncertain before.
Evidence ==
    /\ \A k \in 1 .. Len(events) : LET e == events[k] IN
         /\ e.kind = "PlaceReject" => adm[e.id] = "cancelled" \/ venue[e.id].st = "refused"
         /\ e.kind = "PlaceAck" => venue[e.id].st \in {"rest", "gone"} /\ (slot.id = e.id => ~slot.acked)
         /\ e.kind = "PlaceAck" => \A j \in 1 .. Len(events) : events[j].kind = "PlaceAck" /\ events[j].id = e.id => j = k
         /\ e.kind = "CancelAck" =>
              \/ Over(e.id)
              \/ /\ venue[e.id].st # "none" /\ (slot.id = e.id => ~slot.acked)
                 /\ ~Told({"PlaceAck"}, e.id)
                 /\ \/ e.id \in uncertain
                    \/ \E j \in 1 .. k - 1 : events[j].kind = "PlaceUnknown" /\ events[j].id = e.id
         /\ e.kind = "Terminal" => venue[e.id].st = "gone"
         /\ e.kind \in {"Terminal", "Resting"} => e.cum <= venue[e.id].filled
    /\ \A x \in Ids : venue[x].st = "late" => x \in uncertain \/ Told({"PlaceUnknown"}, x)

\* Every order that is out is known, and two are only where a sweep forgot one.
Known ==
    /\ \A x \in Ids : Out(x) => Tracked(x) \/ x \in forgotten
    /\ \A x, y \in Ids : x # y /\ Out(x) /\ Out(y) => x \in forgotten \/ y \in forgotten
    /\ \A x \in uncertain : Out(x) /\ x \notin {slot.id, slot.next} \cup forgotten => slot = IdleSlot

\* The order's cancel waits in a lane.
Cancelling(id) ==
    \/ \E k \in 1 .. Len(prio) : prio[k].id = id
    \/ \E k \in 1 .. Len(fifo) : fifo[k].op = "cancel" /\ fifo[k].id = id

\* Nothing is out that takes down an order of the slot, but the replacement it waits for.
Uncancelled ==
    \A x \in {slot.id, slot.next} \ {NoId} :
       /\ ~Cancelling(x)
       /\ \A k \in 1 .. Len(fifo) : fifo[k].op = "replace" /\ fifo[k].old = x => fifo[k].id = slot.next

PlaceAnswers == {"PlaceAck", "PlaceReject", "PlaceUnknown"}
CancelAnswers == {"CancelAck", "CancelReject"}

\* Behind the acknowledged cancel of a replaced order comes what becomes of the replacement.
Promised ==
    \A k \in 1 .. Len(events) : events[k].kind = "CancelAck" /\ events[k].id = slot.id =>
       \/ Sending(slot.next)
       \/ \E j \in 1 .. Len(events) : j > k /\ events[j].kind \in PlaceAnswers /\ events[j].id = slot.next

\* A slot that waits has its answer on the way, or a sweep is pending.
Awaited ==
    \/ sweep
    \/ slot.state = "Idle"
    \/ slot.state = "Open" /\ Uncancelled
    \/ slot.state = "PendingPlace" /\ Uncancelled /\ (Sending(slot.id) \/ Told(PlaceAnswers, slot.id))
    \/ slot.state = "PendingCancel" /\ (Cancelling(slot.id) \/ Told(CancelAnswers, slot.id))
    \/ /\ slot.state = "PendingReplace" /\ Uncancelled /\ Promised
       /\ Queued(slot.next) \/ Told(CancelAnswers, slot.id)

\* Nothing is sent behind the barrier.
Drained ==
    /\ \A k \in 1 .. Len(fifo) : fifo[k].op = "barrier" =>
         mode # "run" /\ \A j \in 1 .. Len(fifo) : j > k => ~Placing(fifo[j])
    /\ barrier = "completed" =>
         /\ mode # "run" /\ followup = NoCommand /\ hand = NoCommand
         /\ \A k \in 1 .. Len(fifo) : ~Placing(fifo[k])
         /\ snap = {} => \A x \in Ids : venue[x].st = "rest" => x \in uncertain \/ Told({"PlaceUnknown"}, x)
    /\ mode = "done" => /\ barrier = "completed" /\ slot = IdleSlot /\ uncertain = {}
                        /\ \A x \in Ids : venue[x].st \notin {"rest", "late"}

IInv == TypeOK /\ Tickets /\ Claims /\ SlotIsTrue /\ Evidence /\ Known /\ Awaited /\ Drained
=============================================================================
