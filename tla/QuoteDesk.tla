----------------------------- MODULE QuoteDesk -----------------------------
(***************************************************************************)
(* How the XEMM strategy keeps one side of one market quoted               *)
(* (livebot/strategy.rs, reprice_market and apply_decision): what it       *)
(* decides on the books it sees, and which command it may afford to send.  *)
(* The commands of the last minute are counted twice, against Aster's      *)
(* request budget, which keeps a reserve for cancels, and against the      *)
(* market's replacements; a quote pulled or refused for being too close to *)
(* the touch holds its side back until it would be placed well clear of    *)
(* it, or for a while.                                                     *)
(*                                                                         *)
(* Times are counted in ticks.  What closes the maker gate, and what the   *)
(* venue makes of an order beyond taking it or dropping it, is             *)
(* MakerOrders'; whether the margin allows an order is MarginRoom's.       *)
(***************************************************************************)
EXTENDS HedgePricing

CONSTANTS
    Views,      \* what the books may show, numbered: per venue the depth and the touch
    Positions,  \* PositionContext: what the position and the caps may be
    Markets,    \* |markets|, the cost of a CancelAllBot
    Cap, Reserve, MaxReplaces, \* per window: requests, the reserve of them, replacements
    Window, Rearming, Backoff, Suppression, Pace, Retry \* in ticks

VARIABLES
    side,
    view,       \* the number of what the books show
    order,      \* the slot: its state, price and quantity, and its replacement's
    latch,      \* ticks since the touch guard latched, or NoLatch
    sent,       \* the commands of the window: how many of a kind, by their age
    backoff,    \* ticks left of a rate limit
    suppressed, \* ticks left of a margin suppression
    sweep       \* ticks since the pending sweep's last attempt, or NoSweep

vars == <<side, view, order, latch, sent, backoff, suppressed, sweep>>

NoLatch == -1
NoSweep == -1
Kinds == {"place", "replace", "cancel", "sweep"}
Nothing == [k \in Kinds |-> 0]
Idle == [state |-> "idle", px |-> 0, qty |-> 0, nextPx |-> 0, nextQty |-> 0]

Init ==
    /\ side \in {"Buy", "Sell"} /\ view \in DOMAIN Views
    /\ order = Idle /\ latch = NoLatch /\ sent = [a \in 0 .. Window |-> Nothing]
    /\ backoff = 0 /\ suppressed = 0 /\ sweep = NoSweep

\* what the cells' integer books show
Hot == [v \in DOMAIN Views |-> HotView(Views[v])]

Live == order.state # "idle"
Seen == Views[view]

\* how many of some kinds were sent in a range of ages
Count(kinds, ages) == MapThenSumSet(LAMBDA c : sent[c[2]][c[1]], kinds \X ages)

-----------------------------------------------------------------------------
\* The budget.

\* Mutant of Cost: a replacement is counted as one request.
FlatCost(kind) == IF kind = "sweep" THEN Markets ELSE 1

\* aster_command_cost
Cost(kind) == CASE kind = "replace" -> 2 [] kind = "sweep" -> Markets [] OTHER -> 1

Used == MapThenSumSet(LAMBDA k : Cost(k) * Count({k}, 0 .. Window), Kinds)

\* aster_budget_allows
BudgetAllows(optional, cost) ==
    backoff = 0 /\ Used + cost <= IF optional THEN Cap - Reserve ELSE Cap

\* replace_rate_ok: every place, replacement and cancel of the market counts
RateOk == Count(Kinds \ {"sweep"}, 0 .. Window) < MaxReplaces

\* throttle_ok
ThrottleOk == Count({"place", "replace"}, 0 .. Pace - 1) = 0

\* try_send_aster_cmd on a queue
Outcome(optional, kind, queue) ==
    IF ~BudgetAllows(optional, Cost(kind)) THEN "blocked" ELSE IF queue = "full" THEN "full" ELSE "sent"

Record(kind) == sent' = [sent EXCEPT ![0][kind] = @ + 1]

\* freeze_and_sweep after a command could not be sent: neither can the CancelAllBot, which is tried
FreezeAndSweep == sweep' = 0 /\ UNCHANGED sent

-----------------------------------------------------------------------------
\* The decision (evaluate_side_with_hl_sources).

LatchActive == ~Live /\ latch # NoLatch /\ latch < Rearming

HysteresisOn == Quote.minDistance > 0 /\ Quote.hysteresis > 0

\* quote_cfg_for_touch_guard
Nearest == IF LatchActive THEN Quote.minDistance + Quote.hysteresis ELSE Quote.minDistance

Decision(do, why, px, qty) == [do |-> do, why |-> why, px |-> px, qty |-> qty]

\* what a live order comes to beside the quote that is now desired
Requote(d) ==
    LET moved == Magnitude(order.px - d.px)
        replace(why) == Decision("replace", why, d.px, d.qty)
    IN IF Quote.replaceUnprofitable /\ ~StillClears(side, order.px, order.qty, d.hl, d.ref4)
       THEN replace("Unprofitable")
       ELSE IF moved * Unit < Quote.minRequote * order.px /\ order.qty = d.qty
       THEN Decision("hold", "deadband", 0, 0)
       ELSE IF moved >= Quote.requoteTicks * Market.tick THEN replace("PriceChanged")
       ELSE IF order.qty # d.qty THEN replace("QuantityChanged")
       ELSE Decision("hold", "threshold", 0, 0)

Evaluate(may, d) ==
    LET pull(why) == Decision(IF Live THEN "cancel" ELSE "hold", why, 0, 0)
    IN IF ~may THEN pull("FeedStale")
       ELSE IF d.why # "Quote" THEN pull(d.why)
       ELSE IF Live THEN Requote(d)
       ELSE Decision("place", "Quote", d.px, d.qty)

-----------------------------------------------------------------------------
\* What is done about it (apply_decision_with_books).

\* cancel_target: nothing while a sweep is pending, or a cancel or a replacement is on its way
CancelTarget ==
    /\ sweep = NoSweep
    /\ \/ order.state \in {"placing", "open"}
       \/ order.state = "cancelling" /\ Count({"cancel"}, 0 .. Retry - 1) = 0

Latched == IF latch = NoLatch /\ HysteresisOn THEN 0 ELSE latch

Cancel(queue, why) ==
    IF ~CancelTarget THEN UNCHANGED <<order, latch, sent, sweep>>
    ELSE IF Outcome(FALSE, "cancel", queue) = "sent"
    THEN /\ order' = [order EXCEPT !.state = "cancelling"] /\ Record("cancel")
         /\ latch' = (IF why = "TooClose" THEN Latched ELSE latch)
         /\ UNCHANGED sweep
    ELSE FreezeAndSweep /\ UNCHANGED <<order, latch>>

\* an idle side's refusal latches, and an expired latch has been cleared by then
Hold(why) ==
    LET cleared == IF ~Live /\ ~LatchActive THEN NoLatch ELSE latch
    IN /\ latch' = IF ~Live /\ why = "TooClose" /\ cleared = NoLatch /\ HysteresisOn THEN 0 ELSE cleared
       /\ UNCHANGED <<order, sent, sweep>>

Place(queue, room, d) ==
    IF room /\ suppressed = 0 /\ RateOk /\ queue = "ok" /\ Outcome(TRUE, "place", queue) = "sent"
    THEN /\ order' = [Idle EXCEPT !.state = "placing", !.px = d.px, !.qty = d.qty]
         /\ Record("place") /\ latch' = NoLatch /\ UNCHANGED sweep
    ELSE Hold("Quote")

Replace(queue, room, reduceOnly, d) ==
    LET urgent == d.why = "Unprofitable"
        strained == queue # "ok" \/ ~BudgetAllows(TRUE, 2)
    IN IF ~room THEN Cancel(queue, "margin")
       ELSE IF suppressed > 0 THEN Hold("suppressed")
       ELSE IF reduceOnly /\ urgent THEN Cancel(queue, d.why)
       ELSE IF \/ ~urgent /\ ~ThrottleOk
               \/ ~RateOk \/ order.state # "open" \/ sweep # NoSweep
       THEN Hold("paced")
       ELSE IF strained THEN IF urgent THEN Cancel(queue, "backpressure") ELSE Hold("backpressure")
       ELSE /\ order' = [order EXCEPT !.state = "replacing", !.nextPx = d.px, !.nextQty = d.qty]
            /\ Record("replace") /\ latch' = NoLatch /\ UNCHANGED sweep

\* A pricing of the side, with the gate open or closed: a sweep closes it.
Reprice ==
    /\ \E may \in {sweep = NoSweep, FALSE}, pos \in Positions :
         \E d \in {Evaluate(may, SelectedQuote(Seen, side, pos, Nearest))} :
            \/ d.do = "hold" /\ Hold(d.why)
            \/ d.do = "cancel" /\ \E queue \in {"ok", "full"} : Cancel(queue, d.why)
            \/ \E queue \in {"ok", "low", "full"}, room \in BOOLEAN :
                 \/ d.do = "place" /\ Place(queue, room, d)
                 \/ d.do = "replace" /\ Replace(queue, room, pos.reduceOnly, d)
    /\ UNCHANGED <<side, view, backoff, suppressed>>

\* The precheck of a wakeup, on integer books that may be ahead of the view.
FastCancel ==
    /\ CancelTarget
    /\ \E v \in DOMAIN Views : CancelsFast(Hot[v], side, Live, order.px)
    /\ \E queue \in {"ok", "full"} : Cancel(queue, "precheck")
    /\ UNCHANGED <<side, view, backoff, suppressed>>

\* request_safety_sweep: the gate closes on a cause that asks for one, or a pending one is retried
RequestSafetySweep ==
    /\ sweep = NoSweep \/ sweep >= Retry
    /\ \E queue \in {"ok", "full"} :
         IF Outcome(FALSE, "sweep", queue) = "sent" THEN Record("sweep") ELSE UNCHANGED sent
    /\ sweep' = 0
    /\ UNCHANGED <<side, view, order, latch, backoff, suppressed>>

\* drive_safety_sweep: a snapshot read since shows none of the bot's orders
SweepConfirmed ==
    /\ sweep # NoSweep
    /\ sweep' = NoSweep /\ order' = Idle
    /\ UNCHANGED <<side, view, latch, sent, backoff, suppressed>>

-----------------------------------------------------------------------------
\* The worker, the venue and the clock.

PlaceAck ==
    /\ order.state = "placing"
    /\ order' = [order EXCEPT !.state = "open"]
    /\ UNCHANGED <<side, view, latch, sent, backoff, suppressed, sweep>>

\* PlaceReject: for want of margin, the side is suppressed
PlaceReject ==
    /\ order.state = "placing"
    /\ order' = Idle
    /\ suppressed' \in {suppressed, Suppression}
    /\ UNCHANGED <<side, view, latch, sent, backoff, sweep>>

\* the old order is out of the book: the slot is its replacement's, or empty
CancelAck ==
    /\ order.state \in {"cancelling", "replacing"}
    /\ order' = IF order.state = "cancelling" THEN Idle
                ELSE [Idle EXCEPT !.state = "placing", !.px = order.nextPx, !.qty = order.nextQty]
    /\ UNCHANGED <<side, view, latch, sent, backoff, suppressed, sweep>>

\* filled in full, or expired
Gone ==
    /\ order.state \in {"open", "cancelling"}
    /\ order' = Idle
    /\ UNCHANGED <<side, view, latch, sent, backoff, suppressed, sweep>>

\* on_aster_rate_limited
RateLimited ==
    /\ Used > 0 /\ backoff = 0
    /\ backoff' = Backoff /\ sweep' = IF sweep = NoSweep THEN 0 ELSE sweep
    /\ UNCHANGED <<side, view, order, latch, sent, suppressed>>

Books ==
    /\ view' \in DOMAIN Views \ {view}
    /\ UNCHANGED <<side, order, latch, sent, backoff, suppressed, sweep>>

Aged(age, most) == IF age = -1 THEN -1 ELSE Smaller(age + 1, most)

Tick ==
    /\ sent' = [a \in 0 .. Window |-> IF a = 0 THEN Nothing ELSE sent[a - 1]]
    /\ latch' = Aged(latch, Rearming)
    /\ sweep' = Aged(sweep, Retry)
    /\ backoff' = Larger(backoff - 1, 0) /\ suppressed' = Larger(suppressed - 1, 0)
    /\ UNCHANGED <<side, view, order>>

Next ==
    \/ Reprice \/ FastCancel \/ RequestSafetySweep \/ SweepConfirmed
    \/ PlaceAck \/ PlaceReject \/ CancelAck \/ Gone \/ RateLimited \/ Books \/ Tick

Spec == Init /\ [][Next]_vars

-----------------------------------------------------------------------------
\* What the worker asks of Aster for a command: a replacement is a cancel and a place.
Requests(kind) == CASE kind = "replace" -> {"cancel", "place"} [] kind = "sweep" -> 1 .. Markets [] OTHER -> {kind}

Asked == MapThenSumSet(LAMBDA k : Cardinality(Requests(k)) * Count({k}, 0 .. Window), Kinds)

\* Aster is never asked more than its cap in a window.
CapHolds == Asked <= Cap

Command(kinds) == \E k \in kinds : sent'[0][k] > sent[0][k]

Entered == Command({"place", "replace"})

EnteredPx == IF order'.state = "placing" THEN order'.px ELSE order'.nextPx
EnteredQty == IF order'.state = "placing" THEN order'.qty ELSE order'.nextQty

\* Only cancels draw on the reserve, and nothing is sent while Aster has asked to be left alone.
ReserveIsKept == Command(Kinds) => backoff = 0 /\ (Entered => Asked' <= Cap - Reserve)

\* the cash of trading q at px on Aster and hedging it through a Lighter book, after fees: enough
\* for the profit and the buffers
Pays(px, q, hl, touch) ==
    LET hedge == Walk(Taken(hl, Opposite(side)), q)
        paid == IF side = "Buy" THEN px * q ELSE hedge.cash
        got == IF side = "Buy" THEN hedge.cash ELSE px * q
        fees == px * q * Edge.makerFee + hedge.cash * Edge.takerFee
    IN hedge.left = 0 /\ 4 * ((got - paid) * Unit - fees) >= RequiredBps * Ref4(touch, hl) * q

\* the quantity a book shows on the order's side at least a distance better than the order's price
Ahead(b, px, distance, ref4) ==
    LET better == {i \in DOMAIN Resting(b, side) :
                     4 * Unit * Signed(side, Resting(b, side)[i][1] - px) >= distance * ref4}
    IN MapThenSumSet(LAMBDA i : Resting(b, side)[i][2], better)

\* A quote that is sent can be hedged for its profit through a fresh Lighter book, is large enough
\* for both venues, and rests behind Aster's newest fresh touch and, by the guarded distance, behind
\* a multiple of its own quantity: the wider distance while a latch is younger than Rearming.
QuoteIsBacked ==
    Entered =>
        \E hl \in {Seen.hlBbo, Seen.hlL2}, touch \in {Seen.asterBbo, Seen.asterL2},
           depth \in {Seen.asterBbo, Seen.asterL2} :
             LET ref4 == Ref4(touch, hl)
                 latched == order.state = "idle" /\ latch \in 0 .. Rearming - 1
                 distance == Quote.minDistance + IF latched THEN Quote.hysteresis ELSE 0
             IN /\ Fresh(hl) /\ Fresh(touch) /\ Fresh(depth)
                /\ Pays(EnteredPx, EnteredQty, hl, touch)
                /\ EnteredQty >= LeastQty(ref4)
                /\ NotOlder(touch, Seen.asterL2)
                /\ Signed(side, EnteredPx) < Signed(side, Taken(touch, side)[1][1])
                /\ Ahead(depth, EnteredPx, distance, ref4) >= EnteredQty * Quote.depthMultiple

\* A hedge is priced at a fresh book of the view, at the touch only when it covers the quantity and
\* is as new as the depth, and always when the depth is fresh.
HedgeIsPriced ==
    order = Idle /\ Used = 0 =>
        \A hot \in DOMAIN Views, s \in {"Buy", "Sell"} :
            \E b \in {HotFirst(Seen, Hot[hot], s, Market.minQty)} :
               /\ b # NoBook => Fresh(b) /\ b \in {Seen.hlBbo, Seen.hlL2}
               /\ b = NoBook => ~Fresh(Seen.hlL2)
               /\ b = Seen.hlBbo /\ b # NoBook /\ b # Seen.hlL2 =>
                    NotOlder(b, Seen.hlL2) /\ Walk(Taken(b, s), Market.minQty).left = 0

QuotesHold == [](CapHolds /\ HedgeIsPriced) /\ [][ReserveIsKept /\ QuoteIsBacked]_vars
=============================================================================
