---------------------------- MODULE QuoteEngine ----------------------------
(***************************************************************************)
(* The price of an XEMM maker quote (quote_engine.rs, edge.rs, vwap.rs,    *)
(* book.rs, and the choice of books in livebot/strategy.rs): backward from *)
(* what its hedge on Lighter would fetch, behind Aster's touch, within the *)
(* capital of both legs.                                                   *)
(*                                                                         *)
(* Prices and quantities are whole numbers of a unit that both venues'     *)
(* steps are multiples of, and a basis point is one Unit-th.  A quotient   *)
(* of decimals is never rounded: it is compared by cross-multiplication.   *)
(* Of the reasons a quote is refused for there remain those that the       *)
(* strategy tells apart.                                                   *)
(***************************************************************************)
EXTENDS Integers, Sequences, FiniteSets, FiniteSetsExt

CONSTANTS
    Unit,       \* basis points in one: 10000
    Market,     \* MarketSpec: tick, step, minQty, minNotional, hlMinNotional
    Edge,       \* EdgeConfig: profit, buffers, makerFee, takerFee
    Quote,      \* QuoteEngineConfig
    Levels,     \* MAX_BOOK_LEVELS
    MaxStale    \* max_book_staleness_ms

NoBook == [bids |-> <<>>, asks |-> <<>>, exch |-> 0, age |-> MaxStale + 1]

Opposite(side) == IF side = "Buy" THEN "Sell" ELSE "Buy"
Signed(side, n) == IF side = "Buy" THEN n ELSE -n
Smaller(a, b) == IF a <= b THEN a ELSE b
Larger(a, b) == IF a >= b THEN a ELSE b
Magnitude(a) == Larger(a, -a)

\* n/d rounded to a multiple of a step
FloorTo(n, d, step) == (n \div (d * step)) * step
CeilTo(n, d, step) == -FloorTo(-n, d, step)

-----------------------------------------------------------------------------
\* Books.

\* One side of a book from the rows of a frame: the best prices, best first, each with all that
\* the rows offer at it; rows without a positive price and quantity are dropped.
BuildSide(rows, descending) ==
    LET sound == {i \in DOMAIN rows : rows[i][1] > 0 /\ rows[i][2] > 0}
        prices == {rows[i][1] : i \in sound}
        better(p) == {q \in prices : IF descending THEN q > p ELSE q < p}
        best == {p \in prices : Cardinality(better(p)) < Levels}
        at(k) == CHOOSE p \in best : Cardinality(better(p)) = k - 1
        offered(p) == MapThenSumSet(LAMBDA i : rows[i][2], {i \in sound : rows[i][1] = p})
    IN [k \in 1 .. Cardinality(best) |-> <<at(k), offered(at(k))>>]

FromLevels(bids, asks, exch, age) ==
    [bids |-> BuildSide(bids, TRUE), asks |-> BuildSide(asks, FALSE), exch |-> exch, age |-> age]

TwoSided(b) == b.bids # <<>> /\ b.asks # <<>>
Bid(b) == b.bids[1][1]
Ask(b) == b.asks[1][1]
IsCrossed(b) == TwoSided(b) /\ Bid(b) >= Ask(b)

\* executable_quote_book and fresh_quote_book
Executable(b) == TwoSided(b) /\ ~IsCrossed(b)
Fresh(b) == b.age <= MaxStale /\ Executable(b)

\* bbo_not_older_than_l2
NotOlder(bbo, l2) == l2 = NoBook \/ bbo.exch >= l2.exch

\* what a taker of the side consumes, and what a maker of the side rests behind
Taken(b, side) == IF side = "Buy" THEN b.asks ELSE b.bids
Resting(b, side) == Taken(b, Opposite(side))

\* Walks the levels for qty: what is left to take, and what was paid or fetched.
Walk(levels, qty) ==
    LET after[i \in 0 .. Len(levels)] ==
            IF i = 0 THEN [left |-> qty, cash |-> 0]
            ELSE LET q == Smaller(after[i - 1].left, levels[i][2])
                 IN [left |-> after[i - 1].left - q, cash |-> after[i - 1].cash + q * levels[i][1]]
    IN after[Len(levels)]

\* the level at which qty is there, 0 without
CoveredAt(levels, qty) ==
    LET enough == {i \in DOMAIN levels : Walk(SubSeq(levels, 1, i), qty).left = 0}
    IN IF enough = {} THEN 0 ELSE Min(enough)

-----------------------------------------------------------------------------
\* Edge.  The reference price is the mean of the two mids, kept as four times its value; a hedge
\* is a quantity and the cash of it.

Ref4(aster, hl) == Bid(aster) + Ask(aster) + Bid(hl) + Ask(hl)

RequiredBps == Edge.profit + Edge.buffers

\* net_edge_bps_after_fees_and_buffers >= min_net_profit_bps
Clears(side, px, qty, cash, ref4) ==
    LET net == IF side = "Buy" THEN cash * (Unit - Edge.takerFee) - px * qty * (Unit + Edge.makerFee)
                               ELSE px * qty * (Unit - Edge.makerFee) - cash * (Unit + Edge.takerFee)
    IN 4 * net >= RequiredBps * ref4 * qty

\* max_profitable_aster_bid and min_profitable_aster_ask, to the tick; 0 without
Bound(side, qty, cash, ref4) ==
    LET required == RequiredBps * ref4 * qty
        bid == 4 * cash * (Unit - Edge.takerFee) - required
        ask == 4 * cash * (Unit + Edge.takerFee) + required
    IN IF side = "Buy"
       THEN IF bid <= 0 THEN 0 ELSE FloorTo(bid, 4 * qty * (Unit + Edge.makerFee), Market.tick)
       ELSE CeilTo(ask, 4 * qty * (Unit - Edge.makerFee), Market.tick)

\* the slippage of a hedge from the touch stays within the limit
SlippageOk(side, touch, qty, cash) ==
    Signed(side, cash - touch * qty) * Unit <= Quote.maxSlippage * touch * qty

-----------------------------------------------------------------------------
\* Size: the desired notional within the headroom of both legs' caps and, when quotes may only
\* reduce, within what both legs hold; raised to the least that both venues take, if that fits.

Unlimited == 2 ^ 20

\* A Buy grows Aster long and Lighter short.
Headroom(side, pos, ref4) ==
    LET leg(cap, signed) == Larger(0, 4 * cap - signed * ref4)
    IN IF ~pos.enforce THEN Unlimited
       ELSE FloorTo(Smaller(leg(pos.asterCap, Signed(side, pos.aster)), leg(pos.hlCap, Signed(side, -pos.hl))),
                    ref4, Market.step)

\* max_reduce_position_qty: 0 when the side would not reduce both legs
Reducible(side, pos) ==
    LET aster == Signed(side, -pos.aster)
        hl == Signed(side, pos.hl)
    IN IF ~pos.reduceOnly \/ (pos.aster = 0 /\ pos.hl = 0) THEN Unlimited
       ELSE IF aster > 0 /\ hl > 0 THEN FloorTo(Smaller(aster, hl), 1, Market.step)
       ELSE 0

LeastQty(ref4) ==
    Larger(Market.minQty, CeilTo(4 * Larger(Market.minNotional, Market.hlMinNotional), ref4, Market.step))

\* 0: no quantity will do
Size(side, pos, ref4) ==
    LET least == LeastQty(ref4)
        room == Smaller(Headroom(side, pos, ref4), Reducible(side, pos))
        wanted == Smaller(FloorTo(4 * Quote.notional, ref4, Market.step), room)
    IN IF least > Reducible(side, pos) THEN 0
       ELSE IF wanted >= least THEN wanted
       ELSE IF Quote.clampToMinLot /\ least <= room THEN least
       ELSE 0

-----------------------------------------------------------------------------
\* The quote.

Refused(why) == [why |-> why, px |-> 0, qty |-> 0, ref4 |-> 0, hl |-> NoBook]

\* effective_aster_touch: the touch's level when it alone covers the target, else the level of the
\* depth at which it is covered; 0 without
EffectiveTouch(depth, touch, isBbo, side, target) ==
    LET top == Resting(touch, side)[1]
        at == CoveredAt(Resting(depth, side), target)
    IN IF isBbo /\ top[2] >= target THEN top[1]
       ELSE IF Fresh(depth) /\ at # 0 THEN Resting(depth, side)[at][1]
       ELSE 0

\* post-only: a tick behind the other side's touch at least; 0 when nothing pays
Price(side, touch, bound) ==
    IF bound = 0 THEN 0
    ELSE IF side = "Buy" THEN FloorTo(Smaller(Ask(touch) - Market.tick, bound), 1, Market.tick)
    ELSE CeilTo(Larger(Bid(touch) + Market.tick, bound), 1, Market.tick)

\* the gates of a priced candidate: its edge once rounded, its notional, its distance from the touch
Gated(c, px, qty, target, hedge, effective) ==
    LET distance == 4 * Unit * Larger(0, Signed(c.side, effective - px))
    IN IF px <= 0 \/ Signed(c.side, px) >= Signed(c.side, Taken(c.touch, c.side)[1][1]) THEN Refused("Unprofitable")
       ELSE IF ~Clears(c.side, px, target, hedge.cash, c.ref4) \/ qty * px < Market.minNotional
       THEN Refused("Unprofitable")
       ELSE IF effective = 0 THEN Refused("FeedStale")
       ELSE IF distance > Quote.maxDistance * c.ref4 THEN Refused("Unprofitable")
       ELSE IF distance < c.nearest * c.ref4 THEN Refused("TooClose")
       ELSE [why |-> "Quote", px |-> px, qty |-> qty, ref4 |-> c.ref4, hl |-> c.hl]

\* a quantity is priced by the hedge of a multiple of it
Priced(c, qty, target, hedge) ==
    IF hedge.left > 0 THEN Refused("NoVwap")
    ELSE IF ~SlippageOk(Opposite(c.side), Resting(c.hl, c.side)[1][1], target, hedge.cash)
    THEN Refused("Unprofitable")
    ELSE Gated(c, Price(c.side, c.touch, Bound(c.side, target, hedge.cash, c.ref4)), qty, target, hedge,
               EffectiveTouch(c.depth, c.touch, c.isBbo, c.side, target))

Sized(c, qty) ==
    LET target == qty * Larger(Quote.depthMultiple, 1)
    IN IF qty = 0 THEN Refused("Unprofitable") ELSE Priced(c, qty, target, Walk(Resting(c.hl, c.side), target))

\* compute_desired_quote_with_aster_touch_source, nearest to the touch at a given distance
DesiredQuote(depth, touch, isBbo, hl, side, pos, nearest) ==
    IF ~TwoSided(touch) \/ touch.age > MaxStale THEN Refused("FeedStale")
    ELSE IF IsCrossed(touch) \/ ~TwoSided(hl) THEN Refused("Unprofitable")
    ELSE IF hl.age > MaxStale THEN Refused("FeedStale")
    ELSE Sized([depth |-> depth, touch |-> touch, isBbo |-> isBbo, hl |-> hl, side |-> side,
                nearest |-> nearest, ref4 |-> Ref4(touch, hl)],
               Size(side, pos, Ref4(touch, hl)))

\* resting_quote_net_edge_bps at or above the least profit
StillClears(side, px, qty, hl, ref4) ==
    LET target == qty * Larger(Quote.depthMultiple, 1)
        hedge == Walk(Taken(hl, Opposite(side)), target)
    IN hedge.left = 0 /\ Clears(side, px, target, hedge.cash, ref4)

-----------------------------------------------------------------------------
\* The books of a view: per venue the depth and the faster touch.  What is stale or not executable
\* counts as missing, except Aster's depth.

Usable(b) == IF Fresh(b) THEN b ELSE NoBook

\* select_aster_touch_book; NoBook with the reason it is refused for
AsterTouch(v) ==
    LET bbo == Usable(v.asterBbo)
    IN IF bbo # NoBook /\ NotOlder(bbo, v.asterL2) THEN [book |-> bbo, isBbo |-> TRUE, why |-> "Quote"]
       ELSE [book |-> Usable(v.asterL2), isBbo |-> FALSE,
             why |-> IF Fresh(v.asterL2) THEN "Quote"
                     ELSE IF IsCrossed(v.asterL2) THEN "Unprofitable" ELSE "FeedStale"]

\* hl_bbo_depth_sufficient
DepthSufficient(bbo, hedgeSide, qty) == Taken(bbo, hedgeSide)[1][2] >= qty * Larger(Quote.depthMultiple, 1)

\* compute_desired_quote_select_books: Lighter's touch, unless it is older than the depth or too
\* thin to take the hedge, and then the depth
Deeper(side, bbo, l2, onBbo, onL2) ==
    IF /\ bbo # NoBook /\ NotOlder(bbo, l2) /\ onBbo.why # "NoVwap"
       /\ onBbo.why = "Quote" => DepthSufficient(bbo, Opposite(side), onBbo.qty)
    THEN onBbo
    ELSE IF l2 = NoBook THEN Refused("FeedStale")
    ELSE onL2

SelectedQuote(v, side, pos, nearest) ==
    LET touch == AsterTouch(v)
        on(hl) == DesiredQuote(v.asterL2, touch.book, touch.isBbo, hl, side, pos, nearest)
    IN IF touch.why # "Quote" THEN Refused(touch.why)
       ELSE Deeper(side, Usable(v.hlBbo), Usable(v.hlL2), on(Usable(v.hlBbo)), on(Usable(v.hlL2)))
=============================================================================
