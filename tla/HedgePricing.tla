---------------------------- MODULE HedgePricing ----------------------------
(***************************************************************************)
(* What the XEMM strategy reads beside the exact quote: the integer books  *)
(* (livebot/scale.rs, hot_types.rs) and the precheck made on them          *)
(* (livebot/precheck.rs), and the Lighter book a fill's hedge is priced at *)
(* (livebot/strategy.rs).  A view v is what the cells have published in    *)
(* decimals, and hot what they have published in integers: the integer     *)
(* book goes first, so it may be the newer of the two (BookCell).          *)
(***************************************************************************)
EXTENDS QuoteEngine

CONSTANT HedgeStep  \* hl_qty_step

\* units_from_parts: prices to the nearest tick, halves up, and quantities down to whole lots
Ticks(px) == (px + Market.tick \div 2) \div Market.tick
InLots(qty, step) == qty \div step
LotsCeil(qty, step) == -((-qty) \div step)

\* The levels of an integer book: what rounds to the same tick is one level, what rounds to
\* nothing is dropped.
HotSide(levels, step, descending) ==
    BuildSide([i \in DOMAIN levels |-> <<Ticks(levels[i][1]), InLots(levels[i][2], step)>>], descending)

HotBook(b, step) ==
    IF b = NoBook THEN NoBook
    ELSE [bids |-> HotSide(b.bids, step, TRUE), asks |-> HotSide(b.asks, step, FALSE),
          exch |-> b.exch, age |-> b.age]

HotView(v) ==
    [asterL2 |-> HotBook(v.asterL2, Market.step), asterBbo |-> HotBook(v.asterBbo, Market.step),
     hlL2 |-> HotBook(v.hlL2, HedgeStep), hlBbo |-> HotBook(v.hlBbo, HedgeStep)]

-----------------------------------------------------------------------------
\* The precheck: only cancels, and only on what needs no exact price.

\* select_aster_hot_for_precheck and select_hl_hot_for_precheck
ForPrecheck(l2, bbo) == IF Fresh(bbo) /\ NotOlder(bbo, l2) THEN bbo ELSE l2

\* hot_precheck_side, of an order at px if one is live
CancelsFast(hot, side, live, px) ==
    LET aster == ForPrecheck(hot.asterL2, hot.asterBbo)
        hl == ForPrecheck(hot.hlL2, hot.hlBbo)
    IN /\ aster # NoBook /\ hl # NoBook
       /\ \/ Resting(aster, side) = <<>> \/ Resting(hl, side) = <<>>
          \/ ~Executable(aster) \/ ~Executable(hl)
          \/ aster.age > MaxStale \/ hl.age > MaxStale
          \/ live /\ Signed(side, Ticks(px)) >= Signed(side, Taken(aster, side)[1][1])

-----------------------------------------------------------------------------
\* The hedge's book.

\* fresh_hl_hedge_book: the touch when it is deep enough for the quantity, else the depth
HedgeBook(v, side, qty) ==
    IF Fresh(v.hlBbo) /\ NotOlder(v.hlBbo, v.hlL2) /\ DepthSufficient(v.hlBbo, side, qty)
    THEN v.hlBbo ELSE Usable(v.hlL2)

\* fresh_hl_hedge_hot: the same choice among the integer books
HotSource(hot, side, qty) ==
    LET lots == LotsCeil(qty * Larger(Quote.depthMultiple, 1), HedgeStep)
    IN IF Fresh(hot.hlBbo) /\ NotOlder(hot.hlBbo, hot.hlL2) /\ Taken(hot.hlBbo, side)[1][2] >= lots THEN "bbo"
       ELSE IF Fresh(hot.hlL2) THEN "l2"
       ELSE "none"

\* hydrate_hl_hot_hedge_book: the decimal book of the integer one that was chosen, once it is out;
\* NoBook before
Hydrated(v, hot, source, side, qty) ==
    IF /\ source = "bbo" /\ Fresh(v.hlBbo) /\ v.hlBbo.exch >= hot.hlBbo.exch
       /\ NotOlder(v.hlBbo, v.hlL2) /\ DepthSufficient(v.hlBbo, side, qty)
    THEN v.hlBbo
    ELSE IF source = "l2" /\ Fresh(v.hlL2) /\ v.hlL2.exch >= hot.hlL2.exch THEN v.hlL2
    ELSE NoBook

\* fresh_hl_hedge_book_hot_first
HotFirst(v, hot, side, qty) ==
    LET hydrated == Hydrated(v, hot, HotSource(hot, side, qty), side, qty)
    IN IF hydrated # NoBook THEN hydrated ELSE HedgeBook(v, side, qty)

\* fresh_hl_quote_book, for a hedge of unknown quantity
QuoteBook(v) == IF Fresh(v.hlBbo) THEN v.hlBbo ELSE Usable(v.hlL2)

\* crossing_hedge_px times Unit: past the touch by the slippage it may cost
CrossingPx(b, side, slippage) ==
    LET touch == Taken(b, side)[1][1]
    IN touch * Unit + Signed(side, touch * slippage)
=============================================================================
