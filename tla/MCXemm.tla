------------------------------- MODULE MCXemm -------------------------------
(***************************************************************************)
(* XEMM's models, one scenario each: the orders of one side of one market, *)
(* the hedges of its fills, the margin kept for both, the pricing and      *)
(* sending of a quote, and the session around them; and the two servers of *)
(* the dry run it is tried against, the feed it is shown and what a venue  *)
(* keeps of a client.  A scenario takes the steps of one model; the others *)
(* stay as they start.                                                     *)
(***************************************************************************)
EXTENDS MakerOrders, MarginRoom, XemmSession, HedgeLedger

\* the margin: Aster's leg has more equity, and a buffer
MCEquity == [l \in Legs |-> IF l = "Aster" THEN 4 ELSE 3]
MCBuffer == [l \in Legs |-> IF l = "Aster" THEN 1 ELSE 0]
MCCap == [l \in Legs |-> 5]

\* the session: 0 is a garbage read, and a loss of 2 breaches
MCEquities == {0, 1, 3}

\* the quotes: a basis point is a thousandth, a lot is two
Unit == 1000
Market == [tick |-> 2, step |-> 2, minQty |-> 2, minNotional |-> 100, hlMinNotional |-> 100]
Edge == [profit |-> 5, buffers |-> 2, makerFee |-> 1, takerFee |-> 1]
Quote == [notional |-> 250, maxDistance |-> 100, minDistance |-> 20, hysteresis |-> 20, depthMultiple |-> 2,
          maxSlippage |-> 30, requoteTicks |-> 1, minRequote |-> 10, clampToMinLot |-> TRUE,
          replaceUnprofitable |-> TRUE]
Levels == 2
MaxStale == 1
HedgeStep == 1

E == INSTANCE QuoteEngine

Touch(bid, ask, q, exch) == E!FromLevels(<<<<bid, q>>>>, <<<<ask, q>>>>, exch, 0)
Depth == E!FromLevels(<<<<98, 3>>, <<100, 1>>, <<100, 1>>, <<98, 1>>, <<90, 9>>, <<0, 5>>>>,
                      <<<<104, 2>>, <<106, 4>>, <<108, 0>>>>, 1, 0)
Shown(bid, ask) == [asterL2 |-> Depth, asterBbo |-> Touch(100, 104, 4, 1),
                    hlL2 |-> Touch(bid, ask, 9, 1), hlBbo |-> Touch(bid, ask, 4, 1)]

\* calm, too close, further; Lighter's touch too thin, older than the depth, everything of it stale;
\* Aster's touch crossed, and too thin beside a stale depth
Views == <<
    Shown(97, 107), Shown(99, 105), Shown(95, 109),
    [Shown(97, 107) EXCEPT !.hlBbo = Touch(99, 105, 3, 2)],
    [Shown(97, 107) EXCEPT !.hlBbo = Touch(99, 105, 4, 1), !.hlL2 = Touch(97, 107, 4, 2)],
    [Shown(97, 107) EXCEPT !.hlBbo.age = 2, !.hlL2.age = 2],
    [Shown(97, 107) EXCEPT !.asterBbo = Touch(104, 104, 4, 2)],
    [Shown(97, 107) EXCEPT !.asterBbo = Touch(100, 104, 2, 2), !.asterL2.age = 2]>>

\* flat, and holding both legs with quotes that may only reduce them
Positions == {
    [aster |-> 0, hl |-> 0, asterCap |-> 1000, hlCap |-> 1000, enforce |-> TRUE, reduceOnly |-> FALSE],
    [aster |-> 8, hl |-> -8, asterCap |-> 1000, hlCap |-> 1000, enforce |-> TRUE, reduceOnly |-> TRUE]}

VARIABLES
    scenario,
    \* QuoteDesk
    side, view, order, guarded, sent, backoff, suppressed, sweeping,
    \* SimFeed, SimServers
    now, sequence, upstreams, gapped, dueAt, queue, served, lastId, conn,
    part, status, flight, private, shown, untold, clock, recent, uses, key, streams

Q == INSTANCE QuoteDesk WITH
    latch <- guarded, sweep <- sweeping,
    Markets <- 2, Cap <- 4, Reserve <- 1, MaxReplaces <- 3,
    Window <- 1, Rearming <- 2, Backoff <- 1, Suppression <- 1, Pace <- 1, Retry <- 1

F == INSTANCE SimFeed WITH
    pending <- queue, sessions <- upstreams,
    Streams <- {"a"}, Shift <- 1, Fanout <- 1, MaxQueued <- 1, MaxFrame <- 3, MaxTime <- 3, MaxSessions <- 2

V == INSTANCE SimServers WITH
    now <- clock, Orders <- {"x", "y"}, Events <- 1, Kept <- 2, Near <- 2, Ttl <- 2, Conns <- {1, 2},
    MaxTime <- 4, MaxKeys <- 2, MaxFlight <- 2

ASSUME MarginRoomAssumption /\ MakerOrdersAssumption /\ HedgeLedgerAssumption /\ XemmSessionAssumption

quoteVars == <<side, view, order, guarded, sent, backoff, suppressed, sweeping>>

feedVars == <<now, sequence, upstreams, gapped, dueAt, queue, served, lastId, conn>>

serverVars == <<part, status, flight, private, shown, untold, clock, recent, uses, key, streams>>

XInit ==
    /\ scenario \in {"orders", "hedges", "session", "margin", "quotes", "feed", "servers"}
    /\ Init /\ MarginInit /\ LedgerInit /\ XemmInit /\ Q!Init /\ F!Init /\ V!Init
    /\ scenario # "session" => ~exposed
    /\ scenario # "quotes" => side = "Buy" /\ view = 1
    /\ scenario # "servers" => part = "account"

MakersRest == UNCHANGED <<vars, ledgerVars, marginVars>>
DryRunRests == UNCHANGED <<feedVars, serverVars>>

MakerNext ==
    /\ scenario = "orders" /\ Next
    /\ UNCHANGED <<scenario, ledgerVars, xemmVars, marginVars, quoteVars>> /\ DryRunRests

HedgeNext ==
    /\ scenario = "hedges" /\ LedgerNext
    /\ UNCHANGED <<scenario, vars, xemmVars, marginVars, quoteVars>> /\ DryRunRests

SessionNext ==
    /\ scenario = "session" /\ XemmNext /\ UNCHANGED <<scenario, quoteVars>> /\ MakersRest /\ DryRunRests

RoomNext ==
    /\ scenario = "margin" /\ MarginNext
    /\ UNCHANGED <<scenario, vars, ledgerVars, xemmVars, quoteVars>> /\ DryRunRests

QuoteNext ==
    /\ scenario = "quotes" /\ Q!Next /\ UNCHANGED <<scenario, xemmVars>> /\ MakersRest /\ DryRunRests

FeedNext ==
    /\ scenario = "feed" /\ F!Next /\ UNCHANGED <<scenario, xemmVars, quoteVars, serverVars>> /\ MakersRest

ServerNext ==
    /\ scenario = "servers" /\ V!Next /\ UNCHANGED <<scenario, xemmVars, quoteVars, feedVars>> /\ MakersRest

XNext == MakerNext \/ HedgeNext \/ SessionNext \/ RoomNext \/ QuoteNext \/ FeedNext \/ ServerNext

XSpec ==
    XInit /\ [][XNext]_<<scenario, vars, ledgerVars, xemmVars, marginVars, quoteVars, feedVars, serverVars>>

-----------------------------------------------------------------------------
\* QuoteDesk: the request budget and its reserve hold, and what is quoted can be hedged at a profit.
QuotesHold ==
    /\ [](scenario = "quotes" => Q!CapHolds /\ Q!HedgeIsPriced)
    /\ [][scenario = "quotes" => Q!ReserveIsKept /\ Q!QuoteIsBacked]_<<scenario, quoteVars>>

\* SimFeed: the simulated feed is without holes, and nothing is known before it is due.
\* SimServers: what a client is shown becomes what the venue has, a nonce is taken once, and a
\* listen key is shared.
DryRunServes == F!ServedInSequence /\ V!ServersKeepTrack
=============================================================================
