----------------------------- MODULE MCController -----------------------------
(***************************************************************************)
(* What the controller decides and counts with, one scenario each: the     *)
(* thresholds of the regime switch, the equity baseline (with files that   *)
(* work and files that fail), the tailed ledger and journal, and the       *)
(* summary of XEMM's journal; and the dry run it can be tried against, its *)
(* matching core and its clock.  A scenario takes the steps of one model.  *)
(***************************************************************************)
EXTENDS Hysteresis, EquityBaseline, RealizedTrades

\* the regime switch: a clip of 2, blocked below 2, ready from 4, and 3 inside the band
Binding  == [edge |-> 1, effect |-> "increase", limit |-> "margin"]
Reducing == [edge |-> 1, effect |-> "reduce", limit |-> "ok"]

MCReports ==
    [required : {1}, opportunities : {{}, {Binding}, {Reducing}}, clip : {2},
     headroom : {1, 3, 4, Unknown}, available : {1, 3, 4}, buffer : {0}, position : {2, 5}]

MCXemmStatus == [position |-> 5, clip |-> 2, reduceOnly |-> TRUE]

\* the equity baseline: a loss of 2, a gap of three ticks
MCEquities == 0 .. 3

\* the tailed files: rows of two keys and one before the start, and one trade of XEMM
In(v2, confirmed, gross, net) ==
    [v2 |-> v2, confirmed |-> confirmed, gross |-> gross, fees |-> 1, net |-> net]
LedgerRow(key, old, impact) == [key |-> key, old |-> old, impact |-> impact]

MCRows ==
    {LedgerRow("a", FALSE, In(TRUE, TRUE, 3, 2)), LedgerRow("b", FALSE, In(TRUE, FALSE, -1, -2)),
     LedgerRow("c", TRUE, In(TRUE, TRUE, 3, 2))}

MCXemmImpacts == {In(TRUE, FALSE, 3, 2), In(TRUE, TRUE, 0, -1), In(FALSE, TRUE, 0, -1)}

MCTrades == {"x"}

\* the summary: an Aster maker attempt with two trades, an Aster correction and two Lighter
\* hedges; prices in twelfths.  A trade comes with and without its fee, and an order's last quantity
\* with and without its fee and its end.
Row(kind, venue, id, attempt, side, qty, px, fee, terminal) ==
    [kind |-> kind, venue |-> venue, id |-> id, attempt |-> attempt, side |-> side, qty |-> qty,
     quote |-> IF px = Unknown THEN Unknown ELSE qty * px, fee |-> fee, terminal |-> terminal]

JournalRows == {
    Row("fill", "aster", 1, "m", 1, 1, 1200, 1, FALSE),
    Row("fill", "aster", 2, "m", 1, 2, 1320, Unknown, FALSE),
    Row("fill", "aster", 2, "m", 1, 2, 1320, 2, FALSE),
    Row("fill", "aster", 3, "c", -1, 2, 1080, 1, FALSE),
    Row("fill", "lighter", 4, "h", -1, 2, 1260, 1, FALSE),
    Row("fill", "lighter", 5, "k", 1, 3, 1440, 1, FALSE),
    Row("progress", "lighter", 0, "h", -1, 1, 1260, 1, FALSE),
    Row("progress", "lighter", 0, "h", -1, 3, 1260, 3, TRUE),
    Row("progress", "lighter", 0, "h", -1, 3, 1260, Unknown, FALSE),
    Row("unidentified", "lighter", 0, "h", -1, 2, Unknown, Unknown, FALSE)}

MaxRows == 5

\* the dry run's matching: three prices, snapshots of one level
Levels(a, b, c) == <<a, b, c>>
Replace(buys, sells) ==
    [kind |-> "Replace", size |-> [side \in {"Buy", "Sell"} |-> IF side = "Buy" THEN buys ELSE sells]]
Snapshots == {Replace(Levels(1, 0, 0), Levels(0, 0, 2)), Replace(Levels(0, 2, 0), Levels(0, 0, 1))}
SimFeeds ==
    [aster   |-> Snapshots \cup {[kind |-> "Top", top |-> [bid |-> 1, ask |-> 2]]},
     lighter |-> Snapshots \cup {[kind |-> "Delta", side |-> "Sell", price |-> 2, qty |-> q] : q \in {0, 1}}]
SimOrder(side, price, qty, tif, reduce) ==
    [side |-> side, price |-> price, qty |-> qty, tif |-> tif, reduce |-> reduce]
SimOrders ==
    {SimOrder("Buy", p, 2, tif, FALSE) : p \in {2, 3}, tif \in {"Gtc", "PostOnly"}}
    \cup {SimOrder("Buy", p, 1, "Ioc", FALSE) : p \in {0, 2}}
    \cup {SimOrder("Sell", p, 1, "Gtc", reduce) : p \in {2, 3}, reduce \in BOOLEAN}
    \cup {SimOrder("Buy", 1, 1, "PostOnly", FALSE), SimOrder("Sell", 0, 1, "Ioc", TRUE)}

\* the dry run's clock: what each run is about
Menu(name, kinds, requests, settlements, restarts) ==
    [venue |-> name, kinds |-> kinds, lanes |-> {1}, requests |-> requests,
     settlements |-> settlements, restarts |-> restarts]
Menus ==
    {Menu("aster", {"Place", "Cancel", "Read"}, 2, {}, FALSE), Menu("lighter", {"Taker", "Cancel"}, 2, {}, FALSE),
     Menu("aster", {"Arm", "Disarm"}, 2, {}, FALSE), Menu("aster", {"Arm"}, 1, {}, TRUE),
     Menu("aster", {}, 0, {2, 4}, TRUE), Menu("lighter", {}, 0, {1, 3}, TRUE)}
Latencies == {<<0, 1>>, <<1, 2>>}

VARIABLES
    scenario,
    venue, book, account,
    menu, now, pending, held, known, requests, reached, hits, state, saved, marked,
    written, group

F == INSTANCE EquityBaseline WITH DiskFails <- TRUE

X == INSTANCE ExecutionEconomics WITH journal <- written

M == INSTANCE SimMatching WITH
    Prices <- 1 .. 3, Sizes <- {1, 2}, Orders <- SimOrders, Feed <- SimFeeds, Depth <- 1, Multiplier <- 1,
    MaxOrders <- 2, Positions <- {0, 1}

V == INSTANCE SimVenue WITH
    Hold <- 2, Bump <- 1, Retry <- 1, Countdown <- 2, Cap <- 1, Span <- 1, MaxTime <- 5, MaxEarly <- 1

ASSUME BaselineAssumption /\ X!EconomicsAssumption

reportVars == <<written, group>>

simVars == <<venue, book, account, menu, now, pending, held, known, requests, reached, hits, state, saved, marked>>

CInit ==
    /\ scenario \in {"regime", "equity", "faults", "trades", "report", "matching", "clock"}
    /\ IF scenario = "regime" THEN Init
       ELSE bot = "taker" /\ since = NoWindow /\ report = (CHOOSE r \in Reports : TRUE) /\ left = NoReport
    /\ BaselineInit /\ TradesInit /\ X!Init /\ M!Init /\ V!Init
    /\ scenario # "trades" => ledger = <<>>
    /\ scenario # "matching" => venue = "aster" /\ account.position = 0
    /\ scenario # "clock" => menu = (CHOOSE m \in Menus : TRUE)

Switching ==
    scenario = "regime" /\ Next /\ UNCHANGED <<scenario, baselineVars, tradeVars, reportVars, simVars>>

Equity ==
    scenario = "equity" /\ BaselineNext /\ UNCHANGED <<scenario, hysteresisVars, tradeVars, reportVars, simVars>>

Faults ==
    scenario = "faults" /\ F!BaselineNext /\ UNCHANGED <<scenario, hysteresisVars, tradeVars, reportVars, simVars>>

Tailing ==
    scenario = "trades" /\ TradesNext /\ UNCHANGED <<scenario, hysteresisVars, baselineVars, reportVars, simVars>>

Reporting ==
    scenario = "report" /\ X!Next /\ UNCHANGED <<scenario, hysteresisVars, baselineVars, tradeVars, simVars>>

Resting == UNCHANGED <<hysteresisVars, baselineVars, tradeVars, reportVars>>

Matching ==
    /\ scenario = "matching" /\ M!Next /\ Resting
    /\ UNCHANGED <<scenario, menu, now, pending, held, known, requests, reached, hits, state, saved, marked>>

Clock == scenario = "clock" /\ V!Next /\ Resting /\ UNCHANGED <<scenario, venue, book, account>>

CNext == Switching \/ Equity \/ Faults \/ Tailing \/ Reporting \/ Matching \/ Clock

CSpec == CInit /\ [][CNext]_<<scenario, hysteresisVars, baselineVars, tradeVars, reportVars, simVars>>

-----------------------------------------------------------------------------
\* ExecutionEconomics: gross is cash, volume is what the attempts reported, a confirmed net has
\* its evidence by the last rows, and a row that comes again changes nothing, unless a later one
\* took its place.
ReportIsTrue ==
    /\ [](X!GrossIsCash /\ X!VolumeIsCovered /\ X!ConfirmedIsComplete)
    /\ X!RepeatsChangeNothing

\* SimMatching: our orders take only what is there, in price and time order, a print fills them by
\* its size in all, and each ends once.  SimVenue: requests in order, each answered once and in
\* time, after the market's own frames up to then; a settlement charged once, unless an older one
\* is charged late; and only the deadman armed last cancels.
ExchangeIsFair == M!FairMatching /\ V!SimTimes
=============================================================================
