----------------------------- MODULE MarginRoom -----------------------------
(***************************************************************************)
(* The margin XEMM keeps free for what may still fill                       *)
(* (livebot/strategy.rs, position_context and margin_allows).  Quotes rest  *)
(* on both sides of Aster, a fill becomes a hedge on Lighter once enough of *)
(* it is pending (inventory.rs), and every step of that reaches the         *)
(* strategy late: fills, cancel acknowledgements and account snapshots are  *)
(* in no order.  Before it quotes, the strategy asks what each leg would    *)
(* need if everything possible filled one way.                              *)
(*                                                                          *)
(* Quantities are notional at a constant mark, and equity is constant: the  *)
(* free margin a venue reports is its equity less the position it reports.  *)
(* The tolerance of positions_reconciled is below every quantity here.  The  *)
(* remainder of an attempt that fails stays owed (the maker gate is closed  *)
(* until HedgeLedger's correction for it is out).                           *)
(***************************************************************************)
EXTENDS Integers

CONSTANTS
    Equity,     \* per leg
    Buffer,     \* per leg: aster_safety_buffer_usd, lighter_safety_buffer_usd
    Cap,        \* per leg: the configured position cap
    MinHedge,   \* the least quantity Lighter takes
    MaxQty,     \* bound: the size of an order
    MaxPlaced   \* bound: orders placed

Sides == {"Buy", "Sell"}
Legs == {"Aster", "Lighter"}

MarginRoomAssumption ==
    /\ Equity \in [Legs -> Int] /\ Buffer \in [Legs -> Int] /\ Cap \in [Legs -> Int]
    /\ MinHedge \in Nat \ {0} /\ MaxQty \in Nat /\ MaxPlaced \in Nat

VARIABLES
    pos,        \* per leg: the predicted position (aster_pos, hl_pos)
    truth,      \* per leg: the venue's position
    rep,        \* per leg: the position of the last snapshot
    live, rem, next, \* per side: the slot, what remains of its order, its replacement's size
    unseen,     \* per side: fills of the slot's order not yet processed
    late,       \* per side: unprocessed fills of orders that have left the slot
    owed,       \* per Lighter side: what is out as hedges
    taken,      \* per Lighter side: hedge fills not yet processed
    pending,    \* signed: filled on Aster, too small to hedge
    placed,
    hidden      \* history: fills an acknowledged cancel left to arrive after it

orderVars == <<live, rem, next, unseen, late, placed, hidden>>
hedgeVars == <<owed, taken, pending>>
marginVars == <<pos, truth, rep, orderVars, hedgeVars>>

Zero == [s \in Sides |-> 0]
Flat == [l \in Legs |-> 0]

MarginInit ==
    /\ pos = Flat /\ truth = Flat /\ rep = Flat
    /\ live = [s \in Sides |-> FALSE] /\ rem = Zero /\ next = Zero /\ unseen = Zero /\ late = Zero
    /\ owed = Zero /\ taken = Zero /\ pending = 0 /\ placed = 0 /\ hidden = 0

-----------------------------------------------------------------------------
Opposite(s) == IF s = "Buy" THEN "Sell" ELSE "Buy"

Signed(s, q) == IF s = "Buy" THEN q ELSE -q

Larger(a, b) == IF a >= b THEN a ELSE b
Smaller(a, b) == IF a <= b THEN a ELSE b
Magnitude(a) == IF a >= 0 THEN a ELSE -a
Positive(a) == Larger(a, 0)

\* potential_lots: what the slot's order and its replacement may still fill
Potential(s) == IF live[s] THEN rem[s] + next[s] ELSE 0

\* positions_reconciled: the maker gate is open only while the predictions are what was reported
Reconciled == pos = rep

Free(l) == Equity[l] - Magnitude(rep[l])

\* what the venue's margin lets a position grow to, and the configured cap
LegCap(l) == Smaller(Cap[l], Magnitude(rep[l]) + Positive(Free(l) - Buffer[l]))

\* the capital headroom of a side on both legs: a Buy grows Aster long and Lighter short
Headroom(s) ==
    Smaller(Positive(LegCap("Aster") - Signed(s, pos["Aster"])),
            Positive(LegCap("Lighter") + Signed(s, pos["Lighter"])))

\* what may still be bought or sold on a leg, with another q on the maker side m
Possible(l, side, m, q) ==
    LET makerSide == IF l = "Aster" THEN side ELSE Opposite(side)
        orders == Potential(makerSide) + (IF makerSide = m THEN q ELSE 0)
    IN IF l = "Aster" THEN orders
       ELSE orders + owed[side] + Positive(Signed(side, -pending))

\* the larger of the two positions the leg may end at
Worst(l, m, q) ==
    Larger(Magnitude(pos[l] + Possible(l, "Buy", m, q)),
           Magnitude(pos[l] - Possible(l, "Sell", m, q)))

\* Mutant of MarginAllows: each order is looked at by itself.
AloneAllows(m, q) ==
    \A l \in Legs : Positive(Magnitude(pos[l]) + q - Magnitude(rep[l])) <= Positive(Free(l) - Buffer[l])

MarginAllows(m, q) ==
    \A l \in Legs :
        Positive(Worst(l, m, q) - Magnitude(rep[l])) <= Positive(Free(l) - Buffer[l])

-----------------------------------------------------------------------------
\* Quoting.

PlaceOrder(s) ==
    /\ Reconciled /\ ~live[s] /\ placed < MaxPlaced
    /\ \E q \in 1 .. MaxQty :
         /\ q <= Headroom(s) /\ MarginAllows(s, q)
         /\ rem' = [rem EXCEPT ![s] = q]
    /\ live' = [live EXCEPT ![s] = TRUE] /\ placed' = placed + 1
    /\ UNCHANGED <<pos, truth, rep, next, unseen, late, hidden, hedgeVars>>

\* the replacement counts beside the order it replaces
ReplaceOrder(s) ==
    /\ Reconciled /\ live[s] /\ rem[s] > 0 /\ next[s] = 0 /\ placed < MaxPlaced
    /\ \E q \in 1 .. MaxQty :
         /\ q <= Headroom(s) /\ MarginAllows(s, q)
         /\ next' = [next EXCEPT ![s] = q]
    /\ placed' = placed + 1
    /\ UNCHANGED <<pos, truth, rep, live, rem, unseen, late, hidden, hedgeVars>>

\* the CancelAck of the slot's order, or the refusal of its place: the slot is empty, or its
\* replacement's.  The acknowledgement says nothing of fills.
CancelAck(s) ==
    /\ live[s]
    /\ live' = [live EXCEPT ![s] = next[s] > 0]
    /\ rem' = [rem EXCEPT ![s] = next[s]] /\ next' = [next EXCEPT ![s] = 0]
    /\ late' = [late EXCEPT ![s] = @ + unseen[s]] /\ hidden' = hidden + unseen[s]
    /\ unseen' = [unseen EXCEPT ![s] = 0]
    /\ UNCHANGED <<pos, truth, rep, placed, hedgeVars>>

-----------------------------------------------------------------------------
\* Fills.

VenueFills(s) ==
    /\ live[s]
    /\ \E n \in 1 .. rem[s] - unseen[s] :
         /\ unseen' = [unseen EXCEPT ![s] = @ + n]
         /\ truth' = [truth EXCEPT !["Aster"] = @ + Signed(s, n)]
    /\ UNCHANGED <<pos, rep, live, rem, next, late, placed, hidden, hedgeVars>>

\* handle_fill_parts: the fill joins what is pending, and all of it is hedged when it is enough
Hedge(s, n) ==
    LET p == pending + Signed(s, n)
        side == IF p > 0 THEN "Sell" ELSE "Buy"
    IN IF Magnitude(p) >= MinHedge
       THEN owed' = [owed EXCEPT ![side] = @ + Magnitude(p)] /\ pending' = 0
       ELSE pending' = p /\ UNCHANGED owed

\* a fill of the slot's order (process_maker_delta): an order filled in full leaves the slot,
\* unless its replacement is on its way
FillArrives(s) ==
    /\ \E n \in 1 .. unseen[s] :
         /\ unseen' = [unseen EXCEPT ![s] = @ - n]
         /\ rem' = [rem EXCEPT ![s] = @ - n]
         /\ live' = [live EXCEPT ![s] = rem[s] > n \/ next[s] > 0]
         /\ pos' = [pos EXCEPT !["Aster"] = @ + Signed(s, n)]
         /\ Hedge(s, n)
    /\ UNCHANGED <<truth, rep, next, late, placed, hidden, taken>>

\* a fill of an order that has left the slot
LateFillArrives(s) ==
    /\ \E n \in 1 .. late[s] :
         /\ late' = [late EXCEPT ![s] = @ - n]
         /\ pos' = [pos EXCEPT !["Aster"] = @ + Signed(s, n)]
         /\ Hedge(s, n)
    /\ UNCHANGED <<truth, rep, live, rem, next, unseen, placed, hidden, taken>>

HedgeFills(s) ==
    /\ \E n \in 1 .. owed[s] - taken[s] :
         /\ taken' = [taken EXCEPT ![s] = @ + n]
         /\ truth' = [truth EXCEPT !["Lighter"] = @ + Signed(s, n)]
    /\ UNCHANGED <<pos, rep, orderVars, owed, pending>>

\* apply_execution_progress
HedgeProgress(s) ==
    /\ \E n \in 1 .. taken[s] :
         /\ taken' = [taken EXCEPT ![s] = @ - n]
         /\ owed' = [owed EXCEPT ![s] = @ - n]
         /\ pos' = [pos EXCEPT !["Lighter"] = @ + Signed(s, n)]
    /\ UNCHANGED <<truth, rep, orderVars, pending>>

\* the reconciler's snapshot of one venue, its position and margin read together
SnapshotArrives(l) ==
    /\ rep[l] # truth[l]
    /\ rep' = [rep EXCEPT ![l] = truth[l]]
    /\ UNCHANGED <<pos, truth, orderVars, hedgeVars>>

MarginNext ==
    \/ \E s \in Sides :
         \/ PlaceOrder(s) \/ ReplaceOrder(s) \/ CancelAck(s) \/ VenueFills(s) \/ FillArrives(s)
         \/ LateFillArrives(s) \/ HedgeFills(s) \/ HedgeProgress(s)
    \/ \E l \in Legs : SnapshotArrives(l)

MarginSpec == MarginInit /\ [][MarginNext]_marginVars

-----------------------------------------------------------------------------
\* the furthest a leg's venue position may still move to one side
Reach(l, side) ==
    LET m == IF l = "Aster" THEN side ELSE Opposite(side)
        orders == rem[m] - unseen[m] + next[m]
        hedges == rem[m] + next[m] + late[m] + owed[side] - taken[side] + Positive(Signed(side, -pending))
    IN Signed(side, truth[l]) + (IF l = "Aster" THEN orders ELSE hedges)

\* Whatever of the orders, replacements, unprocessed fills, pending inventory and hedges fills,
\* in whatever order, neither leg's position comes to need more than the equity less the safety
\* buffer: only fills a cancel acknowledgement overtook, which the strategy cannot count, come on
\* top (margin_allows: "Reserve the full interval of still-possible positions").
MarginHolds ==
    \A l \in Legs : \A side \in Sides : Reach(l, side) <= Positive(Equity[l] - Buffer[l]) + hidden
=============================================================================
