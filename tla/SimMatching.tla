---------------------------- MODULE SimMatching ----------------------------
(* dryrun/matching.rs and dryrun/book.rs: one venue of the dry run matching  *)
(* the bot's orders on one market against the replica of the real book.      *)
(*                                                                           *)
(* Prices and sizes are small integers.  An exchange time is reduced to what *)
(* the code compares it with: a frame is stale, older than the top of book   *)
(* it would bury, or newer.  The next state a taker is matched against is    *)
(* that after any frame: a late frame may still overtake the one in hand.    *)
(* What the filters, the margin and an unknown market refuse changes nothing *)
(* here and is left out; fees and realized profit too.  When things happen   *)
(* is SimVenue's subject.                                                    *)
EXTENDS Integers, SequencesExt

CONSTANTS
    Prices,      \* a set of naturals
    Sizes,       \* print sizes
    Orders,      \* the orders the bot may place: [side, price, qty, tif, reduce]
    Feed,        \* [aster, lighter]: the book frames each venue's feed may carry
    Depth,       \* levels per side of an Aster snapshot
    Multiplier,  \* hidden_queue_multiplier
    MaxOrders,   \* orders of a run
    Positions    \* positions a saved account may hold

Sides == {"Buy", "Sell"}
Tifs == {"Gtc", "Ioc", "PostOnly"}
Opposite(side) == IF side = "Buy" THEN "Sell" ELSE "Buy"
Better(side, a, b) == IF side = "Buy" THEN a > b ELSE a < b
Least(a, b) == IF a < b THEN a ELSE b
Hidden == -1        \* the queue ahead of an order on a level the depth cut hides
Market == 0          \* the price of a market order
NoTop == [bid |-> 0, ask |-> 0]

VARIABLES
    venue,     \* "aster": snapshots cut at Depth and tops; "lighter": full books and deltas
    book,      \* the replica
    account    \* [position, open, ended, last]: open orders, reports that ended each order, last id
vars == <<venue, book, account>>

Ids == 1..MaxOrders
Empty == [side \in Sides |-> [p \in Prices |-> 0]]

Init == /\ venue \in {"aster", "lighter"}
        /\ book = [warm |-> FALSE, size |-> Empty, cut |-> [side \in Sides |-> {}],
                   top |-> NoTop, consumed |-> Empty]
        /\ account \in [position : Positions, open : {{}},
                        ended : {[i \in Ids |-> 0]}, last : {0}]

-----------------------------------------------------------------------------
(* The replica. *)

\* The best levels replace what the snapshot showed above them.
Overlay(size, top) ==
    IF top.bid >= top.ask THEN size
    ELSE [side \in Sides |-> [p \in Prices |->
            LET best == IF side = "Buy" THEN top.bid ELSE top.ask IN
            IF Better(side, p, best) THEN 0 ELSE IF p = best THEN 1 ELSE size[side][p]]]

Shown(size, side) == {p \in Prices : size[side][p] > 0}
\* Prices past the worst one a snapshot of Depth levels showed: their size is unknown.
Cut(size) ==
    [side \in Sides |->
        IF venue = "aster" /\ Cardinality(Shown(size, side)) >= Depth
        THEN {p \in Prices : \A shown \in Shown(size, side) : Better(side, shown, p)}
        ELSE {}]

\* What our trades took is cut to what the feed still shows.
Clamped(b) ==
    [b EXCEPT !.consumed = [side \in Sides |-> [p \in Prices |-> Least(@[side][p], b.size[side][p])]]]

Ages(b, f) == CASE f.kind = "Replace" -> {"newer"} \cup (IF b.warm THEN {"stale"} ELSE {})
                                         \cup (IF b.top # NoTop THEN {"older"} ELSE {})
                [] f.kind = "Top" -> {"newer", "stale"}
                [] OTHER -> {"newer"}

Apply(b, f, age) ==
    IF age = "stale" THEN b
    ELSE Clamped(CASE f.kind = "Replace" ->
                        [b EXCEPT !.warm = TRUE, !.cut = Cut(f.size),
                                  !.size = IF age = "older" THEN Overlay(f.size, b.top) ELSE f.size,
                                  !.top = IF age = "older" THEN @ ELSE NoTop]
                   [] f.kind = "Delta" -> [b EXCEPT !.size[f.side][f.price] = f.qty]
                   [] f.kind = "Top" ->
                        [b EXCEPT !.top = f.top, !.size = IF b.warm THEN Overlay(@, f.top) ELSE @])

Invalidate(b) == [b EXCEPT !.warm = FALSE, !.size = Empty, !.top = NoTop]

Visible(b, side, price) == IF price \in b.cut[side] THEN Hidden ELSE b.size[side][price]

\* Mutant of Free: takeable() forgets what our own orders took.
FreeAgain(b, next, side, price) == Least(b.size[side][price], next.size[side][price])

\* The levels a taker may take up to its limit, best first: the smaller of the two states,
\* less what our trades took already.
Free(b, next, side, price) == Least(b.size[side][price], next.size[side][price]) - b.consumed[side][price]
Takeable(b, next, taker, limit) ==
    LET side == Opposite(taker)
        levels == {p \in Prices : (limit = Market \/ ~Better(side, limit, p)) /\ Free(b, next, side, p) > 0} IN
    SetToSortSeq(levels, LAMBDA p, q : Better(side, p, q))
Crosses(b, side, price) == Takeable(b, b, side, price) # <<>>

-----------------------------------------------------------------------------
(* Filling, on a state v = [acc, book, order]: the order being worked on is  *)
(* not among the open ones.                                                  *)

Reducible(position, side) ==
    CASE side = "Buy" /\ position < 0 -> -position
      [] side = "Sell" /\ position > 0 -> position
      [] OTHER -> 0

Fillable(acc, o) == IF o.reduce THEN Least(o.left, Reducible(acc.position, o.side)) ELSE o.left

Ended(acc, ids) == [acc EXCEPT !.open = {o \in @ : o.id \notin ids},
                               !.ended = [i \in Ids |-> IF i \in ids THEN @[i] + 1 ELSE @[i]]]

\* A fill reports the order filled when nothing is left, and ends the resting reduce-only
\* orders that have nothing left to reduce.
Fill(v, qty) ==
    LET signed == IF v.order.side = "Buy" THEN qty ELSE -qty
        moved  == [v.acc EXCEPT !.position = @ + signed,
                                !.ended[v.order.id] = IF v.order.left = qty THEN @ + 1 ELSE @]
        dead   == {o.id : o \in {x \in moved.open : x.reduce /\ Fillable(moved, x) = 0}} IN
    IF qty = 0 THEN v
    ELSE [v EXCEPT !.order.left = @ - qty, !.acc = Ended(moved, dead)]

Consume(v, side, price, qty) == [v EXCEPT !.book.consumed[side][price] = @ + qty]

\* The order takes the levels in turn.
Take(v, next, limit) ==
    LET side == Opposite(v.order.side)
        OneLevel(w, p) == LET qty == Least(Fillable(w.acc, w.order), Free(v.book, next, side, p)) IN
                          Fill(Consume(w, side, p, qty), qty) IN
    FoldLeft(OneLevel, v, Takeable(v.book, next, v.order.side, limit))

\* Back among the open orders, or ended.
Settle(v) ==
    IF v.order.left = 0 THEN v.acc
    ELSE IF v.order.reduce /\ Fillable(v.acc, v.order) = 0 THEN Ended(v.acc, {v.order.id})
    ELSE [v.acc EXCEPT !.open = @ \cup {v.order}]

\* Our resting orders, buys first, each side best price first, then oldest.
Resting(acc, sides) ==
    SetToSortSeq({o \in acc.open : o.side \in sides},
        LAMBDA a, b : \/ a.side = "Buy" /\ b.side = "Sell"
                      \/ a.side = b.side /\ (Better(a.side, a.price, b.price) \/ (a.price = b.price /\ a.id < b.id)))

Queued(o, visible) == [o EXCEPT !.ahead = visible, !.hidden = visible * Multiplier]

-----------------------------------------------------------------------------
(* The feed. *)

NoOrder == [id |-> 0]
NoPrint == -1
Work(acc, b, price, qty) == [acc |-> acc, book |-> b, order |-> NoOrder, print |-> price, left |-> qty]

\* A book update shortens each visible queue to what is left, then fills what the book crosses.
Crossed(v) ==
    LET o == v.order
        visible == Visible(v.book, o.side, o.price)
        seen == IF visible = Hidden THEN o
                ELSE IF o.ahead = Hidden THEN Queued(o, visible)
                ELSE [o EXCEPT !.ahead = Least(@, visible)] IN
    Take([v EXCEPT !.order = seen], v.book, o.price)

\* A print: our orders at its price or better share it, behind the queue each has ahead.
Printed(v) ==
    LET o == v.order
        seen == IF v.print # o.price THEN Queued(o, 0)
                ELSE IF o.ahead = Hidden /\ Visible(v.book, o.side, o.price) # Hidden
                THEN Queued(o, Visible(v.book, o.side, o.price)) ELSE o
        visible == Least(seen.ahead, v.left)
        hidden == Least(seen.hidden, v.left - visible)
        queued == [seen EXCEPT !.ahead = @ - visible, !.hidden = @ - hidden]
        left == v.left - visible - hidden
        qty == Least(Fillable(v.acc, queued), left) IN
    IF v.left = 0 \/ Better(o.side, v.print, o.price) THEN v
    ELSE IF seen.ahead = Hidden THEN [v EXCEPT !.order = seen]
    ELSE Fill([v EXCEPT !.order = queued, !.left = left - qty], qty)

\* Each order still open when its turn comes meets the book, or the print.
InTurn(v, orders) ==
    FoldLeft(LAMBDA w, o : IF o \in w.acc.open
                           THEN LET turn == [w EXCEPT !.order = o, !.acc.open = @ \ {o}]
                                    done == IF w.print = NoPrint THEN Crossed(turn) ELSE Printed(turn)
                                IN [done EXCEPT !.acc = Settle(done)]
                           ELSE w,
             v, orders)

OnBook(f, age) ==
    LET applied == Apply(book, f, age)
        done == InTurn(Work(account, applied, NoPrint, 0), Resting(account, Sides)) IN
    /\ age \in Ages(book, f)
    /\ IF age # "stale" /\ applied.warm
       THEN account' = done.acc /\ book' = done.book
       ELSE book' = applied /\ UNCHANGED account
    /\ UNCHANGED venue

OnTrade(price, qty, taker) ==
    /\ book.warm
    /\ account' = InTurn(Work(account, book, price, qty), Resting(account, {Opposite(taker)})).acc
    /\ UNCHANGED <<venue, book>>

Gap == /\ book' = Invalidate(book)
       /\ UNCHANGED <<venue, account>>

-----------------------------------------------------------------------------
(* The bot's requests. *)

NewOrder(spec, qty) ==
    [id |-> account.last + 1, side |-> spec.side, price |-> spec.price, left |-> qty, reduce |-> spec.reduce,
     ahead |-> Hidden, hidden |-> 0]

\* An order that may rest joins the queue it sees now or in the next state, whichever is longer.
Rest(v, next) ==
    LET o == v.order
        visible == Visible(v.book, o.side, o.price)
        later == Visible(next, o.side, o.price) IN
    [v EXCEPT !.order = IF visible = Hidden THEN o
                        ELSE Queued(o, IF later > visible THEN later ELSE visible)]

Place(spec) ==
    LET room == Reducible(account.position, spec.side)
        order == NewOrder(spec, IF spec.reduce THEN Least(spec.qty, room) ELSE spec.qty)
        numbered == [account EXCEPT !.last = @ + 1]
        start == [Work(numbered, book, NoPrint, 0) EXCEPT !.order = order]
        postOnly == spec.tif = "PostOnly" IN
    /\ account.last < MaxOrders
    /\ postOnly => spec.price # Market
    /\ book.warm
    /\ spec.reduce => room > 0
    /\ \E next \in {book} \cup UNION {{Apply(book, f, age) : age \in Ages(book, f)} : f \in Feed[venue]} :
          LET took == IF postOnly THEN start ELSE Take(start, next, spec.price) IN
          IF postOnly /\ Crosses(book, spec.side, spec.price)
          THEN account' = Ended(numbered, {order.id}) /\ UNCHANGED book
          ELSE /\ book' = took.book
               /\ account' = IF took.order.left = 0 THEN took.acc
                             ELSE IF spec.tif = "Ioc" \/ spec.price = Market THEN Ended(took.acc, {order.id})
                             ELSE Settle(Rest(took, next))
    /\ UNCHANGED venue

Cancel(o) == /\ o \in account.open
             /\ account' = Ended(account, {o.id})
             /\ UNCHANGED <<venue, book>>

CancelAll == /\ account.open # {}
             /\ account' = Ended(account, {o.id : o \in account.open})
             /\ UNCHANGED <<venue, book>>

Next == \/ \E f \in Feed[venue] : \E age \in Ages(book, f) : OnBook(f, age)
        \/ \E price \in Prices, qty \in Sizes, taker \in Sides : OnTrade(price, qty, taker)
        \/ Gap
        \/ \E spec \in Orders : Place(spec)
        \/ \E o \in account.open : Cancel(o)
        \/ CancelAll

Spec == Init /\ [][Next]_vars

-----------------------------------------------------------------------------
(* Properties *)

\* Our orders together never take more from a level than the replica shows there.
NothingTakenTwice == book.warm => \A side \in Sides, p \in Prices : book.consumed[side][p] <= book.size[side][p]

\* Each order is either working or reported ended, and reported once (settle, finish, fill).
OneEnd == \A i \in Ids : account.ended[i] = IF i <= account.last /\ i \notin {o.id : o \in account.open}
                                             THEN 1 ELSE 0

\* A reduce-only order that rests has a position to reduce: those a fill leaves with none end.
ReduceOnlyLives == \A o \in account.open : o.left > 0 /\ (o.reduce => Reducible(account.position, o.side) > 0)

\* A resting order's queue never grows: the feed may shorten it and prints eat it.
QueueShrinks ==
    \A o \in account.open, n \in account'.open :
        o.id = n.id /\ o.ahead # Hidden => 0 <= n.ahead /\ n.ahead <= o.ahead /\ n.hidden <= o.hidden

\* Nothing fills an order while an order with a better price, or an older one at the same price,
\* still works on that side with something to fill (on_book and on_trade walk resting()).
PriceTime ==
    \A a, b \in account.open :
        /\ a.side = b.side
        /\ Better(a.side, a.price, b.price) \/ (a.price = b.price /\ a.id < b.id)
        /\ \/ \E n \in account'.open : n.id = b.id /\ n.left < b.left
        => \A n \in account'.open : n.id # a.id

\* A print fills our orders, and shortens their queues at its price, by its size at most in all.
PrintShared ==
    \A price \in Prices, qty \in Sizes, taker \in Sides :
        book' = book /\ account' # account /\ OnTrade(price, qty, taker) =>
            LET was(i) == CHOOSE o \in account.open : o.id = i
                is(i) == CHOOSE o \in account'.open : o.id = i
                both == {o.id : o \in {x \in account.open : x.price = price /\ x.ahead # Hidden}}
                        \cap {o.id : o \in account'.open}
                moved == account'.position - account.position
                eaten == FoldFunction(+, 0, [i \in both |-> was(i).ahead + was(i).hidden - is(i).ahead - is(i).hidden]) IN
            (IF moved < 0 THEN -moved ELSE moved) + eaten <= qty

\* The matching's promises together: pessimistic, and every order accounted for.
FairMatching == /\ [](NothingTakenTwice /\ OneEnd /\ ReduceOnlyLives)
                /\ [][QueueShrinks /\ PriceTime /\ PrintShared]_vars

=============================================================================
