----------------------------- MODULE LighterFills -----------------------------
(***************************************************************************)
(* Finding out what became of one Lighter order: its trades and its last   *)
(* state arrive by the account stream, late, twice or not at all, and by   *)
(* the venue's history.  The XEMM hedge worker resolves an attempt in      *)
(* resolve_updates (livebot/exec/hyperliquid.rs); the taker waits in       *)
(* PendingFill::observe_confirmed and then asks the history                *)
(* (taker/venues/lighter.rs).                                              *)
(*                                                                         *)
(* The order asks for Lots lots; each trade of it is one lot.              *)
(***************************************************************************)
EXTENDS Integers, Sequences, FiniteSets

CONSTANTS
    Lots,     \* the order's quantity
    Capacity, \* FILL_ROUTE_CAPACITY: updates the worker's route holds
    MaxSent   \* bound on the updates of the account stream

Trades == 1..Lots
None == -1

VARIABLES
    keeper,   \* "worker" or "taker"
    filled,   \* venue: trades so far
    ended,    \* venue: whether the order is over
    sent,     \* updates the account stream sent
    route,    \* the updates queued for the resolver: a trade, or the ended order
    overflow, \* an update did not fit
    cached,   \* the taker's account feed: the quantity of the ended order, or None
    seen,     \* the trades counted, by the venue's trade identity
    counted,  \* their quantity
    terminal, \* the worker's terminal quantity, or None
    passive,  \* the worker's active budget is spent
    phase,    \* "waiting", for the taker then "asking" of the history, "done"
    told      \* what the caller knows: [status, qty, complete]

vars == <<keeper, filled, ended, sent, route, overflow, cached, seen, counted, terminal, passive, phase, told>>

venue == <<filled, ended>>
resolver == <<seen, counted, terminal, passive, phase, told>>

Nothing == [status |-> "unknown", qty |-> 0, complete |-> FALSE]

Init ==
    /\ keeper \in {"worker", "taker"}
    /\ filled = 0 /\ ended = FALSE
    /\ sent = 0 /\ route = <<>> /\ overflow = FALSE /\ cached = None
    /\ seen = {} /\ counted = 0 /\ terminal = None /\ passive = FALSE
    /\ phase = "waiting" /\ told = Nothing

-----------------------------------------------------------------------------
(* The venue and its streams.                                               *)

Fill ==
    /\ ~ended /\ filled < Lots
    /\ filled' = filled + 1
    /\ ended' = (filled' = Lots)
    /\ UNCHANGED <<keeper, sent, route, overflow, cached>> /\ UNCHANGED resolver

\* the rest of an IOC order expires; an order that never landed shows nothing at all
Expire ==
    /\ ~ended /\ ended' = TRUE
    /\ UNCHANGED <<keeper, filled, sent, route, overflow, cached>> /\ UNCHANGED resolver

\* An update reaches the route while it is registered; the worker's is bounded.
Deliver(update) ==
    /\ phase # "done" /\ sent < MaxSent
    /\ sent' = sent + 1
    /\ IF keeper = "worker" /\ Len(route) >= Capacity
       THEN overflow' = TRUE /\ UNCHANGED route
       ELSE route' = Append(route, update) /\ UNCHANGED overflow
    /\ UNCHANGED <<keeper, cached>> /\ UNCHANGED venue /\ UNCHANGED resolver

\* A trade, for the first time or again, in any order; without an identity it cannot be counted.
OnTrade ==
    \E t \in 1..filled, identified \in BOOLEAN :
        Deliver([kind |-> "trade", trade |-> t, identified |-> identified])

\* The ended order: the worker gets it by its route, the taker's feed keeps it.
OnOrder ==
    /\ ended
    /\ \/ keeper = "worker" /\ Deliver([kind |-> "order", trade |-> filled, identified |-> TRUE])
       \/ /\ keeper = "taker" /\ cached' = filled
          /\ UNCHANGED <<keeper, sent, route, overflow>> /\ UNCHANGED venue /\ UNCHANGED resolver

-----------------------------------------------------------------------------
(* Counting.                                                                *)

\* Mutant of Observed: a repeated trade counts again.
ObservedAgain(t) == seen' = seen \cup {t} /\ counted' = counted + 1

\* FillTotals::observe and the taker's loop: a trade counts once, by its identity.
Observed(t) ==
    /\ seen' = seen \cup {t}
    /\ counted' = IF t \in seen THEN counted ELSE counted + 1

\* What is told of an order whose ending is known: quote and fee only when every trade of it is.
Ended(qty, n) ==
    [status |-> "terminal", qty |-> qty, complete |-> qty = n]

Progress(n) == [status |-> "partial", qty |-> n, complete |-> TRUE]

-----------------------------------------------------------------------------
(* The worker: resolve_updates.                                             *)

\* The head of the loop: every lot seen ends the attempt, and so does a terminal state whose
\* trades are all seen, or any once the active budget is spent.
TerminalQty == IF counted = Lots THEN Lots ELSE terminal

Settled ==
    /\ TerminalQty # None /\ (counted = TerminalQty \/ passive)

Settle ==
    /\ keeper = "worker" /\ phase = "waiting" /\ Settled
    /\ told' = Ended(TerminalQty, counted) /\ phase' = "done"
    /\ UNCHANGED <<keeper, sent, route, overflow, cached, seen, counted, terminal, passive>> /\ UNCHANGED venue

\* A trade without an identity is journaled and not counted: what is told is what was counted.
Receive ==
    /\ keeper = "worker" /\ phase = "waiting" /\ ~Settled /\ route # <<>>
    /\ LET update == Head(route)
       IN \/ /\ update.kind = "trade" /\ update.identified
             /\ Observed(update.trade)
             /\ told' = IF update.trade \in seen THEN told ELSE Progress(counted')
             /\ UNCHANGED terminal
          \/ /\ update.kind = "trade" /\ ~update.identified
             /\ told' = Progress(counted)
             /\ UNCHANGED <<seen, counted, terminal>>
          \/ /\ update.kind = "order"
             /\ terminal' = update.trade
             /\ UNCHANGED <<seen, counted, told>>
    /\ route' = Tail(route)
    /\ UNCHANGED <<keeper, sent, overflow, cached, passive, phase>> /\ UNCHANGED venue

\* The active budget is spent: a known ending is told, otherwise the route stays, passively.
Deadline ==
    /\ keeper = "worker" /\ phase = "waiting" /\ ~Settled /\ ~passive
    /\ IF terminal # None
       THEN told' = Ended(terminal, counted) /\ phase' = "done" /\ UNCHANGED passive
       ELSE passive' = TRUE /\ UNCHANGED <<told, phase>>
    /\ UNCHANGED <<keeper, sent, route, overflow, cached, seen, counted, terminal>> /\ UNCHANGED venue

\* The history answers with the ended order and the pages of its trades that could be read; an
\* order that is not there says nothing.
Lookup ==
    /\ keeper = "worker" /\ phase = "waiting" /\ ~Settled /\ ~passive
    /\ overflow' = FALSE
    /\ \/ UNCHANGED resolver
       \/ /\ ended
          /\ \E read \in SUBSET (1..filled) :
              /\ seen' = seen \cup read
              /\ counted' = counted + Cardinality(read \ seen)
              /\ told' = Ended(filled, counted')
          /\ phase' = "done"
          /\ UNCHANGED <<terminal, passive>>
    /\ UNCHANGED <<keeper, sent, route, cached>> /\ UNCHANGED venue

-----------------------------------------------------------------------------
(* The taker: observe_confirmed, then resolve_order_terminal.               *)

Enough == counted >= Lots \/ (cached # None /\ counted >= cached)

\* A trade without an identity makes the fee unknown and is not counted.
TakeTrade ==
    /\ keeper = "taker" /\ phase = "waiting" /\ ~Enough /\ route # <<>>
    /\ IF Head(route).identified THEN Observed(Head(route).trade) ELSE UNCHANGED <<seen, counted>>
    /\ route' = Tail(route)
    /\ UNCHANGED <<keeper, sent, overflow, cached, terminal, passive, phase, told>> /\ UNCHANGED venue

\* The wait ends, in time or not: the larger of the trades and the ended order's quantity.
Observe ==
    /\ keeper = "taker" /\ phase = "waiting"
    /\ LET qty == IF cached > counted THEN cached ELSE counted
       IN told' = IF qty >= Lots \/ cached # None
                  THEN Ended(qty, counted)
                  ELSE IF qty > 0 THEN Progress(qty) ELSE Nothing
    /\ phase' = IF told'.status = "terminal" THEN "done" ELSE "asking"
    /\ UNCHANGED <<keeper, sent, route, overflow, cached, seen, counted, terminal, passive>> /\ UNCHANGED venue

\* The history: a failed read is retried, an order that is not there is no evidence; the fill is
\* told only when its trades add up.
ResolveOrderTerminal ==
    /\ keeper = "taker" /\ phase = "asking" /\ ended
    /\ \E read \in SUBSET (1..filled) : told' = Ended(filled, Cardinality(read))
    /\ phase' = "done"
    /\ UNCHANGED <<keeper, sent, route, overflow, cached, seen, counted, terminal, passive>> /\ UNCHANGED venue

\* at the confirmation deadline the order stays unresolved
Unresolved ==
    /\ keeper = "taker" /\ phase = "asking"
    /\ phase' = "done"
    /\ UNCHANGED <<keeper, sent, route, overflow, cached, seen, counted, terminal, passive, told>> /\ UNCHANGED venue

Next ==
    \/ Fill \/ Expire \/ OnTrade \/ OnOrder
    \/ Settle \/ Receive \/ Deadline \/ Lookup
    \/ TakeTrade \/ Observe \/ ResolveOrderTerminal \/ Unresolved

Spec == Init /\ [][Next]_vars

-----------------------------------------------------------------------------
(* Properties.                                                              *)

\* What is told is the venue's: an ending is told only of an order that is over, with its exact
\* quantity; before that, never more than was filled, however often a trade is repeated.  Silence
\* is told as unknown, and a trade nobody could count as progress without an end, not as no fill.
ToldIsTheVenues ==
    /\ counted <= filled
    /\ told.status = "terminal" => ended /\ told.qty = filled
    /\ told.status = "partial" => told.qty \in 0..filled

\* A late update never takes back what was told.
ToldOnlyGrows == [][told'.qty >= told.qty /\ (told.status = "terminal" => told' = told)]_vars
=============================================================================
