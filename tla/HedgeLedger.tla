----------------------------- MODULE HedgeLedger -----------------------------
(***************************************************************************)
(* From maker fills to hedges, in one market of XEMM: the coverage ledger  *)
(* and the pending inventory (livebot/strategy.rs, inventory.rs), the      *)
(* hedge attempts and their admission tickets (livebot/fills.rs), the      *)
(* Lighter worker (livebot/exec/hyperliquid.rs), the position snapshots    *)
(* and the corrections of what is left over.                               *)
(*                                                                         *)
(* The maker side that fills is the buy side (the other is its mirror      *)
(* image), quantities are lots.  Fills keep coming whatever the strategy   *)
(* does about its quotes: a cancel races them.  Prices, fees and the       *)
(* quotes themselves are left out; MakerOrders has the orders.             *)
(***************************************************************************)
EXTENDS Integers, Functions

CONSTANTS
    LeastHedge,     \* the least quantity Lighter accepts
    Step,           \* Lighter's quantity step
    MaxFill,        \* bound: lots the maker orders fill
    MaxAttempts     \* bound: hedge and correction attempts

HedgeLedgerAssumption ==
    /\ LeastHedge \in Nat \ {0} /\ Step \in Nat \ {0}
    /\ MaxFill \in Nat /\ MaxAttempts \in Nat \ {0}

Attempts == 1 .. MaxAttempts

VARIABLES
    \* the strategy
    coverage,   \* cumulative maker fill recorded (maker_coverage)
    applied,    \* what of it was priced: it moved the predicted position (aster_pos)
    inventory,  \* signed inventory not yet hedged (pending)
    att,        \* the attempts (hedges)
    due,        \* correction_needed
    tries,      \* correction_attempts
    orphan,     \* the residual seen in one snapshot, and whether a newer one came
    \* the executor and the venues
    admitted,   \* the admission ticket of every attempt
    answer,     \* what the worker still has to say of an attempt
    wire,       \* the attempt at the venue, and what of it executed
    cum,        \* the maker fill at the venue
    positions,  \* those of a snapshot read since the last hot action, or NoPositions
    raced       \* history: inventory under correction went into a hedge (see NoOverHedge)

ledgerVars == <<coverage, applied, inventory, att, due, tries, orphan, admitted, answer, wire, cum, positions,
                raced>>

NoPositions == [ok |-> FALSE, aster |-> 0, lighter |-> 0, unpriced |-> 0]

NoOrphan == [net |-> 0, newer |-> FALSE]

NoAttempt == [state |-> "none", purpose |-> "Hedge", venue |-> "Lighter", dir |-> -1,
              qty |-> 0, filled |-> 0, sends |-> 0]

LedgerInit ==
    /\ coverage = 0 /\ applied = 0 /\ inventory = 0 /\ due = FALSE /\ tries = 0 /\ orphan = NoOrphan
    /\ att = [i \in Attempts |-> NoAttempt]
    /\ admitted = [i \in Attempts |-> "none"] /\ answer = [i \in Attempts |-> "none"]
    /\ wire = [i \in Attempts |-> [st |-> "none", filled |-> 0]]
    /\ cum = 0 /\ positions = NoPositions /\ raced = FALSE

-----------------------------------------------------------------------------
\* unresolved: neither terminal nor reconciled
Unresolved(a) == {i \in Attempts : a[i].state \in {"flight", "unknown"}}

Completed == {i \in Attempts : att[i].state = "over"}

Unused == {i \in Attempts : att[i].state = "none" /\ \A j \in 1 .. i - 1 : att[j].state # "none"}

SignedFills == [i \in Attempts |-> att[i].dir * att[i].filled]

\* fills recorded without a price: no position, inventory or hedge has them
Unpriced == coverage - applied

\* Mutant of Aster: every recorded fill is predicted.
AsterFromCoverage == coverage + SumFunctionOnSet(SignedFills, {i \in Attempts : att[i].venue = "Aster"})

\* the positions the strategy predicts from the executions it has processed
Aster == applied + SumFunctionOnSet(SignedFills, {i \in Attempts : att[i].venue = "Aster"})

Lighter == SumFunctionOnSet(SignedFills, {i \in Attempts : att[i].venue = "Lighter"})

Net == Aster + Lighter

Executed == [i \in Attempts |-> att[i].dir * wire[i].filled]

TrueAster == cum + SumFunctionOnSet(Executed, {i \in Attempts : att[i].venue = "Aster"})

TrueLighter == SumFunctionOnSet(Executed, {i \in Attempts : att[i].venue = "Lighter"})

Sign(q) == IF q > 0 THEN 1 ELSE IF q < 0 THEN -1 ELSE 0

Size(q) == IF q < 0 THEN -q ELSE q

Least(a, b) == IF a < b THEN a ELSE b

Floor(q) == Step * (q \div Step)

Attempt(purpose, venue, dir, qty, sends) ==
    [state |-> "flight", purpose |-> purpose, venue |-> venue, dir |-> dir, qty |-> qty,
     filled |-> 0, sends |-> sends]

\* the attempt is created and queued, or cannot be sent: then it is terminal at once, and no
\* worker hears of it
Queue(a, i, attempt) ==
    /\ att' = [a EXCEPT ![i] = attempt] /\ admitted' = [admitted EXCEPT ![i] = "queued"]
    /\ UNCHANGED answer

Unsent(a, i, attempt) ==
    /\ att' = [a EXCEPT ![i] = [attempt EXCEPT !.state = "over"]]
    /\ admitted' = [admitted EXCEPT ![i] = "cancelled"]
    /\ answer' = [answer EXCEPT ![i] = "said"]

HotAction == positions' = NoPositions

-----------------------------------------------------------------------------
\* Maker fills.

MakerOrderFills ==
    /\ cum < MaxFill /\ cum' = cum + 1
    /\ UNCHANGED <<coverage, applied, inventory, att, due, tries, orphan, admitted, answer, wire, positions, raced>>

\* the increase a fill report proves: reports are cumulative, by socket and by order query,
\* late, repeated and out of order
Increase(c) == IF c > coverage THEN c - coverage ELSE 0

\* handle_maker_fill, handle_maker_order_progress, process_maker_delta: the inventory grows
\* or nets, and is hedged the moment it reaches the minimum, floored to the step
MakerFill ==
    \E c \in 1 .. cum :
      /\ Increase(c) > 0 /\ coverage' = coverage + Increase(c) /\ applied' = applied + Increase(c)
      /\ HotAction
      /\ LET inv == inventory + Increase(c)
             qty == Floor(Size(inv))
             hedge == Attempt("Hedge", "Lighter", -Sign(inv), qty, 1)
         IN IF Size(inv) < LeastHedge
            THEN inventory' = inv /\ UNCHANGED <<att, admitted, answer, due, raced>>
            ELSE \E i \in Unused :
                   /\ inventory' = inv - Sign(inv) * qty
                   /\ raced' = (raced \/ /\ inventory # 0
                                         /\ \E j \in Unresolved(att) \cup Completed : att[j].purpose = "Reduce")
                   /\ \/ Queue(att, i, hedge) /\ UNCHANGED due
                      \/ Unsent(att, i, hedge) /\ due' = TRUE     \* no fresh book, queue full
      /\ UNCHANGED <<tries, orphan, wire, cum>>

\* handle_maker_order_progress, of an order query that names no price while there is no book either:
\* the fill is recorded, and then the strategy freezes and sweeps its quotes instead.  A later
\* report of the same fill adds nothing.
UnpricedFill ==
    /\ \E c \in 1 .. cum : Increase(c) > 0 /\ coverage' = coverage + Increase(c)
    /\ UNCHANGED <<applied, inventory, att, due, tries, orphan, admitted, answer, wire, cum, positions, raced>>

-----------------------------------------------------------------------------
\* The worker: it claims a ticket and writes, or refuses; then it watches the order.

\* not ready, or past the deadline: the ticket is cancelled, and says so (a ticket the
\* strategy cancelled before is answered alike)
Refuse(i) ==
    /\ admitted[i] \in {"queued", "cancelled"} /\ answer[i] = "none"
    /\ admitted' = [admitted EXCEPT ![i] = "cancelled"]
    /\ answer' = [answer EXCEPT ![i] = "notSent"]
    /\ UNCHANGED <<coverage, applied, inventory, att, due, tries, orphan, wire, cum, positions, raced>>

\* not sent after all, refused by the venue, accepted, or ambiguous
Execute(i) ==
    /\ admitted[i] = "queued" /\ admitted' = [admitted EXCEPT ![i] = "claimed"]
    /\ \E out \in {[a |-> "notSent", st |-> "over"], [a |-> "reject", st |-> "over"],
                   [a |-> "noMatch", st |-> "over"], [a |-> "watch", st |-> "open"],
                   [a |-> "watch", st |-> "over"]} :
         /\ answer' = [answer EXCEPT ![i] = out.a]
         /\ wire' = [wire EXCEPT ![i].st = out.st]
    /\ UNCHANGED <<coverage, applied, inventory, att, due, tries, orphan, cum, positions, raced>>

\* an IOC order executes what it can and is over
Fills(i) ==
    /\ wire[i].st = "open"
    /\ \E f \in 0 .. att[i].qty : wire' = [wire EXCEPT ![i] = [st |-> "over", filled |-> f]]
    /\ UNCHANGED <<coverage, applied, inventory, att, due, tries, orphan, admitted, answer, cum, positions, raced>>

-----------------------------------------------------------------------------
\* What the strategy learns of an attempt.

KnownAttempt(i) == att[i].state \in {"flight", "unknown", "over"}

\* a trade, or the terminal order: cumulative evidence (apply_progress)
Progress(i) ==
    /\ KnownAttempt(i) /\ answer[i] = "watch"
    /\ HotAction
    /\ \/ \E c \in att[i].filled + 1 .. wire[i].filled :
            /\ att' = [att EXCEPT ![i].filled = c,
                                  ![i].state = IF c = att[i].qty THEN "unknown" ELSE "flight"]
            /\ UNCHANGED <<due, answer>>
       \/ /\ wire[i].st = "over"
          /\ att' = [att EXCEPT ![i].filled = wire[i].filled, ![i].state = "over"]
          /\ due' = (due \/ wire[i].filled < att[i].qty)
          /\ answer' = [answer EXCEPT ![i] = "said"]
    /\ UNCHANGED <<coverage, applied, inventory, tries, orphan, admitted, wire, cum, raced>>

\* an ambiguous write, or the fill observation timed out
Unknown(i) ==
    /\ att[i].state = "flight" /\ answer[i] = "watch"
    /\ att' = [att EXCEPT ![i].state = "unknown"]
    /\ UNCHANGED <<coverage, applied, inventory, due, tries, orphan, admitted, answer, wire, cum, positions, raced>>

\* only a guaranteed no-fill is tried again, once
Retryable(i) == answer[i] \in {"notSent", "noMatch"} /\ att[i].purpose = "Hedge" /\ att[i].sends < 2

\* handle_definitive_reject
Rejected(i) ==
    /\ KnownAttempt(i) /\ answer[i] \in {"notSent", "reject", "noMatch"}
    /\ answer' = [answer EXCEPT ![i] = "said"]
    /\ HotAction
    /\ LET after == [att EXCEPT ![i].state = "over"]
       IN \/ /\ Retryable(i)
             /\ \E n \in Unused :
                  /\ att' = [after EXCEPT ![n] = Attempt("Hedge", "Lighter", att[i].dir, att[i].qty, att[i].sends + 1)]
                  /\ admitted' = [admitted EXCEPT ![n] = "queued"]
             /\ UNCHANGED due
          \/ /\ att' = after /\ due' = TRUE /\ UNCHANGED admitted
    /\ UNCHANGED <<coverage, applied, inventory, tries, orphan, wire, cum, raced>>

\* check_timeout: an attempt still in the queue is taken back, a claimed one stays open
Timeout(i) ==
    /\ att[i].state = "flight"
    /\ IF admitted[i] \in {"queued", "cancelled"}
       THEN /\ admitted' = [admitted EXCEPT ![i] = "cancelled"]
            /\ att' = [att EXCEPT ![i].state = "over"]
            /\ due' = TRUE /\ HotAction
       ELSE /\ att' = [att EXCEPT ![i].state = "unknown"]
            /\ UNCHANGED <<admitted, due, positions>>
    /\ UNCHANGED <<coverage, applied, inventory, tries, orphan, answer, wire, cum, raced>>

\* pending inventory too old or too large, or the session drains
PendingLimit ==
    /\ inventory # 0 /\ ~due /\ due' = TRUE
    /\ UNCHANGED <<coverage, applied, inventory, att, tries, orphan, admitted, answer, wire, cum, positions, raced>>

-----------------------------------------------------------------------------
\* Reconciliation.

PositionsArrive ==
    /\ positions' = [ok |-> TRUE, aster |-> TrueAster, lighter |-> TrueLighter, unpriced |-> Unpriced]
    /\ orphan' = [orphan EXCEPT !.newer = orphan.net # 0]
    /\ UNCHANGED <<coverage, applied, inventory, att, due, tries, admitted, answer, wire, cum, raced>>

\* the leg a correction reduces: Aster first
CorrectionLegs ==
    LET sameSign(q) == Sign(q) = Sign(Net)
        aster == IF sameSign(Aster) THEN Least(Size(Net), Size(Aster)) ELSE 0
        lighter == IF sameSign(Lighter) THEN Floor(Least(Size(Net), Size(Lighter))) ELSE 0
    IN (IF aster > 0 THEN {Attempt("Reduce", "Aster", -Sign(Net), aster, 1)} ELSE {})
         \cup (IF lighter > 0 THEN {Attempt("Reduce", "Lighter", -Sign(Net), lighter, 1)} ELSE {})

DispatchCorrection(a) ==
    \/ att' = a /\ UNCHANGED <<admitted, answer, tries, positions>>  \* both tries spent, or no leg with a fresh book
    \/ /\ tries < 2 /\ HotAction
       /\ \E leg \in CorrectionLegs, n \in Unused :
            \/ Queue(a, n, leg) /\ tries' = tries + 1
            \/ Unsent(a, n, leg) /\ UNCHANGED tries

\* Mutant of Proven: a snapshot that agrees is enough, whatever is still open.
ProvenWhileOpen == positions.ok /\ positions.aster = Aster /\ positions.lighter = Lighter

\* positions are compared only when no attempt is open, in a snapshot read since the last
\* hot action
Proven ==
    Unresolved(att) = {} /\ positions.ok /\ positions.aster = Aster /\ positions.lighter = Lighter

\* recover_orphans, once the predicted and the reported positions agree
Recover ==
    /\ Proven
    /\ LET done == [i \in Attempts |-> IF att[i].state = "over" THEN [att[i] EXCEPT !.state = "gone"] ELSE att[i]]
           corrected == \E i \in Completed : att[i].purpose = "Reduce"
           left == IF corrected /\ inventory # 0 THEN Net ELSE inventory
           must == due \/ corrected
       IN \/ /\ Net = 0
             /\ att' = done /\ inventory' = 0 /\ due' = FALSE /\ tries' = 0 /\ orphan' = NoOrphan
             /\ UNCHANGED <<admitted, answer, positions>>
          \/ /\ Net # 0 /\ ~must /\ Net = left
             /\ att' = done /\ UNCHANGED <<inventory, due, tries, orphan, admitted, answer, positions>>
          \/ /\ Net # 0 /\ ~must /\ Net # left /\ orphan # [net |-> Net, newer |-> TRUE]
             /\ att' = done /\ orphan' = [net |-> Net, newer |-> FALSE]
             /\ UNCHANGED <<inventory, due, tries, admitted, answer, positions>>
          \/ /\ Net # 0 /\ (must \/ (Net # left /\ orphan = [net |-> Net, newer |-> TRUE]))
             /\ inventory' = left /\ due' = TRUE /\ UNCHANGED orphan
             /\ DispatchCorrection(done)
    /\ UNCHANGED <<coverage, applied, wire, cum, raced>>

-----------------------------------------------------------------------------

LedgerNext ==
    \/ MakerOrderFills \/ MakerFill \/ UnpricedFill \/ PendingLimit \/ PositionsArrive \/ Recover
    \/ \E i \in Attempts :
         Refuse(i) \/ Execute(i) \/ Fills(i) \/ Progress(i) \/ Unknown(i) \/ Rejected(i) \/ Timeout(i)

LedgerSpec == LedgerInit /\ [][LedgerNext]_ledgerVars

-----------------------------------------------------------------------------

Records == [state : {"none", "flight", "unknown", "over", "gone"}, purpose : {"Hedge", "Reduce"},
            venue : {"Aster", "Lighter"}, dir : {-1, 1}, qty : Nat, filled : Nat, sends : Nat]

LedgerTypeOK ==
    /\ coverage \in Nat /\ applied \in Nat /\ cum \in Nat /\ applied <= coverage /\ coverage <= cum
    /\ inventory \in Int /\ due \in BOOLEAN /\ tries \in 0 .. 2 /\ raced \in BOOLEAN
    /\ att \in [Attempts -> Records]
    /\ admitted \in [Attempts -> {"none", "queued", "claimed", "cancelled"}]
    /\ answer \in [Attempts -> {"none", "notSent", "reject", "noMatch", "watch", "said"}]
    /\ wire \in [Attempts -> [st : {"none", "open", "over"}, filled : Nat]]

Owing == [i \in Attempts |-> -att[i].dir * (att[i].qty - att[i].filled)]

\* No exposure is lost from the books: what the recorded maker fills left open is in the inventory
\* or in an open attempt, unless a correction of it is owed.  Only a fill recorded without a price
\* is in neither, and it is all of the difference.
Covered ==
    due \/ coverage + SumFunctionOnSet(SignedFills, Attempts)
             = inventory + SumFunctionOnSet(Owing, Unresolved(att)) + Unpriced

\* A fill that was recorded without a price keeps the books apart from the venue: no snapshot read
\* after it passes for proof of the predicted positions, so that nothing is forgotten, corrected or
\* resumed on such a snapshot, whatever fills, hedges and corrections follow.
UnpricedIsSeen == positions.unpriced > 0 => ~Proven

\* An attempt is closed only on evidence: what the strategy takes to be over can execute no
\* more, and was counted in full.
ClosedOnEvidence ==
    \A i \in Attempts : att[i].state \in {"over", "gone"} =>
        wire[i].st # "open" /\ admitted[i] # "queued" /\ att[i].filled = wire[i].filled

\* what can still execute
Open == [i \in Attempts |->
            IF admitted[i] = "queued" \/ wire[i].st = "open" THEN -att[i].dir * att[i].qty ELSE 0]

\* The same exposure never has two orders out for it: with everything that can still execute
\* done, the net position does not cross zero.  Except when inventory already under correction
\* is hedged with the next fill (see HedgedOnce).
NoOverHedge == raced \/ TrueAster + TrueLighter >= SumFunctionOnSet(Open, Attempts)

\* No exposure is lost from the books, an attempt closes only on evidence, and one exposure never
\* has two orders out for it.
Accounted == Covered /\ ClosedOnEvidence /\ NoOverHedge

\* what ids.rs says of the ledger: it keeps a fill from being hedged twice
HedgedOnce == TrueAster + TrueLighter >= SumFunctionOnSet(Open, Attempts)

-----------------------------------------------------------------------------
(* The inductive invariant behind the three of them                        *)

\* What the ticket, the answer and the venue say of an attempt fits what the strategy believes.
Lifecycle(i) ==
    /\ admitted[i] = "none" <=> att[i].state = "none"
    /\ att[i].state = "none" => att[i] = NoAttempt /\ answer[i] = "none"
    /\ admitted[i] # "claimed" => wire[i] = [st |-> "none", filled |-> 0]
    /\ admitted[i] = "queued" => answer[i] = "none" /\ att[i].state = "flight"
    /\ admitted[i] = "cancelled" => answer[i] \in {"none", "notSent", "said"}
    /\ admitted[i] = "claimed" => answer[i] # "none"
    /\ answer[i] \in {"notSent", "reject", "noMatch"} => wire[i].st # "open" /\ wire[i].filled = 0
    /\ answer[i] = "watch" => att[i].state \in {"flight", "unknown"}
    /\ answer[i] = "said" => att[i].state \in {"over", "gone"}
    /\ wire[i].st # "over" => wire[i].filled = 0
    /\ att[i].filled <= wire[i].filled /\ wire[i].filled <= att[i].qty

\* What an attempt takes or will take from the inventory.
Booked == [i \in Attempts |-> att[i].dir * (IF i \in Unresolved(att) THEN att[i].qty ELSE att[i].filled)]

\* With every open attempt done, what the priced fills left open is the inventory.
Balanced == due \/ applied + SumFunctionOnSet(Booked, Attempts) = inventory

\* An attempt can still ask for its quantity while it is open, and while its refusal may be
\* answered with a retry.
Held == [i \in Attempts |->
            IF i \in Unresolved(att) \/ (att[i].state = "over" /\ answer[i] # "said")
            THEN att[i].qty ELSE att[i].filled]

UnderCorrection == \E i \in Unresolved(att) \cup Completed : att[i].purpose = "Reduce"

\* The priced fills cover what the attempts took and can still ask for, and what waits in the inventory
\* unless that is being corrected.
Reserved ==
    \/ raced
    \/ /\ inventory >= 0 /\ \A i \in Attempts : att[i].dir = -1
       /\ applied >= SumFunctionOnSet(Held, Attempts)
       /\ UnderCorrection \/ applied >= SumFunctionOnSet(Held, Attempts) + inventory

\* A ticket taken back before the worker answered: its exposure is owed, and may be retried.
Late == \A i \in Attempts : att[i].state = "over" /\ answer[i] # "said" => due

LedgerInv ==
    /\ LedgerTypeOK /\ ClosedOnEvidence /\ \A i \in Attempts : Lifecycle(i)
    /\ Balanced /\ Reserved /\ Late
=============================================================================
