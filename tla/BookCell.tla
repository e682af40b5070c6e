------------------------------- MODULE BookCell -------------------------------
(***************************************************************************)
(* The wait-free book cells of one XEMM market (hotpath/book_cell.rs), the *)
(* thread of each venue that publishes into its cell, the strategy that    *)
(* prices a maker order from both cells (livebot/strategy.rs) and the      *)
(* Aster worker that claims the order's permit before it sends             *)
(* (livebot/exec/command.rs).                                              *)
(*                                                                         *)
(* Each load of an atomic is a step of its own, and so is each store; what *)
(* a thread computes, or loads of what only it stores, is part of the step *)
(* beside it.                                                              *)
(* A book is named by its exchange time, and the hedge's touch also by its *)
(* prices.  The cells' third flag, divergent, belongs to FeedWatch.        *)
(***************************************************************************)
EXTENDS Integers, Sequences

CONSTANTS
    MaxPublications, \* bound on the publications and losses of the streams
    MaxPricings      \* bound on the strategy's pricings

Cells == {"aster", "hedge"}

VARIABLES
    hotMath,    \* use_hot_integer_math: whether the venues publish integer books too
    cell,       \* per venue: the atomics of its VenueBook
    script,     \* per venue: what is left of the publication its thread performs
    frame,      \* per venue: the frame being published
    dirty,      \* the market's bit in DirtyMarkets
    permit,     \* whether the wakeup holds its one permit
    at,         \* what the strategy has left to load of a pricing
    seen,       \* the generations of the strategy's slot
    quote,      \* what the strategy has loaded
    queued,     \* the priced order and its admission: "none", "queued", "claiming", "won", "refused"
    claim,      \* what the worker has left to load of a claim
    epoch,      \* the maker epoch; every revocation moves it
    checked,    \* history: both cells when the worker compared their versions
    published, priced

vars == <<hotMath, cell, script, frame, dirty, permit, at, seen, quote, queued, claim, epoch, checked,
          published, priced>>

Zero == [c \in Cells |-> 0]
NoQuote == [generation |-> Zero, version |-> Zero, book |-> Zero, bbo |-> Zero, epoch |-> 0]
NoCheck == [book |-> Zero, bbo |-> Zero, hot |-> Zero, bboHot |-> Zero]
NoFrame == [time |-> 0, price |-> 0, changed |-> FALSE]

\* A cell after its first frames: both connectors publish a full book first.
First ==
    [book |-> 1, hot |-> 1, bbo |-> 1, bboHot |-> 1, price |-> 0,
     hotOnly |-> FALSE, bboHotOnly |-> FALSE, bookTime |-> 1, bboTime |-> 1,
     down |-> FALSE, generation |-> 1, bboGeneration |-> 1, version |-> 0]

Init ==
    /\ hotMath \in BOOLEAN
    /\ cell = [c \in Cells |-> First]
    /\ script = [c \in Cells |-> <<>>]
    /\ frame = [c \in Cells |-> NoFrame]
    /\ dirty = FALSE /\ permit = FALSE
    /\ at = <<>> /\ seen = [c \in Cells |-> 2] /\ quote = NoQuote
    /\ queued = "none" /\ claim = <<>> /\ epoch = 0 /\ checked = NoCheck
    /\ published = 0 /\ priced = 0

-----------------------------------------------------------------------------
(* The publications: the stores of each, in the order the code makes them.  *)

\* Each ends with the version even again; the market is marked dirty, then the strategy's permit
\* stored.
Wakes == <<"mark", "notify">>
Publish == <<"begin", "book", "clear", "up", "generation", "end">> \o Wakes
PublishHot == <<"begin", "hot", "book", "clear", "up", "generation", "end">> \o Wakes
PublishHotOnly == <<"begin", "hot", "guard", "generation", "end">> \o Wakes
PublishBbo == <<"begin", "bbo", "clearBbo", "bboGeneration", "end">> \o Wakes
PublishBboHot == <<"begin", "bboHot", "bbo", "clearBbo", "bboGeneration", "end">> \o Wakes
PublishBboHotOnly == <<"begin", "bboHot", "guardBbo", "bboGeneration", "end">> \o Wakes
\* an update that leaves the prices wakes nobody
PublishBboPriceWake == <<"begin", "bbo", "swapBbo", "endPrice">>
PublishBboPriceWakeHot == <<"begin", "bboHot", "bbo", "swapBbo", "endPrice">>

\* What a frame publishes: with integer books the projection goes first.
DepthFrame == IF hotMath THEN PublishHotOnly \o PublishHot ELSE Publish
TickerFrame == IF hotMath THEN PublishBboHotOnly \o PublishBboHot ELSE PublishBbo
LighterFrame == DepthFrame \o (IF hotMath THEN PublishBboPriceWakeHot ELSE PublishBboPriceWake)

\* The venue's thread takes a frame that is newer than what its cell accepted (an older one only
\* touches the cell), and records its exchange time.
AcceptExchTs(c) == 1 + IF cell[c].bookTime > cell[c].bboTime THEN cell[c].bookTime
                                                             ELSE cell[c].bboTime

Frame(c, publications, depth, bbo, price) ==
    /\ script[c] = <<>>
    /\ published < MaxPublications
    /\ frame' = [frame EXCEPT ![c] = [time |-> AcceptExchTs(c), price |-> price, changed |-> FALSE]]
    /\ cell' = [cell EXCEPT ![c].bookTime = IF depth THEN AcceptExchTs(c) ELSE @,
                            ![c].bboTime = IF bbo THEN AcceptExchTs(c) ELSE @]
    /\ script' = [script EXCEPT ![c] = publications]
    /\ published' = published + 1
    /\ UNCHANGED <<hotMath, dirty, permit, at, seen, quote, queued, claim, epoch, checked, priced>>

\* The prices of Lighter's touch may be those of the frame before.
AsterDepth == Frame("aster", DepthFrame, TRUE, FALSE, 0)
AsterTicker == Frame("aster", TickerFrame, FALSE, TRUE, 0)
LighterUpdate == \E price \in {0, 1} : Frame("hedge", LighterFrame, TRUE, TRUE, price)

\* What one store of a publication does to the cell k.
Stored(step, k, f) ==
    CASE step \in {"begin", "end", "endPrice"} -> [k EXCEPT !.version = @ + 1]
      [] step \in {"hot", "bboHot", "book"} -> [k EXCEPT ![step] = f.time]
      [] step = "bbo" -> [k EXCEPT !.bbo = f.time, !.price = f.price]
      [] step \in {"generation", "bboGeneration"} -> [k EXCEPT ![step] = @ + 1]
      [] step \in {"clear", "guard"} -> [k EXCEPT !.hotOnly = (step = "guard")]
      [] step \in {"clearBbo", "swapBbo", "guardBbo"} -> [k EXCEPT !.bboHotOnly = (step = "guardBbo")]
      [] step = "up" -> [k EXCEPT !.down = FALSE]
      [] step = "down" -> [k EXCEPT !.down = TRUE]
      [] OTHER -> k

\* What follows a store: a Lighter touch wakes the readers when its prices changed, or an integer
\* touch was ahead of it.
Following(c) ==
    IF Head(script[c]) = "endPrice" /\ frame[c].changed THEN <<"bboGeneration">> \o Wakes
    ELSE Tail(script[c])

Store(c) ==
    /\ script[c] # <<>>
    /\ LET step == Head(script[c])
       IN /\ cell' = [cell EXCEPT ![c] = Stored(step, @, frame[c])]
          /\ dirty' = (dirty \/ step = "mark")
          /\ permit' = (permit \/ step = "notify")
          /\ frame' = CASE step = "bbo" -> [frame EXCEPT ![c].changed = cell[c].price # frame[c].price]
                        [] step = "swapBbo" -> [frame EXCEPT ![c].changed = @ \/ cell[c].bboHotOnly]
                        [] Following(c) = <<>> -> [frame EXCEPT ![c] = NoFrame]
                        [] OTHER -> frame
          /\ script' = [script EXCEPT ![c] = Following(c)]
    /\ UNCHANGED <<hotMath, at, seen, quote, queued, claim, epoch, checked, published, priced>>

\* The connector knows its stream is down: the flag, and the readers are woken.
MarkStreamDown(c) ==
    /\ script[c] = <<>> /\ published < MaxPublications
    /\ script' = [script EXCEPT ![c] = <<"down">> \o Wakes]
    /\ published' = published + 1
    /\ UNCHANGED <<hotMath, cell, frame, dirty, permit, at, seen, quote, queued, claim, epoch, checked, priced>>

-----------------------------------------------------------------------------
(* The strategy.  A load names a field of a cell.                           *)

Load(c, field) == [of |-> c, field |-> field]
DirtyBit == <<Load("aster", "dirty")>>

\* quote_generation of either cell, has_hot_only_update of either, then the versions before the books
GenerationLoads ==
    <<Load("aster", "generation"), Load("aster", "bboGeneration"),
      Load("hedge", "generation"), Load("hedge", "bboGeneration")>>
GuardLoads ==
    <<Load("aster", "hotOnly"), Load("aster", "bboHotOnly"),
      Load("hedge", "hotOnly"), Load("hedge", "bboHotOnly")>>
BookLoads ==
    <<Load("aster", "version"), Load("hedge", "version"), Load("aster", "book"),
      Load("aster", "bbo"), Load("hedge", "book"), Load("hedge", "bbo")>>
PricingLoads == (IF hotMath THEN GuardLoads ELSE <<>>) \o BookLoads

Loads(fields) == at # <<>> /\ Head(at).field \in fields

\* The loop is woken, takes the dirty markets and prices this one if its bit is set; a tick
\* consumes the permit instead and prices every market, whatever its generations when none waited.
Wakeup ==
    /\ at = <<>> /\ permit /\ priced < MaxPricings /\ queued \in {"none", "won", "refused"}
    /\ permit' = FALSE /\ at' = DirtyBit
    /\ queued' = "none"
    /\ UNCHANGED <<hotMath, cell, script, frame, dirty, seen, quote, claim, epoch, checked, published, priced>>

TakeDirty ==
    /\ Loads({"dirty"})
    /\ dirty' = FALSE /\ at' = IF dirty THEN GenerationLoads ELSE <<>>
    /\ UNCHANGED <<hotMath, cell, script, frame, permit, seen, quote, queued, claim, epoch, checked,
                   published, priced>>

Tick ==
    /\ at = <<>> /\ priced < MaxPricings /\ queued \in {"none", "won", "refused"}
    /\ permit' = FALSE
    /\ at' = IF permit THEN GenerationLoads ELSE PricingLoads
    /\ queued' = "none"
    /\ UNCHANGED <<hotMath, cell, script, frame, dirty, seen, quote, claim, epoch, checked, published, priced>>

QuoteGeneration(c) == cell[c].generation + cell[c].bboGeneration

\* A pricing that was not forced stops when neither cell's generation has moved.
Generations ==
    /\ Loads({"generation", "bboGeneration"})
    /\ LET c == Head(at).of
           read == [quote.generation EXCEPT ![c] = @ + cell[c][Head(at).field]]
       IN IF Tail(at) # <<>>
          THEN quote' = [quote EXCEPT !.generation = read] /\ at' = Tail(at) /\ UNCHANGED seen
          ELSE quote' = NoQuote /\ seen' = read /\ at' = IF read = seen THEN <<>> ELSE PricingLoads
    /\ UNCHANGED <<hotMath, cell, script, frame, dirty, permit, queued, claim, epoch, checked, published,
                   priced>>

\* An integer book ahead of its raw book may cancel, never price.
Guards ==
    /\ Loads({"hotOnly", "bboHotOnly"})
    /\ at' = IF cell[Head(at).of][Head(at).field] THEN <<>> ELSE Tail(at)
    /\ UNCHANGED <<hotMath, cell, script, frame, dirty, permit, seen, quote, queued, claim, epoch, checked,
                   published, priced>>

\* The versions and the books.  With the last of them the order is priced, and queued with a permit
\* that names the versions and the maker epoch; or none is wanted.
Reprice ==
    /\ Loads({"version", "book", "bbo"})
    /\ LET c == Head(at).of
           read == [quote EXCEPT ![Head(at).field][c] = cell[c][Head(at).field]]
       IN IF Tail(at) # <<>>
          THEN quote' = read /\ UNCHANGED <<queued, priced>>
          ELSE /\ priced' = priced + 1
               /\ \/ queued' = "none" /\ quote' = NoQuote
                  \/ queued' = "queued" /\ quote' = [read EXCEPT !.epoch = epoch]
    /\ at' = Tail(at)
    /\ UNCHANGED <<hotMath, cell, script, frame, dirty, permit, seen, claim, epoch, checked, published>>

\* Freezing, a drain and a shutdown move the epoch.
RevokeMakers ==
    /\ queued \in {"queued", "claiming"}
    /\ epoch = 0 /\ epoch' = 1
    /\ UNCHANGED <<hotMath, cell, script, frame, dirty, permit, at, seen, quote, queued, claim, checked,
                   published, priced>>

-----------------------------------------------------------------------------
(* The worker claims the permit: the epoch, then each cell in turn.         *)

ClaimLoads ==
    <<Load("aster", "version"), Load("aster", "down"), Load("aster", "hotOnly"), Load("aster", "bboHotOnly"),
      Load("hedge", "version"), Load("hedge", "down"), Load("hedge", "hotOnly"), Load("hedge", "bboHotOnly")>>

Refused == queued' = "refused" /\ claim' = <<>> /\ quote' = NoQuote /\ checked' = NoCheck

ClaimEpoch ==
    /\ queued = "queued"
    /\ \/ epoch = quote.epoch /\ queued' = "claiming" /\ claim' = ClaimLoads /\ UNCHANGED <<quote, checked>>
       \/ epoch # quote.epoch /\ Refused
    /\ UNCHANGED <<hotMath, cell, script, frame, dirty, permit, at, seen, epoch, published, priced>>

\* Mutant of Admits: the version only has to be even.
AdmitsIfEven(c, field) ==
    IF field = "version" THEN quote.version[c] % 2 = 0 ELSE ~cell[c][field]

\* What a load has to show for the claim to go on.
Admits(c, field) ==
    IF field = "version" THEN quote.version[c] % 2 = 0 /\ cell[c].version = quote.version[c]
    ELSE ~cell[c][field]

\* history: both books with the first version, the integer books of a cell with its own
Checked(c, field) ==
    LET books == [checked EXCEPT !.book = [d \in Cells |-> cell[d].book], !.bbo = [d \in Cells |-> cell[d].bbo]]
    IN  IF field # "version" THEN checked
        ELSE [(IF c = "aster" THEN books ELSE checked)
                 EXCEPT !.hot[c] = cell[c].hot, !.bboHot[c] = cell[c].bboHot]

ClaimLoad ==
    /\ claim # <<>>
    /\ LET c == Head(claim).of
           field == Head(claim).field
       IN \/ /\ Admits(c, field)
             /\ claim' = Tail(claim) /\ checked' = Checked(c, field) /\ UNCHANGED <<queued, quote>>
          \/ ~Admits(c, field) /\ Refused
    /\ UNCHANGED <<hotMath, cell, script, frame, dirty, permit, at, seen, epoch, published, priced>>

\* The admission's own state is the last word; its deadline may have passed.
ClaimAdmission ==
    /\ queued = "claiming" /\ claim = <<>>
    /\ quote' = NoQuote /\ checked' = NoCheck /\ queued' \in {"won", "refused"}
    /\ UNCHANGED <<hotMath, cell, script, frame, dirty, permit, at, seen, claim, epoch, published, priced>>

Next ==
    \/ AsterDepth \/ AsterTicker \/ LighterUpdate
    \/ \E c \in Cells : Store(c) \/ MarkStreamDown(c)
    \/ Wakeup \/ TakeDirty \/ Tick \/ Generations \/ Guards \/ Reprice \/ RevokeMakers
    \/ ClaimEpoch \/ ClaimLoad \/ ClaimAdmission

Spec == Init /\ [][Next]_vars

-----------------------------------------------------------------------------
(* Properties.                                                              *)

Won == queued = "claiming" /\ queued' = "won"

\* An order that is sent was priced from books that both venues showed at one instant after the
\* worker took it up: never from a torn cell, nor from one venue before and the other after a
\* publication, whatever is stored between the loads of either thread (content_version,
\* MakerPermit).
PricedFromOneInstant == [][Won => quote.book = checked.book /\ quote.bbo = checked.bbo]_vars

\* An integer book or touch that was ahead when the worker compared the version has its raw book in
\* the cell before the order is sent: nothing is sent while only an integer book is newer.
NoneAhead ==
    [][Won => \A c \in Cells : cell[c].book >= checked.hot[c] /\ cell[c].bbo >= checked.bboHot[c]]_vars

\* No update is slept through: while the strategy is idle, a finished publication it has not priced
\* has left a permit, or one is about to be left.
NoneSleptThrough ==
    \A c \in Cells :
        (at = <<>> /\ script[c] = <<>> /\ QuoteGeneration(c) # seen[c] /\ ~permit) =>
            \E d \in Cells : script[d] # <<>>
=============================================================================
