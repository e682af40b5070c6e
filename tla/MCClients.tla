------------------------------ MODULE MCClients ------------------------------
(***************************************************************************)
(* What talks to the venues and keeps what they said, one scenario each:   *)
(* the nonce counter two processes share, the sizes of the taker's closes, *)
(* a feed and its watchers, a sequenced Lighter book, the sending of       *)
(* Lighter orders and the reading of what became of one.  A scenario takes *)
(* the steps of one model; the others stay as they start.                  *)
(***************************************************************************)
EXTENDS MCAsterNonce, LighterSend

\* the closes: partial fills, exact reads, and REST that catches up within its waits
Clip == 2
Tolerance == 0
MinRetry == 2
MaxLoss == 1
MaxCloses == 2
LagBounded == TRUE
MaxExecutions == 2
MaxOrders == 4
MaxOutside == 1

\* the feed: limits small enough to be reached, one trip short of the comparisons' own limit
ConnStale == 2
BookStale == 1
Idle == 3
Limit == 2
MaxBackoff == 2
MaxTrips == 2

\* the Lighter book: four books of the venue, so that deltas skip, repeat and overlap
MaxMoves == 3
Sizes == {0, 1, 2}

\* one order of three lots to resolve through a route that overflows
Lots == 3
Capacity == 1
MaxSent == 4

VARIABLES
    scenario,
    \* TakerSession
    orders, pos, shown, outside, marker, pnl, booked, breaker, retired, engine, armed, unresolved,
    cum, exec, batch, known, pre, expected, retried, closes, estimate,
    \* FeedWatch
    session, silence, pause, backoff, msgAge, bookAge, awake, down, divergent, breaches, asked,
    nudge, gate, killed, trips, unlike, alike,
    \* LighterBook
    reader, numbering, history, subscription, book, initialized, lastNonce, lastOffset, position,
    shownBook, flagged, failed, request,
    \* LighterFills
    resolver, filled, ended, sent, route, overflow, cached, trades, counted, terminal, passive, phase, reported

K == INSTANCE TakerSession WITH pc <- engine
F == INSTANCE FeedWatch WITH permit <- asked, alive <- awake
L == INSTANCE LighterBook WITH session <- subscription, cell <- shownBook, down <- flagged, permit <- request
R == INSTANCE LighterFills WITH seen <- trades, keeper <- resolver, told <- reported

nonceVars == <<sized, header, counter, lock, pc, now, previous, issued>>
takerVars == <<orders, pos, shown, outside, marker, pnl, booked, breaker, retired, engine, armed,
               unresolved, cum, exec, batch, known, pre, expected, retried, closes, estimate>>
feedVars == <<session, silence, pause, backoff, msgAge, bookAge, awake, down, divergent, breaches, asked,
              nudge, gate, killed, trips, unlike, alike>>
bookVars == <<reader, numbering, history, subscription, book, initialized, lastNonce, lastOffset,
              position, shownBook, flagged, failed, request>>
fillVars == <<resolver, filled, ended, sent, route, overflow, cached, trades, counted, terminal, passive,
              phase, reported>>

\* Only the scenario's own model has a choice of where it starts.
CInit ==
    /\ scenario \in {"nonce", "closes", "feed", "book", "sends", "fills"}
    /\ Init /\ K!Init
    /\ F!Init
    /\ L!Init /\ (scenario # "book" => reader = "taker" /\ numbering = "both")
    /\ SendInit /\ (scenario # "sends" => keeper = "taker")
    /\ R!Init /\ (scenario # "fills" => resolver = "taker")

Nonces == scenario = "nonce" /\ Next
          /\ UNCHANGED <<scenario, takerVars, feedVars, bookVars, sendVars, fillVars>>

Closes == scenario = "closes" /\ K!Next
          /\ UNCHANGED <<scenario, nonceVars, feedVars, bookVars, sendVars, fillVars>>

Feed == scenario = "feed" /\ F!Next
        /\ UNCHANGED <<scenario, nonceVars, takerVars, bookVars, sendVars, fillVars>>

Book == scenario = "book" /\ L!Next
        /\ UNCHANGED <<scenario, nonceVars, takerVars, feedVars, sendVars, fillVars>>

Sends == scenario = "sends" /\ SendNext
         /\ UNCHANGED <<scenario, nonceVars, takerVars, feedVars, bookVars, fillVars>>

Fills == scenario = "fills" /\ R!Next
         /\ UNCHANGED <<scenario, nonceVars, takerVars, feedVars, bookVars, sendVars>>

CNext == Nonces \/ Closes \/ Feed \/ Book \/ Sends \/ Fills

CSpec ==
    CInit /\ [][CNext]_<<scenario, nonceVars, takerVars, feedVars, bookVars, sendVars, fillVars>>

-----------------------------------------------------------------------------
\* TakerSession, with partial fills and REST that shows them in time: no close or retry is sized
\* from a residual that is already closed.
ClosesOnce == K!ClosesOnce

\* FeedWatch: the watchers neither starve a feed with stored requests nor mark it for isolated
\* differences, and a feed known down is trusted again only by a full book.
FeedSupervised == [](scenario = "feed" => F!FeedNotStarved) /\ F!MarkedAfterLimit /\ F!DownUntilFullBook

\* LighterBook: a book that is read as current is the venue's book at the position it claims,
\* whatever deltas were lost, repeated or overlapped, and never an earlier one than was shown.
BooksAreTheVenues == [](L!BooksAreTheVenues /\ L!NoDeltaMissed) /\ L!NeverBackwards

\* LighterFills: what is told of an order is the venue's, counted once, and is never taken back.
ToldIsTheVenues == [](scenario = "fills" => R!ToldIsTheVenues) /\ R!ToldOnlyGrows
=============================================================================
