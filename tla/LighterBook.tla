----------------------------- MODULE LighterBook -----------------------------
(***************************************************************************)
(* A Lighter order book kept from a snapshot and sequenced deltas.  Three  *)
(* readers keep one each with the same rules: the market-data connector    *)
(* (connectors/lighter.rs, lighter/local_book.rs), the taker's venue       *)
(* client (taker/venues/lighter.rs) and the XEMM hedge worker              *)
(* (livebot/exec/hyperliquid.rs).  They differ in what a failed frame      *)
(* leaves behind and in what others may read.                              *)
(*                                                                         *)
(* The venue's book at a position is a function from levels to sizes; a    *)
(* delta carries the absolute sizes of the levels it changed.  The network *)
(* may skip, repeat and overlap deltas.                                    *)
(***************************************************************************)
EXTENDS Integers, Sequences

CONSTANTS
    MaxMoves, \* bound on the changes of the venue's book
    Sizes     \* the sizes of a level, 0 among them: no level

Levels == {"bid", "ask"}
None == -1
NoBook == [l \in Levels |-> 0]

Readers == {"connector", "taker", "worker"}
\* what the venue's deltas carry: nonces, offsets, both or neither
Sequencing == {"nonce", "offset", "both", "neither"}

VARIABLES
    reader, numbering, \* who keeps the book, and the form of the deltas
    history,           \* the venue's books, by position + 1
    session,           \* "down", "subscribed" until the snapshot came, "up"
    book, initialized, \* the local book
    lastNonce, lastOffset,
    position,          \* history: the position of the last frame that was applied
    cell,              \* the published book: its levels, or NoCell
    down,              \* the connector's flag on its cell
    failed,            \* an unusable frame was seen, the book is not reset yet
    permit             \* the reader's own request to reconnect

vars == <<reader, numbering, history, session, book, initialized, lastNonce, lastOffset, position,
          cell, down, failed, permit>>

NoCell == [at |-> None, levels |-> NoBook]

Now == Len(history) - 1

At(p) == history[p + 1]

Init ==
    /\ reader \in Readers /\ numbering \in Sequencing
    /\ history = <<[l \in Levels |-> 1]>>
    /\ session = "down" /\ book = NoBook /\ initialized = FALSE
    /\ lastNonce = None /\ lastOffset = None /\ position = None
    /\ cell = NoCell /\ down = FALSE /\ failed = FALSE /\ permit = FALSE

\* The venue's book changes in one level.
Move ==
    /\ Now < MaxMoves
    /\ \E l \in Levels, s \in Sizes :
        /\ s # At(Now)[l]
        /\ history' = Append(history, [At(Now) EXCEPT ![l] = s])
    /\ UNCHANGED <<reader, numbering, session, book, initialized, lastNonce, lastOffset, position, cell,
                   down, failed, permit>>

-----------------------------------------------------------------------------
(* Frames.                                                                  *)

Nonces(n) == IF numbering \in {"nonce", "both"} THEN n ELSE None
Offsets(n) == IF numbering \in {"offset", "both"} THEN n ELSE None

\* the levels a delta from b to e restates, at their sizes at e
Changed(b, e) == {l \in Levels : \E p \in b..(e - 1) : At(p)[l] # At(p + 1)[l]}

\* Mutant of ClassifyBookUpdate: any delta that ends later is applied.
ClassifyAhead(begin, end, offset) ==
    IF begin # None /\ lastNonce # None THEN IF end > lastNonce THEN "Apply" ELSE "SkipStale" ELSE "Gap"

\* The verdict on a delta against the last applied position: the nonces decide when both are
\* known, the offsets when they are not.
ClassifyBookUpdate(begin, end, offset) ==
    IF begin # None /\ lastNonce # None
    THEN IF begin > lastNonce THEN "Gap"
         ELSE IF begin = lastNonce \/ end > lastNonce THEN "Apply" ELSE "SkipStale"
    ELSE IF offset # None /\ lastOffset # None
    THEN IF offset = lastOffset + 1 THEN "Apply"
         ELSE IF offset <= lastOffset THEN "SkipStale" ELSE "Gap"
    ELSE "Gap"

\* What the readers of the cell get: only a book with two sides is published to the hot path.
Publishable(b) == reader # "connector" \/ \A l \in Levels : b[l] # 0

Applied(b, p) ==
    /\ book' = b
    /\ initialized' = TRUE
    /\ lastNonce' = IF Nonces(p) # None THEN Nonces(p) ELSE lastNonce
    /\ lastOffset' = IF Offsets(p) # None THEN Offsets(p) ELSE lastOffset
    /\ position' = p
    /\ cell' = IF Publishable(b) THEN [at |-> p, levels |-> b] ELSE cell
    /\ down' = (down /\ ~Publishable(b))

\* The subscription's first frame is the whole book.
Snapshot ==
    /\ session = "subscribed" /\ ~failed
    /\ session' = "up"
    /\ Applied(At(Now), Now)
    /\ UNCHANGED <<reader, numbering, history, failed, permit>>

\* A delta in any order the network can produce; one that continues the book is applied, one that
\* is behind it is dropped, any other is a gap.
Delta(b, e) ==
    /\ session # "down" /\ ~failed
    /\ numbering = "offset" => e = b + 1
    /\ LET verdict == IF ~initialized THEN "Gap"
                      ELSE ClassifyBookUpdate(Nonces(b), Nonces(e), Offsets(e))
       IN \/ /\ verdict = "Apply"
             /\ Applied([l \in Levels |-> IF l \in Changed(b, e) THEN At(e)[l] ELSE book[l]], e)
             /\ failed' = FALSE
          \/ /\ verdict = "SkipStale"
             /\ UNCHANGED <<book, initialized, lastNonce, lastOffset, position, cell, down, failed>>
          \/ /\ verdict = "Gap" /\ failed' = TRUE
             /\ UNCHANGED <<book, initialized, lastNonce, lastOffset, position, cell, down>>
    /\ UNCHANGED <<reader, numbering, history, session, permit>>

\* A frame in sequence with a level that does not parse: the connector parses before it applies,
\* the others stop half way, with nothing published.
Malformed ==
    /\ session = "up" /\ initialized /\ ~failed
    /\ failed' = TRUE
    /\ IF reader = "connector" THEN UNCHANGED book
       ELSE \E l \in Levels : book' = [book EXCEPT ![l] = At(Now)[l]]
    /\ UNCHANGED <<reader, numbering, history, session, initialized, lastNonce, lastOffset, position,
                   cell, down, permit>>

\* A frame that is no order book at all, or has no usable time: a gap for the connector, nothing
\* for the others.
Unreadable ==
    /\ session # "down" /\ ~failed
    /\ failed' = (reader = "connector")
    /\ UNCHANGED <<reader, numbering, history, session, book, initialized, lastNonce, lastOffset,
                   position, cell, down, permit>>

-----------------------------------------------------------------------------
(* Resets and sessions.                                                     *)

\* The connector keeps its last book in the cell and flags it; the others publish nothing.
Reset ==
    /\ book' = NoBook /\ initialized' = FALSE
    /\ lastNonce' = None /\ lastOffset' = None
    /\ IF reader = "connector" THEN down' = TRUE /\ UNCHANGED cell
       ELSE cell' = NoCell /\ UNCHANGED down

\* The handler of the unusable frame resets the book and asks for a new session.
ResetAfterGap ==
    /\ failed /\ failed' = FALSE
    /\ Reset
    /\ permit' = TRUE
    /\ UNCHANGED <<reader, numbering, history, session, position>>

\* The taker's sanity check does the same for a book it distrusts.
RequestReconnect ==
    /\ reader = "taker" /\ ~failed
    /\ Reset
    /\ permit' = TRUE
    /\ UNCHANGED <<reader, numbering, history, session, position, failed>>

\* A session ends by itself or because a stored request is found; the book is reset again.
Disconnect ==
    /\ session # "down" /\ ~failed
    /\ session' = "down"
    /\ Reset
    /\ permit' \in {permit, FALSE}
    /\ UNCHANGED <<reader, numbering, history, position, failed>>

Subscribe ==
    /\ session = "down" /\ session' = "subscribed"
    /\ UNCHANGED <<reader, numbering, history, book, initialized, lastNonce, lastOffset, position, cell,
                   down, failed, permit>>

Next ==
    \/ Move \/ Snapshot \/ Malformed \/ Unreadable \/ ResetAfterGap \/ RequestReconnect \/ Disconnect \/ Subscribe
    \/ \E b \in 0..Now, e \in 0..Now : b < e /\ Delta(b, e)

Spec == Init /\ [][Next]_vars

-----------------------------------------------------------------------------
(* Properties.                                                              *)

\* What a reader may take for the current book: the cell that is not flagged, and for the worker,
\* which is read in place, the book itself.
Readable ==
    IF reader = "worker" THEN IF initialized /\ ~failed THEN [at |-> position, levels |-> book] ELSE NoCell
    ELSE IF down THEN NoCell ELSE cell

\* Whatever the network skips, repeats or overlaps, a book that is read as current is exactly the
\* venue's book at the position it claims.
BooksAreTheVenues ==
    Readable.at # None => Readable.levels = At(Readable.at)

\* A local book that is in use is the venue's at its position: no delta was missed under it.
NoDeltaMissed == initialized /\ ~failed => book = At(position)

\* The book that is shown never goes back to an earlier position of the venue's.
NeverBackwards ==
    [][Readable.at # None /\ Readable'.at # None => Readable'.at >= Readable.at]_vars
=============================================================================
