------------------------------ MODULE SimFeed ------------------------------
(* dryrun/feed.rs: how the simulated Lighter re-serves the real order books  *)
(* to a bot's connection, a shift later.  A frame of a stream is the number  *)
(* it has in the stream's sequence; a snapshot numbered n holds what the     *)
(* frames up to n made of the book.  The venue and the wire are external.    *)
EXTENDS Integers, SequencesExt

CONSTANTS
    Streams,
    Shift,      \* shift_us, in ticks: how long after its publication a frame is due
    Fanout,     \* FANOUT: relays a connection may fall behind by
    MaxFrame, MaxTime, MaxSessions, MaxQueued  \* bounds: frames, time, upstream sessions, frames
                                               \* in flight to a connection that subscribes again

VARIABLES
    now,
    sequence,   \* upstream: the last frame followed in this session, per stream; Nothing before a snapshot
    sessions,   \* upstream sessions so far
    gapped,     \* the streams with a hole: the upstream asked for a reconnect
    dueAt,      \* when each frame of each stream is due on the shifted clock
    pending,    \* the hub: [id, stream, frame, due], frames not yet published
    served,     \* the hub's books: the last frame published, per stream
    lastId,
    conn        \* a bot's connection: [open, rx, cut, outbox, got]
vars == <<now, sequence, sessions, gapped, dueAt, pending, served, lastId, conn>>

Nothing == 0
Unsubscribed == -1
Broken == -1       \* what a client has made of a stream with a hole in it
Larger(a, b) == IF a > b THEN a ELSE b

Closed == [open |-> FALSE, following |-> FALSE, rx |-> <<>>, cut |-> [s \in Streams |-> Unsubscribed],
           outbox |-> <<>>, got |-> [s \in Streams |-> Nothing]]

Init == /\ now = 1
        /\ sequence = [s \in Streams |-> Nothing] /\ sessions = 1 /\ gapped = {}
        /\ dueAt = [s \in Streams |-> <<>>]
        /\ pending = <<>> /\ lastId = 0
        /\ served = [s \in Streams |-> Nothing]
        /\ conn = [Closed EXCEPT !.open = TRUE]

-----------------------------------------------------------------------------
(* The hub and the connection. *)

\* Hub::advance: the frames due are published, in arrival order.
Behind(queue) == LET firstLate == SelectInSeq(queue, LAMBDA f : f.due > now) IN
                 IF firstLate = 0 THEN queue ELSE SubSeq(queue, 1, firstLate - 1)
Ahead(queue) == SubSeq(queue, Len(Behind(queue)) + 1, Len(queue))
Published(queue) == [s \in Streams |->
                        FoldLeft(LAMBDA n, f : IF f.stream = s THEN f.frame ELSE n, served[s], Behind(queue))]

\* Outbox::push: never released before the frame ahead of it.
Push(outbox, item, latency) ==
    LET last == IF outbox = <<>> THEN 0 ELSE outbox[Len(outbox)].release IN
    Append(outbox, [item EXCEPT !.release = Larger(item.release + latency, last)])
Item(s, n, snapshot, due) == [stream |-> s, frame |-> n, snapshot |-> snapshot, release |-> due]

Relayed(relay) == IF conn.following THEN [conn EXCEPT !.rx = Append(@, relay)] ELSE conn

Arrive(s, n, snapshot, due) ==
    LET f == [id |-> lastId + 1, stream |-> s, frame |-> n, snapshot |-> snapshot, due |-> due]
        queue == Append(pending, f) IN
    /\ lastId' = lastId + 1
    /\ served' = Published(queue)
    /\ pending' = Ahead(queue)
    /\ conn' = Relayed(f)

-----------------------------------------------------------------------------
(* The upstream: lighter_upstream follows each stream's sequence. *)

\* The frame that continues the sequence, or the snapshot that starts it, published up to now.
Forward(s, published) ==
    LET n == IF sequence[s] = Nothing THEN Larger(Len(dueAt[s]), 1) ELSE sequence[s] + 1
        due == IF n <= Len(dueAt[s]) THEN dueAt[s][n] ELSE published + Shift IN
    /\ s \notin gapped /\ n <= MaxFrame
    /\ published \in now - Shift .. now
    /\ n > 1 => due >= dueAt[s][n - 1]
    /\ sequence' = [sequence EXCEPT ![s] = n]
    /\ dueAt' = IF n <= Len(dueAt[s]) THEN dueAt ELSE [dueAt EXCEPT ![s] = Append(@, due)]
    /\ Arrive(s, n, sequence[s] = Nothing, due)
    /\ UNCHANGED <<now, sessions, gapped>>

\* A frame is lost: the next one does not continue the sequence and is not forwarded.
Lose(s) == /\ sequence[s] # Nothing /\ Len(dueAt[s]) < MaxFrame - 1
           /\ sequence[s] = Len(dueAt[s])
           /\ dueAt' = [dueAt EXCEPT ![s] = Append(@, Larger(dueAt[s][Len(dueAt[s])], now))]
           /\ gapped' = gapped \cup {s}
           /\ UNCHANGED <<now, sequence, sessions, pending, served, lastId, conn>>

\* The session ends, asked or not: Hub::gap if it carried anything.
SessionEnds == /\ sessions < MaxSessions
               /\ sessions' = sessions + 1
               /\ gapped' = {}
               /\ sequence' = [s \in Streams |-> Nothing]
               /\ IF \E s \in Streams : sequence[s] # Nothing
                  THEN /\ pending' = <<>>
                       /\ served' = [s \in Streams |-> Nothing]
                       /\ conn' = Relayed([id |-> Nothing, stream |-> Nothing, frame |-> Nothing, snapshot |-> FALSE, due |-> 0])
                  ELSE UNCHANGED <<pending, served, conn>>
               /\ UNCHANGED <<now, dueAt, lastId>>

-----------------------------------------------------------------------------
(* The connection: Follower. *)

\* What a subscriber gets first: the book as published, then the frames still in flight; and
\* the id of the last frame that covers.
Subscribe(s, latency) ==
    LET snapshot == IF Published(pending)[s] = Nothing THEN <<>>
                    ELSE <<Item(s, Published(pending)[s], TRUE, now)>>
        flight == SelectSeq(Ahead(pending), LAMBDA f : f.stream = s)
        first == snapshot \o [i \in DOMAIN flight |-> Item(s, flight[i].frame, flight[i].snapshot, flight[i].due)] IN
    /\ conn.open /\ Len(conn.outbox) + Len(conn.rx) <= MaxQueued
    /\ served' = Published(pending)
    /\ pending' = Ahead(pending)
    /\ conn' = [conn EXCEPT !.following = TRUE, !.cut[s] = lastId,
                            !.outbox = FoldLeft(LAMBDA box, item : Push(box, item, latency), @, first)]
    /\ UNCHANGED <<now, sequence, sessions, gapped, dueAt, lastId>>

Unsubscribe(s) == /\ conn.open /\ conn.cut[s] # Unsubscribed
                  /\ conn' = [conn EXCEPT !.cut[s] = Unsubscribed, !.got[s] = Nothing]
                  /\ UNCHANGED <<now, sequence, sessions, gapped, dueAt, pending, served, lastId>>

\* next(): a relayed frame joins the outbox unless the subscription covered it; a gap, or a
\* connection too far behind, closes.
Receive(latency) ==
    LET f == Head(conn.rx) IN
    /\ conn.open /\ conn.rx # <<>>
    /\ conn' = IF f.id = Nothing \/ Len(conn.rx) > Fanout THEN Closed
               ELSE [conn EXCEPT !.rx = Tail(@),
                                 !.outbox = IF conn.cut[f.stream] # Unsubscribed /\ f.id > conn.cut[f.stream]
                                            THEN Push(@, Item(f.stream, f.frame, f.snapshot, f.due), latency) ELSE @]
    /\ UNCHANGED <<now, sequence, sessions, gapped, dueAt, pending, served, lastId>>

\* The bot's own client follows the sequence it is sent; what it still gets of a stream it left
\* it drops.
Deliver ==
    LET item == Head(conn.outbox)
        before == conn.got[item.stream] IN
    /\ conn.open /\ conn.outbox # <<>> /\ item.release <= now
    /\ conn' = [conn EXCEPT !.outbox = Tail(@),
                            !.got[item.stream] = IF conn.cut[item.stream] = Unsubscribed THEN Nothing
                                                 ELSE IF item.snapshot \/ item.frame = before + 1 THEN item.frame
                                                 ELSE IF before = Nothing THEN Nothing ELSE Broken]
    /\ UNCHANGED <<now, sequence, sessions, gapped, dueAt, pending, served, lastId>>

Reconnect == /\ ~conn.open
             /\ conn' = [conn EXCEPT !.open = TRUE]
             /\ UNCHANGED <<now, sequence, sessions, gapped, dueAt, pending, served, lastId>>

Tick == /\ now < MaxTime
        /\ now' = now + 1
        /\ UNCHANGED <<sequence, sessions, gapped, dueAt, pending, served, lastId, conn>>

Next == \/ \E s \in Streams, published \in 1 - Shift .. MaxTime : Forward(s, published)
        \/ \E s \in Streams : Lose(s) \/ Unsubscribe(s)
        \/ \E s \in Streams, latency \in {0, 1} : conn.cut[s] = Unsubscribed /\ Subscribe(s, latency)
        \/ \E latency \in {0, 1} : Receive(latency)
        \/ SessionEnds \/ Deliver \/ Reconnect \/ Tick

Spec == Init /\ [][Next]_vars

-----------------------------------------------------------------------------
(* Properties *)

\* What a connection is sent of a stream has no hole, wherever it subscribed between a frame's
\* arrival and its publication.
NoHole == \A s \in Streams : conn.got[s] # Broken

\* Nothing is known before it is due: not a frame, and not through a snapshot either.
NotEarly == \A s \in Streams : conn.got[s] > Nothing => dueAt[s][conn.got[s]] <= now

\* A connection with nothing left to send has everything the upstream followed.
NothingMissed ==
    \A s \in Streams :
        conn.open /\ conn.cut[s] # Unsubscribed /\ conn.rx = <<>> /\ conn.outbox = <<>> => conn.got[s] = sequence[s]

ServedInSequence == [](NoHole /\ NotEarly /\ NothingMissed)

=============================================================================
