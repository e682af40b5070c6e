----------------------------- MODULE SimServers -----------------------------
(* dryrun/lighter.rs and dryrun/aster.rs: what the simulated venues' servers  *)
(* keep of their own between the bot and the matching core.  Three parts that *)
(* share nothing, one of them per behaviour: a Lighter connection's account   *)
(* channels, the nonces Aster remembers of a signer, and its listen key.      *)
EXTENDS Integers, SequencesExt

CONSTANTS
    Orders,          \* orders the bot places on Lighter
    Events,          \* EVENTS: how far a connection may fall behind
    Kept, Near,      \* NONCES_KEPT, NONCE_WINDOW_US
    Ttl,             \* LISTEN_KEY_TTL_US
    Conns,           \* user streams
    MaxTime, MaxKeys, MaxFlight \* bounds; MaxFlight: events the core holds back at a time

VARIABLES
    part,
    status,    \* the core's orders: "none", "new", "partial", "filled", "canceled"
    flight,    \* private events the core has not delivered yet: [order, status]
    private,   \* the connection: [channels, following, peeking, backlog, open]
    shown,     \* the open orders the bot was last told of
    untold,    \* fills since the connection follows its trades that it was not told of
    now,
    recent, uses,   \* the nonces remembered, and how often each was accepted
    key, streams    \* the listen key with its deadline; the key each user stream was opened with
core == <<status, flight>>
account == <<private, shown, untold>>
signing == <<recent, uses>>
listening == <<key, streams>>
vars == <<part, core, account, now, signing, listening>>

Kinds == {"All", "Orders"}     \* account_all and account_all_orders
NoConn == [channels |-> {}, following |-> FALSE, peeking |-> "none", backlog |-> <<>>, open |-> {}]
NoKey == [id |-> 0, deadline |-> 0]

Init == /\ part \in {"account", "signing", "listening"}
        /\ status = [o \in Orders |-> "none"]
        /\ flight = <<>> /\ private = NoConn
        /\ shown = {} /\ untold = {}
        /\ now = 1
        /\ recent = {} /\ uses = [n \in 1..MaxTime |-> 0]
        /\ key = NoKey /\ streams = [c \in Conns |-> 0]

-----------------------------------------------------------------------------
(* Lighter: the account channels of one connection. *)

Working == {"new", "partial"}
OpenOrders == {o \in Orders : status[o] \in Working}
Fills == {"partial", "filled"}
Steps == {<<"none", "new">>, <<"new", "partial">>, <<"new", "filled">>, <<"new", "canceled">>,
          <<"partial", "filled">>, <<"partial", "canceled">>}

\* The core moves an order: the venue's state is new at once, the event leaves later (external).
Acts(o, after) ==
    /\ <<status[o], after>> \in Steps /\ Len(flight) < MaxFlight
    /\ status' = [status EXCEPT ![o] = after]
    /\ flight' = Append(flight, [order |-> o, status |-> after])
    /\ untold' = IF after \in Fills /\ "All" \in private.channels THEN untold \cup {<<o, after>>} ELSE untold
    /\ UNCHANGED <<private, shown>>

Delivers == /\ flight # <<>> /\ Len(private.backlog) <= Events
            /\ flight' = Tail(flight)
            /\ private' = IF private.following THEN [private EXCEPT !.backlog = Append(@, Head(flight))] ELSE private
            /\ UNCHANGED <<status, shown, untold>>

\* Subscribing follows the events first, then reads the state.
Subscribe(kind) ==
    /\ private.peeking = "none" /\ kind \notin private.channels
    /\ private' = [private EXCEPT !.following = TRUE, !.peeking = kind]
    /\ UNCHANGED <<core, shown, untold>>

Peek == /\ private.peeking # "none"
        /\ private' = [private EXCEPT !.open = OpenOrders, !.channels = @ \cup {private.peeking}, !.peeking = "none"]
        /\ shown' = IF private.peeking = "Orders" THEN OpenOrders ELSE shown
        /\ UNCHANGED <<core, untold>>

Unsubscribe(kind) ==
    /\ private.peeking = "none" /\ kind \in private.channels
    /\ private' = [private EXCEPT !.channels = @ \ {kind}]
    /\ untold' = IF kind = "All" THEN {} ELSE untold
    /\ UNCHANGED <<core, shown>>

\* An event updates the orders shown, complete in each message, and tells of a fill; a
\* connection too far behind is closed.
Updates ==
    LET e == Head(private.backlog)
        open == IF e.status \in Working THEN private.open \cup {e.order} ELSE private.open \ {e.order} IN
    /\ private.peeking = "none" /\ private.backlog # <<>>
    /\ IF Len(private.backlog) > Events
       THEN private' = NoConn /\ shown' = {} /\ untold' = {}
       ELSE /\ private' = [private EXCEPT !.backlog = Tail(@), !.open = open]
            /\ shown' = IF "Orders" \in private.channels THEN open ELSE shown
            /\ untold' = IF "All" \in private.channels THEN untold \ {<<e.order, e.status>>} ELSE untold
    /\ UNCHANGED core

Account == /\ part = "account"
           /\ \/ \E o \in Orders, after \in Working \cup {"filled", "canceled"} : Acts(o, after)
              \/ Delivers \/ Peek \/ Updates
              \/ \E kind \in Kinds : Subscribe(kind) \/ Unsubscribe(kind)
           /\ UNCHANGED <<part, now, signing, listening>>

-----------------------------------------------------------------------------
(* Aster: verify() and the nonces it remembers of a signer. *)

Smallest(nonces) == CHOOSE n \in nonces : \A other \in nonces : n <= other

\* Mutant of Fresh: a nonce older than those remembered is taken.
FreshAgain(nonce) == nonce - now <= Near /\ now - nonce <= Near /\ nonce \notin recent

Fresh(nonce) == /\ nonce - now <= Near /\ now - nonce <= Near
                /\ nonce \notin recent
                /\ Cardinality(recent) >= Kept => nonce > Smallest(recent)

Verify(nonce) ==
    /\ Fresh(nonce)
    /\ uses' = [uses EXCEPT ![nonce] = @ + 1]
    /\ recent' = IF Cardinality(recent) >= Kept THEN (recent \ {Smallest(recent)}) \cup {nonce} ELSE recent \cup {nonce}

Signing == /\ part = "signing"
           /\ \E nonce \in 1..MaxTime : Verify(nonce)
           /\ UNCHANGED <<part, core, account, now, listening>>

-----------------------------------------------------------------------------
(* Aster: the account's one listen key and the user streams opened with it. *)

Live == key.deadline > now

\* POST gives the live key, or a new one, and extends it.
Post == /\ Live \/ key.id < MaxKeys
        /\ key' = [id |-> IF Live THEN key.id ELSE key.id + 1, deadline |-> now + Ttl]
        /\ UNCHANGED streams
Put == /\ Live
       /\ key' = [key EXCEPT !.deadline = now + Ttl]
       /\ UNCHANGED streams
Delete == /\ key' = [key EXCEPT !.deadline = 0]
          /\ UNCHANGED streams

Connect(c, id) == /\ streams[c] = 0 /\ id > 0
                  /\ Live /\ key.id = id
                  /\ streams' = [streams EXCEPT ![c] = id]
                  /\ UNCHANGED key
\* Once a second, a stream whose key is not the live one any more closes.
Check(c) == /\ streams[c] # 0
            /\ ~(Live /\ key.id = streams[c])
            /\ streams' = [streams EXCEPT ![c] = 0]
            /\ UNCHANGED key

Listening == /\ part = "listening"
             /\ \/ Post \/ Put \/ Delete
                \/ \E c \in Conns : Check(c) \/ \E id \in 1..MaxKeys : Connect(c, id)
             /\ UNCHANGED <<part, core, account, now, signing>>

Tick == /\ part \in {"signing", "listening"} /\ now < MaxTime
        /\ now' = now + 1
        /\ UNCHANGED <<part, core, account, signing, listening>>

Next == Account \/ Signing \/ Listening \/ Tick

Spec == Init /\ [][Next]_vars

-----------------------------------------------------------------------------
(* Properties *)

Settled == flight = <<>> /\ private.backlog = <<>> /\ private.peeking = "none"

\* However the reading of the state and the events in flight interleave, once the events are
\* through the bot was shown the venue's open orders, and told of every fill it followed.
ShownConverges == Settled => /\ "Orders" \in private.channels => shown = OpenOrders
                             /\ "All" \in private.channels => untold = {}

\* A nonce is accepted once, though only the last ones are remembered.
NonceAcceptedOnce == \A nonce \in DOMAIN uses : uses[nonce] <= 1

\* Whoever asks for a listen key leaves a live one in place: the other's streams stay open.
KeyShared == key'.id # key.id => ~Live

ServersKeepTrack == [](ShownConverges /\ NonceAcceptedOnce) /\ [][KeyShared]_vars

=============================================================================
