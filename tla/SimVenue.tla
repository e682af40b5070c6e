------------------------------ MODULE SimVenue ------------------------------
(* dryrun/matching.rs (Exchange) as driven by dryrun/mod.rs (drive, SimFiles): *)
(* when the simulated venue acts.  A queue of events ordered by time, then    *)
(* rank, then arrival; trading actions that wait for the feed; Lighter's      *)
(* nonces and speed bump; Aster's deadman; funding; saving and restarting.    *)
(* Time is a small natural: the feed's stamps are already shifted, and the    *)
(* random latencies are chosen from Latencies.  What an order fills is        *)
(* SimMatching's subject: here a placed order is open until cancelled.        *)
EXTENDS Integers, SequencesExt, FiniteSetsExt

CONSTANTS
    Menus,      \* what a run is about: [venue, kinds, lanes, requests, settlements, restarts]
    Latencies,  \* <<effect, round trip>> of a request
    Hold,       \* HOLD_US
    Bump,       \* lighter_taker_delay_us
    Retry,      \* the wait of a settlement without a mark
    Countdown,  \* of an armed deadman
    Cap, Span,  \* a rate window: orders per span
    MaxTime, MaxEarly  \* bounds: time, how early a frame may come

VARIABLES
    menu,
    now,
    pending,   \* the queue, in the order it will run
    held,      \* the actions waiting for the feed
    known,     \* how far the feed has shown the market
    requests,  \* what was submitted: [kind, lane, due, reply, nonce, answers]
    reached,   \* the requests that took effect, in order
    hits,      \* when the rate window admitted one
    state,     \* VenueState: [open, nonce, deadman, rates, settled, charged]
    saved,     \* the state on disk
    marked     \* is there a mark?
vars == <<menu, now, pending, held, known, requests, reached, hits, state, saved, marked>>

Nothing == 0
Ranks == [Feed |-> 2, Funding |-> 3, Action |-> 4, Deliver |-> 5]
Later(a, b) == IF a > b THEN a ELSE b

\* The state the venue starts from: an order is open already.
FreshState == [open |-> {Nothing}, nonce |-> 0, deadman |-> Nothing, rates |-> {}, settled |-> Nothing,
               charged |-> [s \in 1..MaxTime |-> 0]]

Init == /\ menu \in Menus
        /\ now = 1 /\ known = 0
        /\ pending = <<>> /\ held = <<>> /\ requests = <<>> /\ reached = <<>> /\ hits = <<>>
        /\ state = FreshState /\ saved = FreshState
        /\ marked = FALSE

-----------------------------------------------------------------------------
(* The queue. *)

Event(kind, at, rank, id, due) == [kind |-> kind, at |-> Later(at, now), rank |-> rank, id |-> id, due |-> due, answer |-> ""]
\* After everything due earlier, or at the same time with the same or a lower rank.
Schedule(queue, e) ==
    LET before == SelectSeq(queue, LAMBDA x : x.at < e.at \/ (x.at = e.at /\ x.rank <= e.rank)) IN
    before \o <<e>> \o SubSeq(queue, Len(before) + 1, Len(queue))
ScheduleAll(queue, events) == FoldLeft(Schedule, queue, events)

Due == pending # <<>> /\ Head(pending).at <= now
Action(kind, at, id) == Event(kind, at, Ranks.Action, id, at)

Trading(kind) == kind \in {"Place", "Taker", "Cancel"}
IsTx(kind) == menu.venue = "lighter" /\ kind # "Read"
\* The trading actions: their venue must have seen the market up to their time.
ActsAt(e) == e.kind \in {"Execute", "Deadman"} \/ (e.kind = "Gateway" /\ Trading(requests[e.id].kind))

Quiet == UNCHANGED <<menu, saved>>

-----------------------------------------------------------------------------
(* What the bot and the feed do: drive() first runs everything due. *)

LaneTimes(lane, field) == {0} \cup {requests[i][field] : i \in {j \in DOMAIN requests : requests[j].lane = lane}}

Latest(times) == CHOOSE t \in times : \A other \in times : other <= t

\* A request reaches the venue, and is answered, no earlier than the one before it on its lane.
Submit(kind, lane, latency) ==
    LET due == Later(now + latency[1], Latest(LaneTimes(lane, "due")))
        reply == Later(Later(now + latency[2], due), Latest(LaneTimes(lane, "reply")))
        nonce == Cardinality({i \in DOMAIN requests : IsTx(requests[i].kind)}) IN
    /\ ~Due /\ Len(requests) < menu.requests
    /\ requests' = Append(requests, [kind |-> kind, lane |-> lane, due |-> due, reply |-> reply,
                                     nonce |-> nonce, answers |-> <<>>])
    /\ pending' = Schedule(pending, Action("Gateway", due, Len(requests) + 1))
    /\ UNCHANGED <<now, held, known, reached, hits, state, marked>> /\ Quiet

\* A frame stamped `at`: it runs then, or now if late, and the actions that waited for it after it.
Ingest(at) ==
    LET freed == SelectSeq(held, LAMBDA e : e.at <= at)
        again(e) == [e EXCEPT !.at = Later(e.at, now)] IN
    /\ ~Due /\ at \in now - 2 .. now + MaxEarly
    /\ at > known
    /\ known' = Later(known, at)
    /\ held' = IF at > known THEN SelectSeq(held, LAMBDA e : e.at > at) ELSE held
    /\ pending' = ScheduleAll(Schedule(pending, Event("Feed", at, Ranks.Feed, Nothing, at)),
                              IF at > known THEN [i \in DOMAIN freed |-> again(freed[i])] ELSE <<>>)
    /\ UNCHANGED <<now, requests, reached, hits, state, marked>> /\ Quiet

\* Lighter reports the settlement that was, Aster the next one.
Reported ==
    LET past == {s \in menu.settlements : s <= now}
        coming == {s \in menu.settlements : s >= now}
    IN  IF menu.venue = "lighter" THEN Max(past \cup {Nothing}) ELSE Min(coming \cup {MaxTime + 1})

\* A settlement's rate is reported; the one applied last, or an older one, is not taken again.
Funding(at) ==
    /\ ~Due
    /\ at > state.settled
    /\ at = Reported
    /\ state' = [state EXCEPT !.rates = @ \cup {at}]
    /\ pending' = IF at \in state.rates THEN pending
                  ELSE Schedule(pending, Event("Funding", at, Ranks.Funding, at, at))
    /\ UNCHANGED <<now, held, known, requests, reached, hits, marked>> /\ Quiet

Tick == /\ ~Due /\ now < MaxTime
        /\ now' = now + 1
        /\ UNCHANGED <<pending, held, known, requests, reached, hits, state, marked>> /\ Quiet

-----------------------------------------------------------------------------
(* advance(): the first event due runs. *)

Run(kind) == Due /\ Head(pending).kind = kind
Waits(e) == ActsAt(e) /\ e.due > known

\* A trading action ahead of the feed waits; a request gives up after Hold.
HoldAction ==
    LET e == Head(pending) IN
    /\ Due /\ Waits(e)
    /\ held' = Append(held, e)
    /\ pending' = IF e.kind = "Gateway" THEN Schedule(Tail(pending), Action("Expire", e.due + Hold, e.id))
                  ELSE Tail(pending)
    /\ UNCHANGED <<now, known, requests, reached, hits, state, marked>> /\ Quiet

Reply(queue, ticket, answer) ==
    Schedule(queue, [Event("Deliver", requests[ticket].reply, Ranks.Deliver, ticket, Nothing) EXCEPT !.answer = answer])

Expire ==
    LET e == Head(pending)
        waiting == SelectSeq(held, LAMBDA h : h.kind = "Gateway" /\ h.id = e.id) IN
    /\ Run("Expire")
    /\ held' = SelectSeq(held, LAMBDA h : ~(h.kind = "Gateway" /\ h.id = e.id))
    /\ pending' = IF waiting = <<>> THEN Tail(pending) ELSE Reply(Tail(pending), e.id, "Unavailable")
    /\ UNCHANGED <<now, known, requests, reached, hits, state, marked>> /\ Quiet

\* What a request does to the venue's orders and deadman.
Executed(st, ticket) ==
    LET kind == requests[ticket].kind IN
    CASE kind \in {"Place", "Taker"} -> [st EXCEPT !.open = @ \cup {ticket}]
      [] kind = "Cancel" -> [st EXCEPT !.open = {}]
      [] kind = "Arm" -> [st EXCEPT !.deadman = now + Countdown]
      [] kind = "Disarm" -> [st EXCEPT !.deadman = Nothing]
      [] OTHER -> st

\* An Aster order, or a Lighter transaction.
Counts(kind) == kind = "Place" \/ IsTx(kind)
Window == SelectSeq(hits, LAMBDA t : t > now - Span)
Admitted == Len(Window) < Cap

\* The gateway: the rate window, then a transaction's nonce, then the request itself or, for a
\* Lighter taker, the speed bump.
Gateway ==
    LET e == Head(pending)
        ticket == e.id
        kind == requests[ticket].kind
        badNonce == IsTx(kind) /\ requests[ticket].nonce # state.nonce
        counted == IF IsTx(kind) THEN [state EXCEPT !.nonce = @ + 1] ELSE state
        bumped == menu.venue = "lighter" /\ kind = "Taker"
        answered(queue, answer) == Reply(queue, ticket, answer) IN
    /\ Run("Gateway") /\ ~Waits(e)
    /\ IF Counts(kind) /\ ~Admitted
       THEN /\ pending' = answered(Tail(pending), "RateLimited")
            /\ hits' = Window
            /\ UNCHANGED <<state, reached>>
       ELSE /\ hits' = IF Counts(kind) THEN Append(Window, now) ELSE Window
            /\ IF badNonce
               THEN /\ pending' = answered(Tail(pending), "BadNonce")
                    /\ UNCHANGED <<state, reached>>
               ELSE /\ reached' = Append(reached, ticket)
                    /\ state' = IF bumped THEN counted ELSE Executed(counted, ticket)
                    /\ pending' = answered(
                          IF bumped THEN Schedule(Tail(pending), Action("Execute", now + Bump, ticket))
                          ELSE IF kind = "Arm"
                               THEN Schedule(Tail(pending), Action("Deadman", now + Countdown, now + Countdown))
                               ELSE Tail(pending), "Ok")
    /\ UNCHANGED <<now, held, known, requests, marked>> /\ Quiet

Execute ==
    /\ Run("Execute") /\ ~Waits(Head(pending))
    /\ state' = Executed(state, Head(pending).id)
    /\ pending' = Tail(pending)
    /\ UNCHANGED <<now, held, known, requests, reached, hits, marked>> /\ Quiet

\* Only the deadline armed last cancels.
Deadman ==
    /\ Run("Deadman") /\ ~Waits(Head(pending))
    /\ state' = IF state.deadman = Head(pending).id THEN [state EXCEPT !.deadman = Nothing, !.open = {}] ELSE state
    /\ pending' = Tail(pending)
    /\ UNCHANGED <<now, held, known, requests, reached, hits, marked>> /\ Quiet

Deliver ==
    /\ Run("Deliver")
    /\ requests' = [requests EXCEPT ![Head(pending).id].answers = Append(@, Head(pending).answer)]
    /\ pending' = Tail(pending)
    /\ UNCHANGED <<now, held, known, reached, hits, state, marked>> /\ Quiet

OnFeed == /\ Run("Feed")
          /\ marked' = TRUE
          /\ pending' = Tail(pending)
          /\ UNCHANGED <<now, held, known, requests, reached, hits, state>> /\ Quiet

\* Without a mark the settlement waits; a rate taken up already is gone.
OnFunding ==
    LET e == Head(pending) IN
    /\ Run("Funding")
    /\ IF ~marked
       THEN /\ pending' = Schedule(Tail(pending), Event("Funding", now + Retry, Ranks.Funding, e.id, e.due))
            /\ UNCHANGED state
       ELSE /\ pending' = Tail(pending)
            /\ state' = IF e.id \in state.rates
                        THEN [state EXCEPT !.rates = @ \ {e.id}, !.settled = e.id, !.charged[e.id] = @ + 1]
                        ELSE state
    /\ UNCHANGED <<now, held, known, requests, reached, hits, marked>> /\ Quiet

-----------------------------------------------------------------------------
(* The state file, and the next start: restore() schedules the saved rates,  *)
(* and once a book is there resume() the saved deadman.                      *)

Save == /\ ~Due /\ menu.restarts /\ saved # state
        /\ saved' = state
        /\ UNCHANGED <<menu, now, pending, held, known, requests, reached, hits, state, marked>>

Restart ==
    /\ menu.restarts /\ ~Due
    /\ state' = saved
    /\ known' = 0 /\ marked' = FALSE
    /\ held' = <<>> /\ requests' = <<>> /\ reached' = <<>> /\ hits' = <<>>
    /\ pending' = ScheduleAll(<<>>, [i \in 1..Cardinality(saved.rates) |->
                      LET rate == SetToSortSeq(saved.rates, <)[i] IN
                      Event("Funding", rate, Ranks.Funding, rate, rate)])
    /\ UNCHANGED <<menu, now, saved>>

Resume == /\ ~Due /\ marked /\ menu.restarts /\ state.deadman # Nothing
          /\ ~\E i \in DOMAIN pending : pending[i].kind = "Deadman" /\ pending[i].id = state.deadman
          /\ ~\E i \in DOMAIN held : held[i].kind = "Deadman" /\ held[i].id = state.deadman
          /\ pending' = Schedule(pending, Event("Deadman", state.deadman, Ranks.Action, state.deadman, state.deadman))
          /\ UNCHANGED <<menu, now, held, known, requests, reached, hits, state, saved, marked>>

Advance == \/ HoldAction \/ Expire \/ Gateway \/ Execute \/ Deadman \/ Deliver \/ OnFeed \/ OnFunding

Next == \/ \E kind \in menu.kinds, lane \in menu.lanes, latency \in Latencies : Submit(kind, lane, latency)
        \/ \E at \in 1..MaxTime : Ingest(at)
        \/ \E at \in 1..MaxTime : Funding(at)
        \/ Tick \/ Advance \/ Save \/ Restart \/ Resume

Spec == Init /\ [][Next]_vars

-----------------------------------------------------------------------------
(* Properties *)

\* Orders and cancels of one connection take effect in the order they were sent, held or not.
TradingInOrder ==
    \A i, j \in DOMAIN reached :
        LET a == requests[reached[i]]  b == requests[reached[j]] IN
        i < j /\ a.lane = b.lane /\ Trading(a.kind) /\ Trading(b.kind) => reached[i] < reached[j]

\* Each request is answered once, in time even if the feed never comes back, and one answered
\* as unavailable has no effect, then or later.
AnsweredOnce ==
    \A i \in DOMAIN requests :
        LET r == requests[i] IN
        /\ Len(r.answers) <= 1
        /\ ~Due /\ now >= Later(r.due + Hold, r.reply) => Len(r.answers) = 1
        /\ r.answers = <<"Unavailable">> => \A k \in DOMAIN reached : reached[k] # i

\* When an order, a cancel or a deadman runs, the frames received that the market saw by its
\* time have run: a cancel does not beat the prints that filled its order.
MarketFirst ==
    Due /\ ActsAt(Head(pending)) /\ ~Waits(Head(pending)) =>
        \A i \in DOMAIN pending : pending[i].kind = "Feed" => pending[i].due > Head(pending).due

\* A settlement is charged once, whatever is polled again and over restarts; and again only after
\* an older one was charged late, which sets the time of the last one back.
FundingCharges ==
    \A s \in 1..MaxTime :
        state.charged[s] <= 1 + MapThenSumSet(LAMBDA older : state.charged[older], 1..s - 1)

\* Orders go without a cancel only by the deadline armed last, and once the feed has shown it.
DeadmanLast ==
    state.open \ state'.open # {} /\ reached' = reached /\ requests' = requests
        => state.deadman # Nothing /\ state.deadman <= now /\ state.deadman <= known

SimTimes == /\ [](TradingInOrder /\ AnsweredOnce /\ MarketFirst /\ FundingCharges)
            /\ [][DeadmanLast]_vars

=============================================================================
