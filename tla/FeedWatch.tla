------------------------------ MODULE FeedWatch ------------------------------
(***************************************************************************)
(* One venue feed of the XEMM engine and what keeps it alive: the          *)
(* connector's reconnect loop (connectors/aster.rs, lighter/ws.rs), the    *)
(* watchdog that scans the cells (hotpath/watchdog.rs) and the REST        *)
(* cross-check (hotpath/book_check.rs).  The watchers and the connector    *)
(* share the cell's flags and stamps and one stored reconnect request.     *)
(*                                                                         *)
(* Ages count clock steps up to their threshold and stay there.            *)
(***************************************************************************)
EXTENDS Integers

CONSTANTS
    ConnStale,   \* frames older than this are a silent connection
    BookStale,   \* a touch older than this may not be traded on
    Idle,        \* a session silent for this long ends itself
    Limit,       \* comparisons in a row that trip the cell, and that clear it
    MaxBackoff,  \* the longest pause between two sessions
    MaxTrips     \* bound on the times the cross-check trips between two books

VARIABLES
    session,   \* "connecting", "live" or "waiting"
    silence,   \* clock steps since the session's last frame
    pause,     \* what is left of the wait before the next session
    backoff,   \* the next wait
    msgAge,    \* clock steps since the cell's last frame of any kind
    bookAge,   \* since its last touch: a full book or a BBO
    alive,     \* whether the cell ever had a frame
    down,      \* the connector's flag
    divergent, \* the cross-check's flag
    breaches,  \* the cross-check's counter of this cell
    permit,    \* the reconnect request, stored until the session waits for it
    nudge,     \* the watchdog has scanned and is about to request
    gate,      \* the global trading gauge
    killed,    \* history: sessions a request ended since the cell's last full book
    trips,     \* history: requests of the cross-check in that time
    unlike,    \* history: divergent comparisons in a row
    alike      \* history: agreeing comparisons in a row

vars == <<session, silence, pause, backoff, msgAge, bookAge, alive, down, divergent, breaches, permit,
          nudge, gate, killed, trips, unlike, alike>>

conn == <<session, silence, pause, backoff>>
cell == <<msgAge, bookAge, alive, down>>
watch == <<divergent, breaches, nudge, gate, unlike, alike>>

Capped(n, bound) == IF n > bound THEN bound ELSE n

Init ==
    /\ session = "connecting" /\ silence = 0 /\ pause = 0 /\ backoff = 1
    /\ msgAge = ConnStale + 1 /\ bookAge = BookStale + 1 /\ alive = FALSE
    /\ down = FALSE /\ divergent = FALSE /\ breaches = 0
    /\ permit = FALSE /\ nudge = FALSE /\ gate = TRUE
    /\ killed = 0 /\ trips = 0 /\ unlike = 0 /\ alike = 0

Tick ==
    /\ msgAge' = Capped(msgAge + 1, ConnStale + 1)
    /\ bookAge' = Capped(bookAge + 1, BookStale + 1)
    /\ silence' = Capped(silence + 1, Idle)
    /\ pause' = IF pause = 0 THEN 0 ELSE pause - 1
    /\ UNCHANGED <<session, backoff, alive, down, permit, killed, trips>> /\ UNCHANGED watch

-----------------------------------------------------------------------------
(* The connector.                                                           *)

\* A session ends: the cell is known down, and the next one waits longer unless this one lasted.
EndSession ==
    /\ session' = "waiting"
    /\ down' = TRUE
    /\ \E healthy \in BOOLEAN :
        \* Aster starts over before the wait, Lighter with the wait
        LET wait == IF healthy /\ session = "live" THEN 1 ELSE backoff
        IN pause' = wait /\ backoff' = Capped(2 * wait, MaxBackoff)
    /\ UNCHANGED <<silence, msgAge, bookAge, alive, trips>> /\ UNCHANGED watch

Connect ==
    /\ session = "connecting"
    /\ session' = "live" /\ silence' = 0
    /\ UNCHANGED <<pause, backoff, permit, killed, trips>> /\ UNCHANGED cell /\ UNCHANGED watch

\* the connection is refused or stalls
ConnectFails ==
    /\ session = "connecting" /\ EndSession /\ UNCHANGED <<permit, killed>>

Reconnect ==
    /\ session = "waiting" /\ pause = 0
    /\ session' = "connecting"
    /\ UNCHANGED <<silence, pause, backoff, permit, killed, trips>>
    /\ UNCHANGED cell /\ UNCHANGED watch

\* A full book: the cell is trusted again.
FullBook ==
    /\ session = "live"
    /\ silence' = 0 /\ msgAge' = 0 /\ bookAge' = 0 /\ alive' = TRUE /\ down' = FALSE
    /\ killed' = 0 /\ trips' = 0
    /\ UNCHANGED <<session, pause, backoff, permit>> /\ UNCHANGED watch

\* A BBO refreshes the touch and never lifts the flag; any other frame only shows life.
Bbo ==
    /\ session = "live"
    /\ silence' = 0 /\ msgAge' = 0 /\ bookAge' = 0 /\ alive' = TRUE
    /\ UNCHANGED <<session, pause, backoff, down, permit, killed, trips>> /\ UNCHANGED watch

OtherFrame ==
    /\ session = "live"
    /\ silence' = 0 /\ msgAge' = 0 /\ alive' = TRUE
    /\ UNCHANGED <<session, pause, backoff, bookAge, down, permit, killed, trips>> /\ UNCHANGED watch

\* A frame whose source time is unusable marks the stream down; the session goes on.
UnusableFrame ==
    /\ session = "live"
    /\ silence' = 0 /\ msgAge' = 0 /\ alive' = TRUE /\ down' = TRUE
    /\ UNCHANGED <<session, pause, backoff, bookAge, permit, killed, trips>> /\ UNCHANGED watch

\* The venue closes, or the session has been silent for too long.
Closed == session = "live" /\ EndSession /\ UNCHANGED <<permit, killed>>

TooQuiet == session = "live" /\ silence >= Idle /\ EndSession /\ UNCHANGED <<permit, killed>>

\* The session waits for the request with every frame: one stored earlier ends it too.
Requested ==
    /\ session = "live" /\ permit
    /\ EndSession
    /\ permit' = FALSE /\ killed' = killed + 1

-----------------------------------------------------------------------------
(* The watchdog: a scan reads the cell, then the request is stored.         *)

Healthy == msgAge <= ConnStale /\ bookAge <= BookStale /\ ~divergent

\* Mutant of Silent: a feed known down is asked to reconnect too.
SilentOrDown == msgAge > ConnStale /\ alive

\* Only a feed that was alive and is not known down is asked to reconnect.
Silent == msgAge > ConnStale /\ alive /\ ~down

Scan ==
    /\ ~nudge
    /\ gate' = Healthy /\ nudge' = Silent
    /\ UNCHANGED <<divergent, breaches, unlike, alike, permit, killed, trips>>
    /\ UNCHANGED conn /\ UNCHANGED cell

Request ==
    /\ nudge /\ nudge' = FALSE
    /\ permit' = TRUE
    /\ UNCHANGED <<divergent, breaches, gate, unlike, alike, killed, trips>>
    /\ UNCHANGED conn /\ UNCHANGED cell

-----------------------------------------------------------------------------
(* The cross-check.  A failed or old REST snapshot compares nothing.        *)

StepBreachCounter(n, differs, tripped) ==
    IF differs THEN Capped(n + 1, Limit)
    ELSE IF tripped THEN Capped(n - 1, Limit) ELSE 0

\* The cell disagrees with REST: past the limit it is marked, and its socket reset once.
Disagrees ==
    /\ breaches' = StepBreachCounter(breaches, TRUE, divergent)
    /\ unlike' = Capped(unlike + 1, Limit) /\ alike' = 0
    /\ divergent' = (divergent \/ breaches' >= Limit)
    /\ permit' = (permit \/ (divergent' /\ ~divergent))
    /\ trips' = IF divergent' /\ ~divergent THEN trips + 1 ELSE trips

Agrees ==
    /\ breaches' = StepBreachCounter(breaches, FALSE, divergent)
    /\ unlike' = 0 /\ alike' = Capped(alike + 1, Limit)
    /\ divergent' = (divergent /\ breaches' > 0)
    /\ UNCHANGED <<permit, trips>>

\* Only a cell that has a book is compared.
Compare ==
    /\ bookAge <= BookStale \/ alive
    /\ \/ trips < MaxTrips /\ Disagrees
       \/ Agrees
    /\ UNCHANGED <<nudge, gate, killed>> /\ UNCHANGED conn /\ UNCHANGED cell

Next ==
    \/ Tick \/ Connect \/ ConnectFails \/ Reconnect \/ FullBook \/ Bbo \/ OtherFrame
    \/ UnusableFrame \/ Closed \/ TooQuiet \/ Requested \/ Scan \/ Request \/ Compare

Spec == Init /\ [][Next]_vars

-----------------------------------------------------------------------------
(* Properties.                                                              *)

\* The watchers cannot starve a feed: between two full books the watchdog ends the silent session
\* and at most one after it, by a request already on its way while the stream went down, and each
\* trip of the cross-check ends one (the comment in scan_once: a request stored for a feed known
\* down would end its next session before the first frame, every time).
FeedNotStarved == killed <= 2 + trips

\* Isolated differences never mark a cell: every divergence mark follows Limit comparisons in a row
\* that disagreed (step_breach_counter).
MarkedAfterLimit == [][~divergent /\ divergent' => unlike' >= Limit]_vars

\* The feed of a cell the connector knows down is trusted again only by a full book of a live
\* session.
DownUntilFullBook == [][down /\ ~down' => session = "live" /\ bookAge' = 0 /\ msgAge' = 0]_vars

\* A marked cell is cleared only after Limit agreeing comparisons in a row: what the comment of
\* step_breach_counter says.
ClearedAfterLimit == [][divergent /\ ~divergent' => alike' >= Limit]_vars
=============================================================================
