---------------------------- MODULE ExecutionRights ----------------------------
(***************************************************************************)
(* What the controller promises about a market's execution rights          *)
(* (controller/supervisor.rs: "execution rights move only after the        *)
(* previous holder has stopped and both venues show no open orders"):      *)
(*  - at most one engine can submit orders at a time;                      *)
(*  - an engine becomes able to only while nobody else is, with no order   *)
(*    of a previous holder still resting on a venue.                       *)
(* Supervisor.tla implements it.                                           *)
(***************************************************************************)
CONSTANT Engine

VARIABLES
    writers,  \* the engines that can submit an order now
    open      \* some order of the bot rests on a venue

rightsVars == <<writers, open>>

Init == writers = {} /\ open \in BOOLEAN

\* An engine starts to write: alone, and on clean venues.
Acquire(e) == writers = {} /\ ~open /\ writers' = {e} /\ UNCHANGED open

\* Only a writer leaves an order on a venue.
Place == writers # {} /\ open' = TRUE /\ UNCHANGED writers

\* The venue fills, cancels or expires the orders.
Clear == open' = FALSE /\ UNCHANGED writers

\* A writer stops; one that crashed or failed may leave an order behind.
Release == writers # {} /\ writers' = {} /\ open' \in BOOLEAN

Next == (\E e \in Engine : Acquire(e)) \/ Place \/ Clear \/ Release

Spec == Init /\ [][Next]_rightsVars
=============================================================================
