----------------------------- MODULE LighterSend -----------------------------
(***************************************************************************)
(* Sending one order at a time to Lighter: the nonce counter of an API key *)
(* (lighter/nonce.rs), the transaction socket that pairs a frame with the  *)
(* next answer (lighter/tx_ws.rs), and the two callers: the XEMM hedge     *)
(* worker (livebot/exec/hyperliquid.rs), which stops sending while it does *)
(* not know the venue's nonce, and the taker's client                      *)
(* (taker/venues/lighter.rs), which sends on and corrects its counter when *)
(* an order is rejected.                                                   *)
(*                                                                         *)
(* The venue takes frames of one connection in order, executes a frame     *)
(* whose nonce is its next one and refuses any other.                      *)
(***************************************************************************)
EXTENDS Integers, Sequences

CONSTANT MaxSends \* bound on the orders

VARIABLES
    keeper,    \* "worker" or "taker"
    nonce,     \* NonceManager: the last nonce reserved
    uncertain, \* the worker's nonce_uncertain
    alive,     \* the published flag of the current connection
    replies,   \* the answers its reader has queued
    wires,     \* frames written and not yet taken by the venue: [order, nonce, current]
    job,       \* [at, order, nonce]: the send in progress
    told,      \* per order: what its caller was told
    landed,    \* per order: what the venue did with it
    venueNext  \* the nonce the venue expects

sendVars == <<keeper, nonce, uncertain, alive, replies, wires, job, told, landed, venueNext>>

Orders == 1..MaxSends
NoJob == [at |-> "idle", order |-> 0, nonce |-> 0]

SendInit ==
    /\ keeper \in {"worker", "taker"}
    /\ venueNext = 1 /\ nonce = 0 /\ uncertain = FALSE
    /\ alive = TRUE /\ replies = <<>> /\ wires = {}
    /\ job = NoJob
    /\ told = [o \in Orders |-> "nothing"] /\ landed = [o \in Orders |-> "no"]

\* The counter is set from the venue's next nonce.
Refreshed == nonce' = venueNext - 1

Tell(o, outcome) == told' = [told EXCEPT ![o] = outcome]

\* The frame of the send in progress, on the current connection.
Wired == [order |-> job.order, nonce |-> job.nonce, current |-> TRUE]

-----------------------------------------------------------------------------
(* The caller.                                                              *)

\* The worker takes a command only while the socket and the nonce are known good; the taker
\* takes its write lock.  Then a nonce is reserved and the order is signed with it.
Submit ==
    /\ job = NoJob
    /\ keeper = "worker" => alive /\ ~uncertain
    /\ \E o \in Orders :
        /\ told[o] = "nothing" /\ \A p \in 1..(o - 1) : told[p] # "nothing"
        /\ job' = [at |-> "signed", order |-> o, nonce |-> nonce + 1]
        /\ nonce' = nonce + 1
        /\ UNCHANGED <<keeper, uncertain, alive, replies, wires, told, landed, venueNext>>

\* Signing fails: the reservation is given back; the worker re-reads the nonce all the same.
SignFails ==
    /\ job.at = "signed"
    /\ nonce' = nonce - 1
    /\ Tell(job.order, "not sent")
    /\ job' = IF keeper = "worker" THEN [job EXCEPT !.at = "refresh"] ELSE NoJob
    /\ UNCHANGED <<keeper, uncertain, alive, replies, wires, landed, venueNext>>

\* The socket is not ready or held by the reconnect task, or the worker's deadline has passed:
\* nothing was written, and the nonce is given back.
NotSent ==
    /\ job.at = "signed"
    /\ nonce' = nonce - 1
    /\ Tell(job.order, "not sent")
    /\ job' = NoJob
    /\ UNCHANGED <<keeper, uncertain, alive, replies, wires, landed, venueNext>>

\* Answers left from before are dropped, and the frame is written.
Write ==
    /\ job.at = "signed" /\ alive
    /\ replies' = <<>>
    /\ wires' = wires \cup {Wired}
    /\ job' = [job EXCEPT !.at = "awaiting"]
    /\ UNCHANGED <<keeper, nonce, uncertain, alive, told, landed, venueNext>>

\* Nobody knows what became of the frame: the connection is given up, the worker is uncertain.
Unknown ==
    /\ alive' = FALSE
    /\ Tell(job.order, "unknown")
    /\ uncertain' = (uncertain \/ keeper = "worker")
    /\ job' = NoJob
    /\ UNCHANGED <<keeper, nonce, landed, venueNext>>

\* The write fails or times out, with the frame on the wire or not.
WriteFails ==
    /\ job.at = "signed" /\ alive
    /\ wires' \in {wires, wires \cup {Wired}}
    /\ replies' = <<>>
    /\ Unknown

\* Mutant of NoAnswer: the connection is kept.
NoAnswerKept ==
    /\ job.at = "awaiting" /\ Tell(job.order, "unknown") /\ job' = NoJob
    /\ uncertain' = (uncertain \/ keeper = "worker")
    /\ UNCHANGED <<keeper, nonce, alive, replies, wires, landed, venueNext>>

\* No answer in time, or the reader has ended.
NoAnswer == job.at = "awaiting" /\ Unknown /\ UNCHANGED <<replies, wires>>

\* The next queued answer is the outcome.
Answer ==
    /\ job.at = "awaiting" /\ replies # <<>>
    /\ replies' = Tail(replies)
    /\ UNCHANGED wires
    /\ \/ Head(replies) = "unrecognized" /\ Unknown
       \/ /\ Head(replies) = "ok"
          /\ Tell(job.order, "ok") /\ job' = NoJob
          /\ UNCHANGED <<keeper, nonce, uncertain, alive, landed, venueNext>>
       \/ /\ Head(replies) = "rejected"
          /\ Tell(job.order, "rejected") /\ job' = [job EXCEPT !.at = "refresh"]
          /\ UNCHANGED <<keeper, nonce, uncertain, alive, landed, venueNext>>

\* Not every reject uses the nonce, so it is read again; when that fails the worker stays
\* uncertain, and the taker leaves its counter to the next reject.
Refresh ==
    /\ job.at = "refresh"
    /\ job' = NoJob
    /\ \/ Refreshed /\ uncertain' = FALSE
       \/ UNCHANGED nonce /\ uncertain' = (keeper = "worker")
    /\ UNCHANGED <<keeper, alive, replies, wires, told, landed, venueNext>>

\* The worker re-reads the nonce until it answers: after a failed refresh, and for an unknown
\* outcome once its order is resolved or the budget is spent, by when the frame has landed or is lost.
RepairNonce ==
    /\ uncertain
    /\ \A w \in wires : told[w.order] # "unknown"
    /\ Refreshed /\ uncertain' = FALSE
    /\ UNCHANGED <<keeper, alive, replies, wires, job, told, landed, venueNext>>

\* The taker's session re-reads the nonce before it trades on.
RefreshNonce ==
    /\ keeper = "taker" /\ job = NoJob /\ nonce # venueNext - 1
    /\ Refreshed
    /\ UNCHANGED <<keeper, uncertain, alive, replies, wires, job, told, landed, venueNext>>

-----------------------------------------------------------------------------
(* The connection and the venue.                                            *)

\* The reader or the pinger finds the connection dead.
ConnectionDies ==
    /\ alive
    /\ alive' = FALSE
    /\ UNCHANGED <<keeper, nonce, uncertain, replies, wires, job, told, landed, venueNext>>

\* The reconnect task replaces a dead connection while no send holds the lock; the old one's
\* queue goes with it.
Reconnect ==
    /\ ~alive /\ job.at # "awaiting"
    /\ alive' = TRUE
    /\ replies' = <<>>
    /\ wires' = {[w EXCEPT !.current = FALSE] : w \in wires}
    /\ UNCHANGED <<keeper, nonce, uncertain, job, told, landed, venueNext>>

\* The venue takes a frame, which may outlive its connection, and answers on that connection.
TakeFrame(w) ==
    /\ wires' = wires \ {w}
    /\ \E verdict \in {"executed", "refused", "refused, nonce used"} :
        /\ verdict # "refused" => w.nonce = venueNext
        /\ landed' = [landed EXCEPT ![w.order] = verdict]
        /\ venueNext' = IF verdict = "refused" THEN venueNext ELSE venueNext + 1
        /\ \E answer \in {IF verdict = "executed" THEN "ok" ELSE "rejected", "unrecognized"} :
            replies' \in {replies} \cup
                IF w.current /\ alive THEN {Append(replies, answer)} ELSE {}
    /\ UNCHANGED <<keeper, nonce, uncertain, alive, job, told>>

Lose(w) ==
    /\ wires' = wires \ {w} /\ ~(w.current /\ alive)
    /\ UNCHANGED <<keeper, nonce, uncertain, alive, replies, job, told, landed, venueNext>>

\* A frame that looks like an outcome comes when nothing is in flight.
Notice ==
    /\ alive /\ job.at # "awaiting" /\ replies = <<>>
    /\ \E answer \in {"ok", "rejected"} : replies' = <<answer>>
    /\ UNCHANGED <<keeper, nonce, uncertain, alive, wires, job, told, landed, venueNext>>

SendNext ==
    \/ Submit \/ SignFails \/ NotSent \/ Write \/ WriteFails \/ NoAnswer \/ Answer \/ Refresh
    \/ RepairNonce \/ RefreshNonce \/ ConnectionDies \/ Reconnect \/ Notice
    \/ \E w \in wires : TakeFrame(w) \/ Lose(w)

SendSpec == SendInit /\ [][SendNext]_sendVars

-----------------------------------------------------------------------------
(* Properties.                                                              *)

\* An outcome belongs to the order it is told of: an accepted order was executed, and one called
\* rejected or not sent neither was nor can be (late answers, notices, dead connections).
OutcomeIsOwn ==
    \A o \in Orders :
        /\ told[o] = "ok" => landed[o] = "executed"
        /\ told[o] \in {"rejected", "not sent"} =>
              landed[o] # "executed" /\ \A w \in wires : w.order # o

\* A hedge is signed with the nonce the venue expects: whenever the worker would send, its counter
\* is the venue's, whatever was rejected, lost or written without an answer before.
HedgeNonceKnown ==
    keeper = "worker" /\ job = NoJob /\ ~uncertain => nonce = venueNext - 1
\* The inductive invariant of both.  Only the frame whose answer is awaited is on a live connection,
\* and every other frame under way has an unknown outcome; an answer already queued for an awaited
\* frame is its own; and a certain worker knows which nonce each stage of its send has used.
Outcomes == {"nothing", "not sent", "unknown", "ok", "rejected"}
Verdicts == {"no", "executed", "refused", "refused, nonce used"}
Answers  == {"ok", "rejected", "unrecognized"}
Stages   == {"idle", "signed", "awaiting", "refresh"}
Job      == [at : Stages, order : Orders \cup {0}, nonce : Int]
Frame    == [order : Orders, nonce : Int, current : BOOLEAN]

SendTypeOK ==
    /\ keeper \in {"worker", "taker"} /\ uncertain \in BOOLEAN /\ alive \in BOOLEAN
    /\ nonce \in Int /\ venueNext \in Int
    /\ replies \in Seq(Answers)
    /\ wires \subseteq Frame
    /\ job \in Job
    /\ told \in [Orders -> Outcomes] /\ landed \in [Orders -> Verdicts]

Awaited(o) == job.at = "awaiting" /\ job.order = o

Sending ==
    /\ job.at = "idle" <=> job = NoJob
    /\ job.at # "idle" => job.order \in Orders
    /\ job.at \in {"signed", "awaiting"} => told[job.order] = "nothing"
    /\ uncertain => keeper = "worker" /\ job = NoJob

Frames ==
    /\ \A w \in wires : /\ told[w.order] = "unknown" \/ Awaited(w.order)
                        /\ landed[w.order] = "no"
                        /\ w.current /\ alive => Awaited(w.order)
                        /\ keeper = "worker" /\ ~uncertain => Awaited(w.order)
    /\ \A v, w \in wires : v.order = w.order => v = w
    /\ \A o \in Orders : told[o] = "nothing" /\ ~Awaited(o) => landed[o] = "no"

Queued ==
    job.at = "awaiting" /\ replies # <<>> =>
        /\ Len(replies) = 1
        /\ \A w \in wires : w.order # job.order
        /\ Head(replies) = "ok" => landed[job.order] = "executed"
        /\ Head(replies) = "rejected" => landed[job.order] # "executed"

Counted ==
    keeper = "worker" /\ ~uncertain =>
        /\ job.at = "signed" => nonce = venueNext
        /\ job.at = "awaiting" /\ landed[job.order] = "no" => nonce = venueNext
        /\ job.at = "awaiting" /\ landed[job.order] = "executed" => nonce = venueNext - 1

IInv == SendTypeOK /\ Sending /\ Frames /\ Queued /\ Counted /\ OutcomeIsOwn /\ HedgeNonceKnown

\* Both properties, with the whole invariant they are parts of.
SendsAreKnown == IInv
=============================================================================
