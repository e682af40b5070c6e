--------------------------- MODULE ClientsSafety ---------------------------
(***************************************************************************)
(* Proofs about what talks to the venues.  Of Lighter's orders, for any    *)
(* number of them: an outcome belongs to the order it is told of, and a    *)
(* hedge worker that would send knows the venue's nonce.  Of Aster's       *)
(* nonce, for any number of processes and any clocks: nonces never         *)
(* repeat, and the counter implements the dispenser.                       *)
(***************************************************************************)
EXTENDS AsterNonce, LighterSend, TLAPS

-----------------------------------------------------------------------------
(* LighterSend                                                             *)

LEMMA After == \A n \in Int : n + 1 \in Int
OBVIOUS

\* What one order is told changes nothing else.
LEMMA Told ==
    ASSUME SendTypeOK, NEW o \in Orders, NEW outcome \in Outcomes, Tell(o, outcome)
    PROVE  /\ told' \in [Orders -> Outcomes] /\ told'[o] = outcome
           /\ \A p \in Orders \ {o} : told'[p] = told[p]
BY DEF SendTypeOK, Tell

\* The frame of a send is typed.
LEMMA WiredTypes ==
    ASSUME SendTypeOK, job.order \in Orders
    PROVE  /\ Wired \in Frame
           /\ Wired.order = job.order
BY DEF SendTypeOK, Wired, Job, Frame

\* A stage of the send keeps its order and its nonce.
LEMMA Stage ==
    ASSUME SendTypeOK, NEW at \in Stages
    PROVE  LET staged == [job EXCEPT !.at = at]
           IN  /\ staged.at = at /\ staged.order = job.order /\ staged.nonce = job.nonce
               /\ staged \in Job
BY DEF SendTypeOK, Job

LEMMA IdleTypes ==
    /\ NoJob \in Job
    /\ NoJob.at = "idle" /\ NoJob.order = 0
BY DEF NoJob, Job, Stages

\* The answers queued for an awaited frame.
LEMMA AnswerQueues ==
    /\ <<>> \in Seq(Answers)
    /\ \A a \in Answers : <<a>> \in Seq(Answers) /\ <<a>> # <<>> /\ Len(<<a>>) = 1 /\ Head(<<a>>) = a
    /\ \A s \in Seq(Answers), a \in Answers : Append(s, a) \in Seq(Answers)
    /\ \A s \in Seq(Answers) : s # <<>> => Head(s) \in Answers /\ Tail(s) \in Seq(Answers)
BY DEF Answers

LEMMA First ==
    ASSUME NEW s \in Seq(Answers), NEW a \in Answers, s = <<>>
    PROVE  Len(Append(s, a)) = 1 /\ Head(Append(s, a)) = a
OBVIOUS

-----------------------------------------------------------------------------
LEMMA InvInit == SendInit => IInv
<1> SUFFICES ASSUME SendInit PROVE IInv
  OBVIOUS
<1>1. SendTypeOK
  <2>1. told \in [Orders -> Outcomes] /\ landed \in [Orders -> Verdicts]
    BY DEF SendInit, Outcomes, Verdicts
  <2>2. nonce \in Int /\ venueNext \in Int /\ wires \subseteq Frame
    BY DEF SendInit
  <2> QED
    BY <2>1, <2>2, IdleTypes, AnswerQueues DEF SendInit, SendTypeOK
<1>2. Sending /\ Queued /\ Counted /\ OutcomeIsOwn /\ HedgeNonceKnown
  BY IdleTypes DEF SendInit, Sending, Queued, Counted, OutcomeIsOwn, HedgeNonceKnown
<1>3. Frames
  BY DEF SendInit, Frames
<1> QED
  BY <1>1, <1>2, <1>3 DEF IInv

\* A frame is taken from the wire: what its order becomes.
LEMMA Landing ==
    ASSUME SendTypeOK, NEW w \in wires, TakeFrame(w)
    PROVE  /\ w.order \in Orders
           /\ \E verdict \in {"executed", "refused", "refused, nonce used"} :
              /\ landed' = [landed EXCEPT ![w.order] = verdict]
              /\ landed'[w.order] = verdict
              /\ \A p \in Orders \ {w.order} : landed'[p] = landed[p]
              /\ landed' \in [Orders -> Verdicts]
              /\ venueNext' = IF verdict = "refused" THEN venueNext ELSE venueNext + 1
              /\ \E answer \in Answers :
                    /\ answer = "ok" => verdict = "executed"
                    /\ answer = "rejected" => verdict # "executed"
                    /\ replies' \in {replies} \cup IF w.current /\ alive THEN {Append(replies, answer)} ELSE {}
<1>1. w.order \in Orders
  BY DEF SendTypeOK, Frame
<1>2. PICK verdict \in {"executed", "refused", "refused, nonce used"} :
         /\ landed' = [landed EXCEPT ![w.order] = verdict]
         /\ venueNext' = IF verdict = "refused" THEN venueNext ELSE venueNext + 1
         /\ \E answer \in {IF verdict = "executed" THEN "ok" ELSE "rejected", "unrecognized"} :
               replies' \in {replies} \cup IF w.current /\ alive THEN {Append(replies, answer)} ELSE {}
  BY DEF TakeFrame
<1>3. PICK answer \in {IF verdict = "executed" THEN "ok" ELSE "rejected", "unrecognized"} :
               replies' \in {replies} \cup IF w.current /\ alive THEN {Append(replies, answer)} ELSE {}
  BY <1>2
<1>4. answer \in Answers /\ (answer = "ok" => verdict = "executed") /\ (answer = "rejected" => verdict # "executed")
  BY <1>3 DEF Answers
<1>5. landed \in [Orders -> Verdicts] /\ verdict \in Verdicts
  BY DEF SendTypeOK, Verdicts
<1>6. landed'[w.order] = verdict /\ (\A p \in Orders \ {w.order} : landed'[p] = landed[p])
      /\ landed' \in [Orders -> Verdicts]
  BY <1>1, <1>2, <1>5
<1> QED
  BY <1>1, <1>2, <1>3, <1>4, <1>6

LEMMA SendTypeStep == ASSUME SendTypeOK, Sending, [SendNext]_sendVars PROVE SendTypeOK'
<1>1. CASE Submit
  <2>1. PICK o \in Orders : /\ job' = [at |-> "signed", order |-> o, nonce |-> nonce + 1]
                           /\ nonce' = nonce + 1
                           /\ UNCHANGED <<keeper, uncertain, alive, replies, wires, told, landed, venueNext>>
    BY <1>1 DEF Submit
  <2>2. nonce' \in Int
    BY <2>1 DEF SendTypeOK
  <2>3. job' \in Job
    BY <2>1, <2>2 DEF Job, Stages
  <2> QED
    BY <2>1, <2>2, <2>3 DEF SendTypeOK
<1>2. CASE SignFails \/ NotSent
  <2>1. job.order \in Orders
    BY <1>2 DEF SignFails, NotSent, Sending
  <2>2. told' \in [Orders -> Outcomes]
    BY <1>2, <2>1, Told DEF SignFails, NotSent, Outcomes
  <2>3. job' \in Job
    BY <1>2, Stage, IdleTypes DEF SignFails, NotSent, Stages
  <2>4. nonce' \in Int
    <3>1. nonce' = nonce - 1 /\ nonce \in Int
      BY <1>2 DEF SignFails, NotSent, SendTypeOK
    <3> QED BY <3>1
  <2> QED
    BY <1>2, <2>2, <2>3, <2>4 DEF SendTypeOK, SignFails, NotSent
<1>3. CASE Write
  <2>1. job.order \in Orders
    BY <1>3 DEF Write, Sending
  <2>2. job' \in Job
    BY <1>3, Stage DEF Write, Stages
  <2> QED
    BY <1>3, <2>1, <2>2, WiredTypes, AnswerQueues DEF SendTypeOK, Write
<1>4. CASE WriteFails \/ NoAnswer
  <2>1. job.order \in Orders
    BY <1>4 DEF WriteFails, NoAnswer, Sending
  <2>2. told' \in [Orders -> Outcomes]
    BY <1>4, <2>1, Told DEF WriteFails, NoAnswer, Unknown, Outcomes
  <2> QED
    BY <1>4, <2>1, <2>2, WiredTypes, AnswerQueues, IdleTypes DEF SendTypeOK, WriteFails, NoAnswer, Unknown
<1>5. CASE Answer
  <2>1. job.order \in Orders
    BY <1>5 DEF Answer, Sending
  <2>2. told' \in [Orders -> Outcomes]
    BY <1>5, <2>1, Told DEF Answer, Unknown, Outcomes
  <2>3. job' \in Job
    BY <1>5, Stage, IdleTypes DEF Answer, Unknown, Stages
  <2>4. replies' \in Seq(Answers)
    BY <1>5, AnswerQueues DEF Answer, SendTypeOK
  <2>5. UNCHANGED <<keeper, nonce, wires, landed, venueNext>> /\ uncertain' \in BOOLEAN /\ alive' \in BOOLEAN
    BY <1>5 DEF Answer, Unknown, SendTypeOK
  <2> QED
    BY <2>2, <2>3, <2>4, <2>5 DEF SendTypeOK
<1>6. CASE Refresh \/ RepairNonce \/ RefreshNonce
  <2>1. nonce' \in Int
    BY <1>6 DEF SendTypeOK, Refresh, RepairNonce, RefreshNonce, Refreshed
  <2>2. job' \in Job /\ uncertain' \in BOOLEAN
    BY <1>6, IdleTypes DEF SendTypeOK, Refresh, RepairNonce, RefreshNonce
  <2> QED
    BY <1>6, <2>1, <2>2 DEF SendTypeOK, Refresh, RepairNonce, RefreshNonce
<1>7. CASE ConnectionDies \/ Notice
  <2>1. replies' \in Seq(Answers)
    <3>1. CASE ConnectionDies
      BY <3>1 DEF SendTypeOK, ConnectionDies
    <3>2. CASE Notice
      <4>1. PICK answer \in {"ok", "rejected"} : replies' = <<answer>>
        BY <3>2 DEF Notice
      <4>2. answer \in Answers
        BY DEF Answers
      <4> QED BY <4>1, <4>2, AnswerQueues
    <3> QED BY <1>7, <3>1, <3>2
  <2> QED
    BY <1>7, <2>1 DEF SendTypeOK, ConnectionDies, Notice
<1>8. CASE Reconnect
  <2>1. wires' \subseteq Frame
    BY <1>8 DEF SendTypeOK, Reconnect, Frame
  <2> QED
    BY <1>8, <2>1, AnswerQueues DEF SendTypeOK, Reconnect
<1>9. ASSUME NEW w \in wires, TakeFrame(w) PROVE SendTypeOK'
  <2>1. PICK verdict \in {"executed", "refused", "refused, nonce used"} :
              /\ landed' \in [Orders -> Verdicts]
              /\ venueNext' = IF verdict = "refused" THEN venueNext ELSE venueNext + 1
              /\ \E answer \in Answers :
                    replies' \in {replies} \cup IF w.current /\ alive THEN {Append(replies, answer)} ELSE {}
    BY <1>9, Landing
  <2>2. PICK answer \in Answers : replies' \in {replies, Append(replies, answer)}
    BY <2>1
  <2>3. replies' \in Seq(Answers)
    BY <2>2, AnswerQueues DEF SendTypeOK
  <2>4. venueNext' \in Int
    <3>1. (venueNext' = venueNext \/ venueNext' = venueNext + 1) /\ venueNext \in Int
      BY <2>1 DEF SendTypeOK
    <3> QED BY <3>1, After
  <2> QED
    BY <1>9, <2>1, <2>3, <2>4 DEF SendTypeOK, TakeFrame
<1>10. ASSUME NEW w \in wires, Lose(w) PROVE SendTypeOK'
  BY <1>10 DEF SendTypeOK, Lose
<1>11. CASE UNCHANGED sendVars
  BY <1>11 DEF SendTypeOK, sendVars
<1> QED
  BY <1>1, <1>2, <1>3, <1>4, <1>5, <1>6, <1>7, <1>8, <1>9, <1>10, <1>11 DEF SendNext

-----------------------------------------------------------------------------
(* The caller's steps                                                      *)

Parts == Sending /\ Frames /\ Queued /\ Counted /\ OutcomeIsOwn /\ HedgeNonceKnown

\* A certain worker that has no frame awaited has no frame under way.
LEMMA NoFrames ==
    ASSUME IInv, keeper = "worker", ~uncertain, job.at # "awaiting"
    PROVE  wires = {}
BY DEF IInv, Frames, Awaited

LEMMA SubmitStep == ASSUME IInv, Submit PROVE Parts'
<1>1. PICK o \in Orders : /\ told[o] = "nothing"
                         /\ job' = [at |-> "signed", order |-> o, nonce |-> nonce + 1]
                         /\ nonce' = nonce + 1
                         /\ UNCHANGED <<keeper, uncertain, alive, replies, wires, told, landed, venueNext>>
  BY DEF Submit
<1>2. job = NoJob /\ job.at = "idle" /\ job'.at = "signed" /\ job'.order = o
  BY <1>1, IdleTypes DEF Submit
<1>3. keeper = "worker" => ~uncertain
  BY DEF Submit
<1>4. Sending'
  BY <1>1, <1>2, <1>3, IdleTypes DEF IInv, Sending
<1>5. Frames'
  BY <1>1, <1>2, <1>3, NoFrames DEF IInv, Frames, Awaited
<1>6. Queued' /\ OutcomeIsOwn' /\ HedgeNonceKnown'
  BY <1>1, <1>2, IdleTypes DEF IInv, Queued, OutcomeIsOwn, HedgeNonceKnown
<1>7. Counted'
  <2>1. keeper = "worker" /\ ~uncertain => nonce = venueNext - 1 /\ nonce \in Int /\ venueNext \in Int
    BY <1>2 DEF IInv, HedgeNonceKnown, SendTypeOK
  <2>2. keeper = "worker" /\ ~uncertain => nonce + 1 = venueNext
    BY <2>1
  <2> QED
    BY <1>1, <1>2, <2>2 DEF Counted
<1> QED
  BY <1>4, <1>5, <1>6, <1>7 DEF Parts

\* A reserved nonce is given back: nothing was written.
LEMMA GivenBackStep == ASSUME IInv, SignFails \/ NotSent PROVE Parts'
<1>1. /\ job.at = "signed" /\ job.order \in Orders /\ told[job.order] = "nothing"
      /\ nonce' = nonce - 1 /\ UNCHANGED <<keeper, uncertain, alive, replies, wires, landed, venueNext>>
      /\ Tell(job.order, "not sent")
  BY DEF IInv, Sending, SignFails, NotSent
<1>2. (job'.order = job.order /\ job'.at = "refresh") \/ job' = NoJob
  BY Stage DEF SignFails, NotSent, IInv, Stages
<1>3. told'[job.order] = "not sent" /\ \A p \in Orders \ {job.order} : told'[p] = told[p]
  BY <1>1, Told DEF IInv, Outcomes
<1>4. job'.at \in {"idle", "refresh"} /\ (job'.at = "idle" <=> job' = NoJob) /\ ~uncertain
  BY <1>1, <1>2, IdleTypes DEF IInv, Sending
<1>5. Sending'
  BY <1>1, <1>2, <1>3, <1>4 DEF Sending
<1>6. \A w \in wires : w.order \in Orders /\ w.order # job.order /\ told[w.order] = "unknown"
  BY <1>1 DEF IInv, SendTypeOK, Frame, Frames, Awaited
<1>7. landed[job.order] = "no"
  BY <1>1 DEF IInv, Frames, Awaited
<1>8. Frames'
  BY <1>1, <1>3, <1>4, <1>6, NoFrames DEF IInv, Frames, Awaited
<1>9. Queued' /\ Counted'
  BY <1>4 DEF Queued, Counted
<1>10. OutcomeIsOwn'
  BY <1>1, <1>3, <1>6, <1>7 DEF IInv, OutcomeIsOwn
<1>11. HedgeNonceKnown'
  <2>1. keeper = "worker" => nonce = venueNext /\ venueNext \in Int
    BY <1>1, <1>4 DEF IInv, Counted, SendTypeOK
  <2>2. keeper = "worker" => nonce - 1 = venueNext - 1
    BY <2>1
  <2> QED
    BY <1>1, <2>2 DEF HedgeNonceKnown
<1> QED
  BY <1>5, <1>8, <1>9, <1>10, <1>11 DEF Parts

LEMMA WriteStep == ASSUME IInv, Write PROVE Parts'
<1>1. /\ job.at = "signed" /\ job.order \in Orders /\ told[job.order] = "nothing" /\ ~uncertain
      /\ replies' = <<>> /\ wires' = wires \cup {Wired}
      /\ UNCHANGED <<keeper, nonce, uncertain, alive, told, landed, venueNext>>
  BY IdleTypes DEF IInv, Sending, Write
<1>2. job'.at = "awaiting" /\ job'.order = job.order /\ job' # NoJob
  BY Stage, IdleTypes DEF Write, IInv, Stages
<1>3. Sending'
  BY <1>1, <1>2 DEF Sending
<1>4. \A w \in wires : w.order \in Orders /\ w.order # job.order /\ told[w.order] = "unknown"
  BY <1>1 DEF IInv, SendTypeOK, Frame, Frames, Awaited
<1>5. landed[job.order] = "no" /\ Wired.order = job.order
  BY <1>1, WiredTypes DEF IInv, Frames, Awaited
<1>6. Frames'
  BY <1>1, <1>2, <1>4, <1>5, NoFrames DEF IInv, Frames, Awaited
<1>7. Queued' /\ HedgeNonceKnown'
  BY <1>1, <1>2 DEF Queued, HedgeNonceKnown
<1>8. Counted'
  BY <1>1, <1>2, <1>5 DEF IInv, Counted
<1>9. OutcomeIsOwn'
  BY <1>1, <1>5 DEF IInv, OutcomeIsOwn
<1> QED
  BY <1>3, <1>6, <1>7, <1>8, <1>9 DEF Parts

\* The connection is given up with a frame of unknown fate.
LEMMA UnknownStep ==
    ASSUME IInv, Unknown, job.at \in {"signed", "awaiting"},
           wires' = wires \/ (wires' = wires \cup {Wired} /\ job.at = "signed")
    PROVE  Parts'
<1>1. /\ job.order \in Orders /\ told[job.order] = "nothing" /\ ~uncertain /\ ~alive'
      /\ job' = NoJob /\ job'.at = "idle" /\ uncertain' = (keeper = "worker")
      /\ UNCHANGED <<keeper, nonce, landed, venueNext>> /\ Tell(job.order, "unknown")
  BY IdleTypes DEF IInv, SendTypeOK, Sending, Unknown
<1>2. told'[job.order] = "unknown" /\ \A p \in Orders \ {job.order} : told'[p] = told[p]
  BY <1>1, Told DEF IInv, Outcomes
<1>3. Sending' /\ Queued' /\ Counted' /\ HedgeNonceKnown'
  BY <1>1, IdleTypes DEF Sending, Queued, Counted, HedgeNonceKnown
<1>4. \A w \in wires : w.order \in Orders /\ (told[w.order] = "unknown" \/ w.order = job.order)
  BY <1>1 DEF IInv, SendTypeOK, Frame, Frames, Awaited
<1>5. CASE wires' = wires
  <2>1. Frames'
    BY <1>1, <1>2, <1>4, <1>5 DEF IInv, Frames, Awaited
  <2>2. OutcomeIsOwn'
    BY <1>1, <1>2, <1>5 DEF IInv, OutcomeIsOwn
  <2> QED
    BY <1>3, <2>1, <2>2 DEF Parts
<1>6. CASE wires' = wires \cup {Wired} /\ job.at = "signed"
  <2>1. landed[job.order] = "no" /\ Wired.order = job.order
    BY <1>1, <1>6, WiredTypes DEF IInv, Frames, Awaited
  <2>2. \A w \in wires : w.order # job.order
    BY <1>1, <1>6 DEF IInv, Frames, Awaited
  <2>3. \A w \in wires : told'[w.order] = "unknown" /\ landed[w.order] = "no"
    BY <1>2, <1>4, <2>2 DEF IInv, Frames
  <2>4. \A w \in wires' : told'[w.order] = "unknown" /\ landed'[w.order] = "no"
    BY <1>1, <1>2, <1>6, <2>1, <2>3
  <2>5. \A v, w \in wires' : v.order = w.order => v = w
    BY <1>6, <2>1, <2>2 DEF IInv, Frames
  <2>6. \A o \in Orders : told'[o] = "nothing" => landed'[o] = "no"
    BY <1>1, <1>2 DEF IInv, Frames, Awaited
  <2>7. Frames'
    BY <1>1, <2>4, <2>5, <2>6 DEF Frames, Awaited
  <2>8. OutcomeIsOwn'
    BY <1>1, <1>2, <1>6, <2>1 DEF IInv, OutcomeIsOwn
  <2> QED
    BY <1>3, <2>7, <2>8 DEF Parts
<1> QED
  BY <1>5, <1>6

\* The next queued answer is taken as the outcome.
LEMMA AnswerStep == ASSUME IInv, Answer PROVE Parts'
<1>1. /\ job.at = "awaiting" /\ job.order \in Orders /\ told[job.order] = "nothing" /\ ~uncertain
      /\ replies # <<>> /\ wires' = wires
  BY IdleTypes DEF IInv, Sending, Answer
<1>2. /\ \A w \in wires : w.order # job.order /\ w.order \in Orders /\ told[w.order] = "unknown"
      /\ Head(replies) = "ok" => landed[job.order] = "executed"
      /\ Head(replies) = "rejected" => landed[job.order] # "executed"
  BY <1>1 DEF IInv, SendTypeOK, Frame, Frames, Awaited, Queued
<1>3. CASE Unknown
  BY <1>1, <1>3, UnknownStep
<1>4. CASE /\ Head(replies) = "ok" /\ Tell(job.order, "ok") /\ job' = NoJob
           /\ UNCHANGED <<keeper, nonce, uncertain, alive, landed, venueNext>>
  <2>1. told'[job.order] = "ok" /\ \A p \in Orders \ {job.order} : told'[p] = told[p]
    BY <1>1, <1>4, Told DEF IInv, Outcomes
  <2>2. job'.at = "idle"
    BY <1>4, IdleTypes
  <2>3. Sending' /\ Queued' /\ Counted'
    BY <1>1, <1>4, <2>2 DEF Sending, Queued, Counted
  <2>4. Frames'
    BY <1>1, <1>2, <1>4, <2>1, <2>2 DEF IInv, Frames, Awaited
  <2>5. OutcomeIsOwn'
    BY <1>1, <1>2, <1>4, <2>1 DEF IInv, OutcomeIsOwn
  <2>6. HedgeNonceKnown'
    BY <1>1, <1>2, <1>4 DEF IInv, Counted, HedgeNonceKnown
  <2> QED
    BY <2>3, <2>4, <2>5, <2>6 DEF Parts
<1>5. CASE /\ Head(replies) = "rejected" /\ Tell(job.order, "rejected") /\ job' = [job EXCEPT !.at = "refresh"]
           /\ UNCHANGED <<keeper, nonce, uncertain, alive, landed, venueNext>>
  <2>1. told'[job.order] = "rejected" /\ \A p \in Orders \ {job.order} : told'[p] = told[p]
    BY <1>1, <1>5, Told DEF IInv, Outcomes
  <2>2. job'.at = "refresh" /\ job'.order = job.order /\ job' # NoJob
    BY <1>5, Stage, IdleTypes DEF IInv, Stages
  <2>3. Sending' /\ Queued' /\ Counted' /\ HedgeNonceKnown'
    BY <1>1, <1>5, <2>2 DEF Sending, Queued, Counted, HedgeNonceKnown
  <2>4. wires # {} => ~(keeper = "worker" /\ ~uncertain)
    BY <1>1, <1>2 DEF IInv, Frames, Awaited
  <2>5. Frames'
    BY <1>1, <1>2, <1>5, <2>1, <2>2, <2>4 DEF IInv, Frames, Awaited
  <2>6. OutcomeIsOwn'
    BY <1>1, <1>2, <1>5, <2>1 DEF IInv, OutcomeIsOwn
  <2> QED
    BY <2>3, <2>5, <2>6 DEF Parts
<1> QED
  BY <1>3, <1>4, <1>5 DEF Answer

\* The nonce is read again; nothing of a certain worker is on its way then.
LEMMA RefreshStep == ASSUME IInv, Refresh \/ RepairNonce \/ RefreshNonce PROVE Parts'
<1>1. UNCHANGED <<keeper, alive, replies, wires, told, landed, venueNext>>
  BY DEF Refresh, RepairNonce, RefreshNonce
<1>2. keeper = "worker" => wires = {}
  <2>1. CASE RepairNonce
    BY <2>1, IdleTypes DEF RepairNonce, IInv, Sending, Frames, Awaited
  <2>2. CASE Refresh
    BY <2>2, NoFrames, IdleTypes DEF Refresh, IInv, Sending
  <2> QED
    BY <2>1, <2>2 DEF RefreshNonce
<1>3. job' = NoJob /\ (keeper = "taker" => ~uncertain')
  BY DEF Refresh, RepairNonce, RefreshNonce, IInv, Sending, SendTypeOK
<1>4. job'.at = "idle" /\ job.at # "awaiting"
  BY <1>3, IdleTypes DEF Refresh, RepairNonce, RefreshNonce, IInv, Sending
<1>5. Sending' /\ Queued' /\ Counted'
  BY <1>1, <1>3, <1>4 DEF Sending, Queued, Counted, IInv, SendTypeOK
<1>6. Frames'
  BY <1>1, <1>2, <1>4 DEF IInv, Frames, Awaited
<1>7. OutcomeIsOwn'
  BY <1>1 DEF IInv, OutcomeIsOwn
<1>8. HedgeNonceKnown'
  <2>1. CASE Refreshed
    BY <1>1, <2>1 DEF HedgeNonceKnown, Refreshed
  <2>2. CASE ~Refreshed
    BY <1>1, <2>2 DEF Refresh, RepairNonce, RefreshNonce, HedgeNonceKnown
  <2> QED
    BY <2>1, <2>2
<1> QED
  BY <1>5, <1>6, <1>7, <1>8 DEF Parts

-----------------------------------------------------------------------------
(* The connection and the venue                                            *)

LEMMA DeadStep == ASSUME IInv, ConnectionDies \/ Notice PROVE Parts'
<1>1. UNCHANGED <<keeper, nonce, uncertain, wires, job, told, landed, venueNext>> /\ (alive' => alive)
  BY DEF ConnectionDies, Notice
<1>2. Queued'
  BY <1>1 DEF IInv, Queued, ConnectionDies, Notice
<1> QED
  BY <1>1, <1>2 DEF Parts, IInv, Sending, Frames, Awaited, Counted, OutcomeIsOwn, HedgeNonceKnown

LEMMA ReconnectStep == ASSUME IInv, Reconnect PROVE Parts'
<1>1. /\ job.at # "awaiting" /\ UNCHANGED <<keeper, nonce, uncertain, job, told, landed, venueNext>>
      /\ replies' = <<>> /\ wires' = {[w EXCEPT !.current = FALSE] : w \in wires}
  BY DEF Reconnect
<1>2. \A w \in wires : LET old == [w EXCEPT !.current = FALSE]
                      IN old.order = w.order /\ ~old.current
  BY DEF IInv, SendTypeOK, Frame
<1>3. \A v \in wires' : \E w \in wires : v = [w EXCEPT !.current = FALSE] /\ v.order = w.order /\ ~v.current
  BY <1>1, <1>2
<1>4. Frames'
  <2>1. \A v \in wires' : told'[v.order] = "unknown" /\ landed'[v.order] = "no" /\ ~v.current
    BY <1>1, <1>3 DEF IInv, Frames, Awaited
  <2>2. ASSUME NEW v \in wires', NEW w \in wires', v.order = w.order PROVE v = w
    <3>1. PICK a \in wires : v = [a EXCEPT !.current = FALSE] /\ v.order = a.order
      BY <1>3
    <3>2. PICK b \in wires : w = [b EXCEPT !.current = FALSE] /\ w.order = b.order
      BY <1>3
    <3>3. a = b
      BY <2>2, <3>1, <3>2 DEF IInv, Frames
    <3> QED
      BY <3>1, <3>2, <3>3
  <2>3. wires' # {} => ~(keeper' = "worker" /\ ~uncertain')
    BY <1>1, <1>3, NoFrames
  <2> QED
    BY <1>1, <2>1, <2>2, <2>3 DEF IInv, Frames, Awaited
<1>5. OutcomeIsOwn'
  BY <1>1, <1>3 DEF IInv, OutcomeIsOwn
<1> QED
  BY <1>1, <1>4, <1>5 DEF Parts, IInv, Sending, Queued, Counted, HedgeNonceKnown

LEMMA TakeStep == ASSUME IInv, NEW w \in wires, TakeFrame(w) PROVE Parts'
<1>1. PICK verdict \in {"executed", "refused", "refused, nonce used"} :
          /\ landed'[w.order] = verdict /\ w.order \in Orders
          /\ \A p \in Orders \ {w.order} : landed'[p] = landed[p]
          /\ venueNext' = IF verdict = "refused" THEN venueNext ELSE venueNext + 1
          /\ \E answer \in Answers :
                /\ answer = "ok" => verdict = "executed"
                /\ answer = "rejected" => verdict # "executed"
                /\ replies' \in {replies} \cup IF w.current /\ alive THEN {Append(replies, answer)} ELSE {}
  BY Landing DEF IInv
<1>2. UNCHANGED <<keeper, nonce, uncertain, alive, job, told>> /\ wires' = wires \ {w}
  BY DEF TakeFrame
<1>3. (told[w.order] = "unknown" \/ Awaited(w.order)) /\ landed[w.order] = "no"
      /\ (w.current /\ alive => Awaited(w.order)) /\ (keeper = "worker" /\ ~uncertain => Awaited(w.order))
      /\ \A v \in wires' : v \in wires /\ v.order # w.order /\ v.order \in Orders
  BY <1>2 DEF IInv, Frames, SendTypeOK, Frame
<1>4. Sending'
  BY <1>2 DEF IInv, Sending
<1>5. Frames'
  BY <1>1, <1>2, <1>3 DEF IInv, Frames, Awaited
<1>6. OutcomeIsOwn'
  BY <1>1, <1>2, <1>3 DEF IInv, OutcomeIsOwn, Sending, Awaited
<1>7. Queued'
  <2> SUFFICES ASSUME job.at = "awaiting", replies' # <<>>
               PROVE  /\ Len(replies') = 1
                      /\ \A v \in wires' : v.order # job.order
                      /\ Head(replies') = "ok" => landed'[job.order] = "executed"
                      /\ Head(replies') = "rejected" => landed'[job.order] # "executed"
    BY <1>2 DEF Queued
  <2>1. CASE Awaited(w.order)
    <3>1. replies = <<>> /\ replies \in Seq(Answers)
      BY <2>1 DEF IInv, SendTypeOK, Queued, Awaited
    <3>2. job.order = w.order /\ landed'[job.order] = verdict
      BY <1>1, <2>1 DEF Awaited
    <3>3. \A v \in wires' : v.order # job.order
      BY <1>3, <3>2
    <3>4. ASSUME NEW answer \in Answers, replies' = Append(replies, answer),
                 answer = "ok" => verdict = "executed", answer = "rejected" => verdict # "executed"
          PROVE  /\ Len(replies') = 1
                 /\ Head(replies') = "ok" => landed'[job.order] = "executed"
                 /\ Head(replies') = "rejected" => landed'[job.order] # "executed"
      <4>1. Len(Append(replies, answer)) = 1 /\ Head(Append(replies, answer)) = answer
        BY <3>1, First
      <4>2. Len(replies') = 1 /\ Head(replies') = answer
        BY <3>4, <4>1, Zenon
      <4> QED
        BY <3>2, <3>4, <4>2, Zenon
    <3> QED
      BY <1>1, <3>1, <3>3, <3>4
  <2>2. CASE ~Awaited(w.order)
    <3>1. replies' = replies /\ job.order # w.order
      BY <1>1, <1>3, <2>2 DEF Awaited
    <3>2. job.order \in Orders
      BY DEF IInv, Sending
    <3> QED
      BY <1>1, <1>3, <3>1, <3>2 DEF IInv, Queued
  <2> QED
    BY <2>1, <2>2
<1>8. Counted' /\ HedgeNonceKnown'
  <2> SUFFICES ASSUME keeper = "worker", ~uncertain
               PROVE  Counted' /\ HedgeNonceKnown'
    BY <1>2 DEF Counted, HedgeNonceKnown
  <2>1. job.at = "awaiting" /\ job.order = w.order /\ nonce = venueNext /\ venueNext \in Int
    BY <1>3 DEF IInv, Counted, Awaited, SendTypeOK
  <2>2. verdict = "executed" => nonce = venueNext' - 1
    <3>1. verdict = "executed" => venueNext' = venueNext + 1
      BY <1>1
    <3> QED BY <2>1, <3>1
  <2>3. job # NoJob
    BY <2>1, IdleTypes
  <2> QED
    BY <1>1, <1>2, <2>1, <2>2, <2>3 DEF Counted, HedgeNonceKnown
<1> QED
  BY <1>4, <1>5, <1>6, <1>7, <1>8 DEF Parts

LEMMA LoseStep == ASSUME IInv, NEW w \in wires, Lose(w) PROVE Parts'
<1>1. UNCHANGED <<keeper, nonce, uncertain, alive, replies, job, told, landed, venueNext>> /\ wires' = wires \ {w}
  BY DEF Lose
<1> QED
  BY <1>1 DEF Parts, IInv, Sending, Frames, Awaited, Queued, Counted, OutcomeIsOwn, HedgeNonceKnown

\* Every step of the caller, the connection and the venue keeps the invariant.
LEMMA InvStep == ASSUME IInv, [SendNext]_sendVars PROVE IInv'
<1>1. SendTypeOK'
  BY SendTypeStep DEF IInv
<1>2. ASSUME WriteFails \/ NoAnswer PROVE Parts'
  <2>1. Unknown /\ job.at \in {"signed", "awaiting"}
    BY <1>2 DEF WriteFails, NoAnswer
  <2>2. wires' = wires \/ (wires' = wires \cup {Wired} /\ job.at = "signed")
    BY <1>2 DEF WriteFails, NoAnswer
  <2> QED
    BY <2>1, <2>2, UnknownStep
<1>3. ASSUME UNCHANGED sendVars PROVE Parts'
  BY <1>3 DEF sendVars, Parts, IInv, Sending, Frames, Awaited, Queued, Counted, OutcomeIsOwn, HedgeNonceKnown
<1>4. Parts'
  <2>1. ASSUME NEW w \in wires, TakeFrame(w) \/ Lose(w) PROVE Parts'
    BY <2>1, TakeStep, LoseStep
  <2> QED
    BY <1>2, <1>3, <2>1, SubmitStep, GivenBackStep, WriteStep, AnswerStep, RefreshStep, DeadStep,
       ReconnectStep DEF SendNext
<1> QED
  BY <1>1, <1>4 DEF IInv, Parts

\* An outcome belongs to the order it is told of and the hedge worker knows the venue's nonce, with
\* the inductive invariant of a send, from the reservation of its nonce to what its caller is told
\* (NonceManager, LighterTxWs, the worker and the taker's client).
THEOREM SendsAreKnownHolds == SendSpec => []SendsAreKnown
BY InvInit, InvStep, PTL DEF SendSpec, SendsAreKnown

\* An outcome belongs to the order it is told of, whatever answers come late, are notices or
\* were queued on a dead connection (LighterTxWs pairs a frame with the next answer).
THEOREM OutcomesHold == SendSpec => []OutcomeIsOwn
<1>1. SendsAreKnown => OutcomeIsOwn
  BY DEF IInv, SendsAreKnown
<1> QED BY <1>1, SendsAreKnownHolds, PTL

\* Whenever the hedge worker would send, its counter is the venue's.
THEOREM NoncesHold == SendSpec => []HedgeNonceKnown
<1>1. SendsAreKnown => HedgeNonceKnown
  BY DEF IInv, SendsAreKnown
<1> QED BY <1>1, SendsAreKnownHolds, PTL

-----------------------------------------------------------------------------
(* AsterNonce                                                              *)

USE DEF fileVars, localVars

\* The numeric constants, out of the set notation of the assumption.
LEMMA Numbers ==
    /\ MaxNonce \in Nat /\ MaxLead \in Nat /\ Nobody \notin Process
    /\ \A t \in Clock \cup {0} : t \in 0..MaxNonce
  BY NonceAssumption

Opening == {"measuring", "sizing", "zeroing", "stamping", "checking", "unlocking"}

\* One process at a time is past the lock.
Exclusive == \A p \in Process : pc[p] \in Opening => lock = p

\* Only the process that found the file empty writes into it, and nobody draws
\* before the header is there.
Stamped ==
    /\ header => sized
    /\ \A p \in Process : /\ pc[p] = "sizing" => ~sized
                          /\ pc[p] \in {"zeroing", "stamping"} => sized /\ ~header
                          /\ pc[p] \in {"unlocking", "ready", "drawing"} => header
    /\ ~header => counter = 0 /\ issued = <<>>

\* The counter is the latest nonce, so it bounds all of them.
Bounded == \A i \in 1..Len(issued) : issued[i] <= counter

NonceInv == TypeOK /\ Exclusive /\ Stamped /\ Bounded /\ Increasing

-----------------------------------------------------------------------------
\* What appending does to a sequence.
LEMMA Extend ==
    ASSUME NEW S, NEW s \in Seq(S), NEW e \in S
    PROVE  /\ Len(Append(s, e)) = Len(s) + 1 /\ Len(s) \in Nat
           /\ Append(s, e)[Len(s) + 1] = e
           /\ \A i \in 1..Len(s) : Append(s, e)[i] = s[i] /\ s[i] \in S
  OBVIOUS

LEMMA InitInv == Init => NonceInv
<1> SUFFICES ASSUME Init PROVE NonceInv
  OBVIOUS
<1>1. TypeOK
  <2>1. issued \in Seq(1..MaxNonce)
    BY DEF Init
  <2>2. /\ pc \in [Process -> PCs] /\ now \in [Process -> Clock \cup {0}]
        /\ previous \in [Process -> 0..MaxNonce] /\ counter \in 0..MaxNonce
    BY Numbers DEF Init, PCs
  <2> QED BY <2>1, <2>2 DEF Init, TypeOK
<1>2. Exclusive /\ Stamped
  BY DEF Init, Exclusive, Opening, Stamped
<1>3. Len(issued) = 0
  BY DEF Init
<1> QED BY <1>1, <1>2, <1>3 DEF NonceInv, Bounded, Increasing

\* A candidate that is neither refused nor late is larger than the counter,
\* and lies in the window the dispenser allows.
LEMMA CandidateTypes ==
    ASSUME TypeOK, NEW p \in Process, ~Overflows(p), ~TooFarAhead(p)
    PROVE  /\ Candidate(p) \in 1..MaxNonce
           /\ Candidate(p) > previous[p]
           /\ Candidate(p) \in now[p]..(now[p] + MaxLead)
<1>1. now[p] \in Clock \cup {0} /\ previous[p] \in 0..MaxNonce
  BY DEF TypeOK
<1>2. now[p] \in 0..MaxNonce
  BY <1>1, Numbers
<1> QED BY <1>1, <1>2, Numbers DEF Candidate, Overflows, TooFarAhead

LEMMA TypeStep == NonceInv /\ [Next]_vars => TypeOK'
<1> SUFFICES ASSUME NonceInv, [Next]_vars PROVE TypeOK'
  OBVIOUS
<1> USE DEF NonceInv, TypeOK, Goto, PCs
<1>1. ASSUME NEW p \in Process, Take(p) PROVE TypeOK'
  <2>1. Candidate(p) \in 1..MaxNonce
    BY <1>1, CandidateTypes DEF Take
  <2>2. issued' \in Seq(1..MaxNonce)
    BY <1>1, <2>1 DEF Take
  <2> QED BY <1>1, <2>1, <2>2 DEF Take
<1>2. ASSUME NEW p \in Process, Open(p) PROVE TypeOK'
  BY <1>2 DEF Open
<1>3. ASSUME NEW p \in Process, Lock(p) \/ Measure(p) \/ Size(p) PROVE TypeOK'
  BY <1>3 DEF Lock, Measure, Size
<1>4. ASSUME NEW p \in Process, Zero(p) \/ Stamp(p) PROVE TypeOK'
  BY <1>4, Numbers DEF Zero, Stamp
<1>5. ASSUME NEW p \in Process, CheckHeader(p) \/ Unlock(p) \/ Abandon(p) PROVE TypeOK'
  BY <1>5 DEF CheckHeader, Unlock, Abandon
<1>6. ASSUME NEW p \in Process, ReadClock(p) PROVE TypeOK'
  BY <1>6 DEF ReadClock
<1>7. ASSUME NEW p \in Process, Refuse(p) \/ Retry(p) PROVE TypeOK'
  BY <1>7 DEF Refuse, Retry
<1>8. CASE UNCHANGED vars
  BY <1>8 DEF vars
<1> QED BY <1>1, <1>2, <1>3, <1>4, <1>5, <1>6, <1>7, <1>8 DEF Next, Step

LEMMA ExclusiveStep == NonceInv /\ [Next]_vars => Exclusive'
<1> SUFFICES ASSUME NonceInv, [Next]_vars PROVE Exclusive'
  OBVIOUS
<1> USE DEF NonceInv, TypeOK, Goto, Exclusive, Opening
<1>1. ASSUME NEW p \in Process, Open(p) \/ Lock(p) \/ Measure(p) \/ Size(p) PROVE Exclusive'
  BY <1>1, Numbers DEF Open, Lock, Measure, Size
<1>2. ASSUME NEW p \in Process, Zero(p) \/ Stamp(p) \/ CheckHeader(p) PROVE Exclusive'
  BY <1>2 DEF Zero, Stamp, CheckHeader
<1>3. ASSUME NEW p \in Process, Unlock(p) \/ Abandon(p) PROVE Exclusive'
  BY <1>3 DEF Unlock, Abandon
<1>4. ASSUME NEW p \in Process, ReadClock(p) \/ Refuse(p) \/ Take(p) \/ Retry(p) PROVE Exclusive'
  BY <1>4 DEF ReadClock, Refuse, Take, Retry
<1>5. CASE UNCHANGED vars
  BY <1>5 DEF vars
<1> QED BY <1>1, <1>2, <1>3, <1>4, <1>5 DEF Next, Step

LEMMA StampedStep == NonceInv /\ [Next]_vars => Stamped'
<1> SUFFICES ASSUME NonceInv, [Next]_vars PROVE Stamped'
  OBVIOUS
<1> USE DEF NonceInv, TypeOK, Goto, Exclusive, Opening, Stamped
<1>1. ASSUME NEW p \in Process, Open(p) \/ Lock(p) \/ Measure(p) \/ Size(p) PROVE Stamped'
  BY <1>1 DEF Open, Lock, Measure, Size
<1>2. ASSUME NEW p \in Process, Zero(p) \/ Stamp(p) \/ CheckHeader(p) PROVE Stamped'
  BY <1>2, Numbers DEF Zero, Stamp, CheckHeader
<1>3. ASSUME NEW p \in Process, Unlock(p) \/ Abandon(p) PROVE Stamped'
  BY <1>3 DEF Unlock, Abandon
<1>4. ASSUME NEW p \in Process, ReadClock(p) \/ Refuse(p) \/ Take(p) \/ Retry(p) PROVE Stamped'
  BY <1>4 DEF ReadClock, Refuse, Take, Retry
<1>5. CASE UNCHANGED vars
  BY <1>5 DEF vars
<1> QED BY <1>1, <1>2, <1>3, <1>4, <1>5 DEF Next, Step

\* Only a swap changes the history, and it appends a value above the counter.
LEMMA OrderStep == NonceInv /\ [Next]_vars => (Bounded /\ Increasing)'
<1> SUFFICES ASSUME NonceInv, [Next]_vars PROVE (Bounded /\ Increasing)'
  OBVIOUS
<1> USE DEF NonceInv, Bounded, Increasing
<1>1. ASSUME NEW p \in Process, Take(p) PROVE (Bounded /\ Increasing)'
  <2>1. Candidate(p) \in 1..MaxNonce /\ Candidate(p) > counter
    BY <1>1, CandidateTypes DEF Take
  <2>2. /\ issued' = Append(issued, Candidate(p)) /\ counter' = Candidate(p)
        /\ issued \in Seq(1..MaxNonce) /\ counter \in Int
    BY <1>1 DEF Take, TypeOK
  <2>3. /\ Len(issued') = Len(issued) + 1 /\ Len(issued) \in Nat
        /\ issued'[Len(issued) + 1] = Candidate(p)
        /\ \A i \in 1..Len(issued) : issued'[i] = issued[i] /\ issued[i] \in 1..MaxNonce
    <3>1. /\ Len(Append(issued, Candidate(p))) = Len(issued) + 1 /\ Len(issued) \in Nat
          /\ Append(issued, Candidate(p))[Len(issued) + 1] = Candidate(p)
          /\ \A i \in 1..Len(issued) :
                Append(issued, Candidate(p))[i] = issued[i] /\ issued[i] \in 1..MaxNonce
      <4> HIDE DEF NonceInv
      <4> QED BY <2>1, <2>2, Extend
    <3> QED BY <2>2, <3>1
  <2>4. \A i \in 1..Len(issued) : issued[i] < Candidate(p)
    BY <2>1, <2>2, <2>3
  <2> QED BY <2>1, <2>2, <2>3, <2>4
<1>2. ASSUME NEW p \in Process, Zero(p) PROVE (Bounded /\ Increasing)'
  BY <1>2 DEF Zero, Goto, Stamped
<1>3. CASE UNCHANGED <<counter, issued>>
  BY <1>3
<1>4. CASE UNCHANGED vars
  BY <1>3, <1>4 DEF vars
<1> QED
  BY <1>1, <1>2, <1>3, <1>4
     DEF Next, Step, Open, Lock, Measure, Size, Stamp, CheckHeader, Unlock, Abandon,
         ReadClock, Refuse, Retry

LEMMA IInvStep == NonceInv /\ [Next]_vars => NonceInv'
  BY TypeStep, ExclusiveStep, StampedStep, OrderStep DEF NonceInv

\* The inductive invariant of the nonce file: one process is past the lock, only the one that
\* found the file empty stamps it, and the counter bounds every nonce that was issued.
THEOREM Inductive == Spec => []NonceInv
  BY InitInv, IInvStep, PTL DEF Spec

-----------------------------------------------------------------------------
\* TypeOK holds in every reachable state.
THEOREM TypeCorrect == Spec => []TypeOK
  BY Inductive, PTL DEF NonceInv

\* However the processes of a signer interleave, stop and reopen the file, no
\* nonce is taken twice and each is larger than all before it.
THEOREM NeverReissued == Spec => []Increasing
  BY Inductive, PTL DEF NonceInv

\* Every step of the mapped counter is a draw of the dispenser or a stutter.
THEOREM Refines == Spec => DispenserSpec
<1>1. Init => Dispenser!Init
  BY DEF Init, Dispenser!Init
<1>2. ASSUME NonceInv, [Next]_vars PROVE [Dispenser!Draw]_counter
  <2>1. ASSUME NEW p \in Process, Take(p) PROVE Dispenser!Draw
    <3>1. /\ Candidate(p) > counter /\ Candidate(p) \in 1..MaxNonce
          /\ counter' = Candidate(p)
      BY <1>2, <2>1, CandidateTypes DEF Take, NonceInv
    <3> QED BY <3>1, Numbers DEF Dispenser!Draw
  <2>2. ASSUME NEW p \in Process, Zero(p) PROVE UNCHANGED counter
    BY <1>2, <2>2 DEF Zero, Goto, NonceInv, Stamped
  <2>3. CASE UNCHANGED counter
    BY <2>3
  <2> QED
    BY <1>2, <2>1, <2>2, <2>3
       DEF Next, Step, Open, Lock, Measure, Size, Stamp, CheckHeader, Unlock, Abandon,
           ReadClock, Refuse, Retry, vars
<1> QED BY <1>1, <1>2, Inductive, PTL DEF Spec, DispenserSpec, Dispenser!Spec
=============================================================================
