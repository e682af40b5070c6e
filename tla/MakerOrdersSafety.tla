--------------------------- MODULE MakerOrdersSafety ---------------------------
(***************************************************************************)
(* Proofs about the maker orders of one side, for any number and size of   *)
(* orders, however far the worker runs ahead and however much goes wrong:  *)
(* no order rests unknown to the strategy, two never rest together, no     *)
(* slot waits for an answer that will not come, and a drain that ended     *)
(* left nothing.                                                           *)
(*                                                                         *)
(* A step is a strategy's, a worker's or the venue's, and most of each     *)
(* kind do the same to what the invariant speaks of.  Learns, Works and    *)
(* VenueMoves say what it does to the tickets, the claims and the          *)
(* evidence; Turns and Replies what it does to an answer that is awaited.  *)
(* Each action is shown to be one of them (or a claim, an answer or a new  *)
(* order, by themselves), and each part of the invariant to survive them.  *)
(***************************************************************************)
EXTENDS MakerOrders, SequenceTheorems, TLAPS

-----------------------------------------------------------------------------
(* Queues                                                                  *)

\* The queue r is q with elements added at its end.
Extends(q, r) ==
    /\ Len(q) \in Nat /\ Len(r) \in Nat /\ Len(q) <= Len(r)
    /\ \A k \in 1 .. Len(q) : r[k] = q[k]

\* The queue r is q without its first element.
Pops(q, r) ==
    /\ Len(q) \in Nat /\ Len(r) \in Nat /\ Len(q) = Len(r) + 1 /\ q # <<>>
    /\ q[1] = Head(q) /\ \A k \in 1 .. Len(r) : r[k] = q[k + 1]

LEMMA Same == ASSUME NEW S, NEW q \in Seq(S) PROVE Extends(q, q) /\ Len(q) \in Nat
BY LenProperties DEF Extends

LEMMA Appended ==
    ASSUME NEW S, NEW q \in Seq(S), NEW e \in S
    PROVE  /\ Append(q, e) \in Seq(S) /\ Extends(q, Append(q, e))
           /\ \A k \in 1 .. Len(Append(q, e)) : k \in 1 .. Len(q) \/ (k = Len(q) + 1 /\ Append(q, e)[k] = e)
           /\ Len(Append(q, e)) = Len(q) + 1 /\ Append(q, e)[Len(q) + 1] = e
<1>1. Len(q) \in Nat
  BY LenProperties
<1> QED
  BY <1>1, AppendProperties DEF Extends

LEMMA Joined ==
    ASSUME NEW S, NEW q \in Seq(S), NEW r \in Seq(S)
    PROVE  /\ q \o r \in Seq(S) /\ Extends(q, q \o r) /\ Len(q \o r) = Len(q) + Len(r)
           /\ Len(q) \in Nat /\ Len(r) \in Nat
           /\ \A k \in 1 .. Len(q \o r) : k \in 1 .. Len(q) \/ (k - Len(q) \in 1 .. Len(r) /\ (q \o r)[k] = r[k - Len(q)])
           /\ \A k \in 1 .. Len(r) : Len(q) + k \in 1 .. Len(q \o r) /\ (q \o r)[Len(q) + k] = r[k]
<1>1. Len(q) \in Nat /\ Len(r) \in Nat
  BY LenProperties
<1>2. q \o r \in Seq(S) /\ Len(q \o r) = Len(q) + Len(r)
  BY ConcatProperties
<1>3. \A k \in 1 .. Len(q) + Len(r) : (q \o r)[k] = IF k <= Len(q) THEN q[k] ELSE r[k - Len(q)]
  BY ConcatProperties
<1> QED
  BY <1>1, <1>2, <1>3 DEF Extends

LEMMA PairOf ==
    ASSUME NEW S, NEW e \in S, NEW f \in S
    PROVE  /\ <<e>> \o <<f>> \in Seq(S) /\ \A k \in 1 .. Len(<<e>> \o <<f>>) : (<<e>> \o <<f>>)[k] \in {e, f}
<1>0. ASSUME NEW x \in S PROVE <<x>> \in Seq(S) /\ Len(<<x>>) = 1 /\ <<x>>[1] = x
  OBVIOUS
<1>1. PICK a \in Seq(S) : a = <<e>> /\ Len(a) = 1 /\ a[1] = e
  BY <1>0
<1>2. PICK b \in Seq(S) : b = <<f>> /\ Len(b) = 1 /\ b[1] = f
  BY <1>0
<1>3. /\ a \o b \in Seq(S) /\ Extends(a, a \o b)
      /\ \A k \in 1 .. Len(a \o b) : k \in 1 .. Len(a) \/ (k - Len(a) \in 1 .. Len(b) /\ (a \o b)[k] = b[k - Len(a)])
  BY Joined
<1>4. ASSUME NEW k \in 1 .. Len(a \o b) PROVE (a \o b)[k] \in {e, f}
  <2>1. CASE k = 1
    BY <1>1, <1>3, <2>1 DEF Extends
  <2>2. CASE k # 1
    <3>1. k - 1 = 1 /\ (a \o b)[k] = b[k - 1]
      BY <1>1, <1>2, <1>3, <2>2
    <3> QED
      BY <1>2, <3>1
  <2> QED
    BY <2>1, <2>2
<1> QED
  BY <1>1, <1>2, <1>3, <1>4

LEMMA Popped ==
    ASSUME NEW S, NEW q \in Seq(S), q # <<>>
    PROVE  Head(q) \in S /\ Tail(q) \in Seq(S) /\ Pops(q, Tail(q))
<1>1. Len(q) \in Nat \ {0}
  BY EmptySeq
<1>2. /\ Head(q) \in S /\ Tail(q) \in Seq(S) /\ Len(Tail(q)) = Len(q) - 1
      /\ \A i \in 1 .. Len(Tail(q)) : Tail(q)[i] = q[i + 1]
  BY HeadTailProperties
<1>3. q[1] = Head(q)
  BY <1>1
<1> QED
  BY <1>1, <1>2, <1>3 DEF Pops

-----------------------------------------------------------------------------
(* The slot                                                                *)

LEMMA NoOrder == ASSUME MakerOrdersAssumption PROVE NoId \notin Ids
BY DEF MakerOrdersAssumption, NoId, Ids

LEMMA SlotIdle ==
    ASSUME MakerOrdersAssumption
    PROVE  /\ SlotOK(IdleSlot) /\ IdleSlot.state = "Idle" /\ IdleSlot.id = NoId
           /\ IdleSlot.next = NoId /\ ~IdleSlot.acked /\ IdleSlot.filled = 0
BY NoOrder DEF SlotOK, IdleSlot, Slots, MakerOrdersAssumption

\* What a well-formed slot is made of, and a slot made of it.
LEMMA SlotFields ==
    ASSUME MakerOrdersAssumption, NEW s, SlotOK(s)
    PROVE  /\ s = [state |-> s.state, id |-> s.id, acked |-> s.acked, filled |-> s.filled, next |-> s.next,
                   after |-> s.after]
           /\ s.id \in Ids \cup {NoId} /\ s.next \in Ids \cup {NoId} /\ s.acked \in BOOLEAN /\ s.after \in BOOLEAN
           /\ s.filled \in 0 .. Lots /\ Lots \in Nat \ {0}
           /\ s.state \in {"Idle", "PendingPlace", "Open", "PendingCancel", "PendingReplace"}
           /\ s.state = "Idle" => s.id = NoId /\ s.next = NoId /\ ~s.acked /\ s.filled = 0
           /\ s.state # "Idle" => s.id \in Ids
           /\ s.state = "PendingReplace" <=> s.next # NoId
           /\ s.next # NoId => s.next \in Ids /\ s.next # s.id
<1>1. s \in Slots /\ (s.state = "Idle" => s = IdleSlot) /\ (s.state # "Idle" => s.id \in Ids)
      /\ (s.state = "PendingReplace" <=> s.next # NoId) /\ (s.next # NoId => s.next # s.id)
  BY DEF SlotOK
<1> QED
  BY <1>1, SlotIdle DEF Slots, MakerOrdersAssumption

LEMMA SlotMade ==
    ASSUME MakerOrdersAssumption, NEW t \in Slots, t.state # "Idle", t.id \in Ids,
           t.state = "PendingReplace" <=> t.next # NoId, t.next # t.id,
           t.state \in {"Open", "PendingReplace"} => t.acked
    PROVE  SlotOK(t)
<1>1. t # IdleSlot
  BY SlotIdle
<1> QED
  BY <1>1 DEF SlotOK

LEMMA SlotPlaced ==
    ASSUME MakerOrdersAssumption, NEW id \in Ids
    PROVE  LET s == PlaceSent(id)
           IN  /\ SlotOK(s) /\ s.state = "PendingPlace" /\ s.id = id
               /\ s.next = NoId /\ ~s.acked /\ s.filled = 0
<1> DEFINE t == PlaceSent(id)
<1>2. NoId # id /\ 0 \in 0 .. Lots
  BY NoOrder DEF MakerOrdersAssumption
<1>3. /\ t.state = "PendingPlace" /\ t.id = id /\ t.next = NoId /\ ~t.acked /\ t.filled = 0
  BY DEF PlaceSent, IdleSlot
<1>4. t \in Slots
  BY <1>2 DEF PlaceSent, IdleSlot, Slots
<1> HIDE DEF t
<1>5. SlotOK(t)
  BY <1>2, <1>3, <1>4, SlotMade
<1> QED
  BY <1>3, <1>5 DEF t

LEMMA SlotReplaced ==
    ASSUME MakerOrdersAssumption, NEW s, SlotOK(s), s.state = "Open", NEW id \in Ids, id # s.id
    PROVE  LET t == ReplaceSent(s, id)
           IN  /\ SlotOK(t) /\ t.state = "PendingReplace" /\ t.id = s.id
               /\ t.next = id /\ t.acked = s.acked /\ t.filled = s.filled
<1> DEFINE t == ReplaceSent(s, id)
<1>1. s \in Slots /\ s.acked /\ s.id \in Ids /\ id # NoId
  BY NoOrder DEF SlotOK
<1>3. /\ t.state = "PendingReplace" /\ t.id = s.id /\ t.next = id /\ t.acked = s.acked /\ t.filled = s.filled
  BY <1>1 DEF ReplaceSent, Slots
<1>4. t \in Slots
  BY <1>1 DEF ReplaceSent, Slots
<1> HIDE DEF t
<1>5. SlotOK(t)
  BY <1>1, <1>3, <1>4, SlotMade
<1> QED
  BY <1>3, <1>5 DEF t

LEMMA SlotCancelled ==
    ASSUME MakerOrdersAssumption, NEW s, SlotOK(s), s.state \in {"PendingPlace", "Open", "PendingCancel"}
    PROVE  LET t == CancelSent(s)
           IN  /\ SlotOK(t) /\ t.state = "PendingCancel" /\ t.id = s.id
               /\ t.next = NoId /\ s.next = NoId /\ t.acked = s.acked /\ t.filled = s.filled
<1> DEFINE t == CancelSent(s)
<1>1. s \in Slots /\ s.next = NoId /\ s.id \in Ids
  BY DEF SlotOK
<1>3. /\ t.state = "PendingCancel" /\ t.id = s.id /\ t.next = s.next /\ t.acked = s.acked /\ t.filled = s.filled
  BY <1>1 DEF CancelSent, Slots
<1>4. t \in Slots
  BY <1>1 DEF CancelSent, Slots
<1> HIDE DEF t
<1>5. SlotOK(t)
  BY <1>1, <1>3, <1>4, NoOrder, SlotMade
<1> QED
  BY <1>1, <1>3, <1>5 DEF t

\* A quote that is marked for a cancel after its replacement.
LEMMA SlotMarked ==
    ASSUME MakerOrdersAssumption, NEW s, SlotOK(s), s.state = "PendingReplace"
    PROVE  LET t == [s EXCEPT !.after = TRUE]
           IN  /\ SlotOK(t) /\ t.state = s.state /\ t.id = s.id
               /\ t.next = s.next /\ t.acked = s.acked /\ t.filled = s.filled
<1> DEFINE t == [s EXCEPT !.after = TRUE]
<1>1. s \in Slots /\ s.acked /\ s.id \in Ids /\ s.next # NoId /\ s.next # s.id
  BY DEF SlotOK
<1>3. /\ t.state = s.state /\ t.id = s.id /\ t.next = s.next /\ t.acked = s.acked /\ t.filled = s.filled
  BY <1>1 DEF Slots
<1>4. t \in Slots
  BY <1>1 DEF Slots
<1> HIDE DEF t
<1>5. SlotOK(t)
  BY <1>1, <1>3, <1>4, SlotMade
<1> QED
  BY <1>3, <1>5 DEF t

LEMMA SlotAcked ==
    ASSUME MakerOrdersAssumption, NEW s, SlotOK(s), s.state \in {"PendingPlace", "PendingCancel"}
    PROVE  LET t == Acked(s)
           IN  /\ SlotOK(t) /\ t.id = s.id /\ t.next = s.next /\ s.next = NoId /\ t.acked /\ t.filled = s.filled
               /\ t.state = IF s.state = "PendingPlace" THEN "Open" ELSE s.state
<1> DEFINE t  == Acked(s)
           st == IF s.state \in {"PendingPlace", "PendingReplace"} THEN "Open" ELSE s.state
<1>1. s \in Slots /\ s.next = NoId /\ s.id \in Ids
  BY DEF SlotOK
<1>a. st = IF s.state = "PendingPlace" THEN "Open" ELSE s.state
  OBVIOUS
<1>b. st \in {"Open", "PendingCancel"}
  OBVIOUS
<1>3. /\ t.state = st /\ t.id = s.id /\ t.next = s.next /\ t.acked /\ t.filled = s.filled
  BY <1>1 DEF Acked, Slots
<1>4. t \in Slots
  BY <1>1 DEF Acked, Slots
<1> HIDE DEF t, st
<1>5. SlotOK(t)
  BY <1>1, <1>b, <1>3, <1>4, NoOrder, SlotMade
<1> QED
  BY <1>1, <1>a, <1>3, <1>5 DEF t

LEMMA SlotPromoted ==
    ASSUME MakerOrdersAssumption, NEW s, SlotOK(s)
    PROVE  LET t == CancelAcked(s)
           IN  IF s.state = "PendingReplace"
               THEN /\ SlotOK(t) /\ t.state = "PendingPlace" /\ t.id = s.next /\ s.next \in Ids
                    /\ t.next = NoId /\ ~t.acked /\ t.filled = 0
               ELSE t = IdleSlot
<1>1. CASE s.state = "PendingReplace"
  <2> DEFINE t == CancelAcked(s)
  <2>1. s \in Slots /\ s.next # NoId /\ s.next \in Ids /\ 0 \in 0 .. Lots
    BY <1>1 DEF SlotOK, Slots, MakerOrdersAssumption
  <2>2. t = [state |-> "PendingPlace", id |-> s.next, acked |-> FALSE, filled |-> 0, next |-> NoId,
             after |-> s.after]
    BY <1>1, <2>1 DEF CancelAcked, PlaceSent, IdleSlot
  <2> HIDE DEF t
  <2>3. t.state = "PendingPlace" /\ t.id = s.next /\ t.next = NoId /\ ~t.acked /\ t.filled = 0
    BY <2>2
  <2>4. t \in Slots
    BY <2>1, <2>2 DEF Slots
  <2>5. SlotOK(t)
    BY <2>1, <2>3, <2>4, SlotMade
  <2> QED
    BY <1>1, <2>1, <2>3, <2>5 DEF t
<1>2. CASE s.state # "PendingReplace"
  BY <1>2 DEF CancelAcked
<1> QED
  BY <1>1, <1>2

\* A fill empties the slot only when it completes an order that is not being replaced.
LEMMA SlotFilled ==
    ASSUME MakerOrdersAssumption, NEW s, SlotOK(s), NEW id \in Ids, NEW c \in 0 .. Lots, NEW v \in 0 .. Lots,
           c <= v, s.id = id => s.filled <= v
    PROVE  LET t == FillProgress(s, id, c)
           IN  /\ SlotOK(t)
               /\ \/ /\ t.state = s.state /\ t.id = s.id /\ t.next = s.next /\ t.acked = s.acked
                     /\ s.id # id => t = s
                     /\ s.id = id => t.filled <= v
                  \/ t = IdleSlot /\ s.id = id /\ s.next = NoId /\ v = Lots
<1> DEFINE t == FillProgress(s, id, c)
           f == IF s.filled > c THEN s.filled ELSE c
<1>1. /\ s \in Slots /\ Lots \in Nat /\ f \in 0 .. Lots /\ (s.id = id => f <= v)
      /\ (s.state = "PendingReplace" <=> s.next # NoId) /\ s.next \in Ids \cup {NoId}
      /\ (s.next = s.id => s.next = NoId) /\ (s.state \in {"Open", "PendingReplace"} => s.acked)
  BY DEF MakerOrdersAssumption, SlotOK, Slots
<1>2. CASE s.id # id
  BY <1>2 DEF FillProgress
<1>3. CASE s.id = id /\ f < Lots
  <2>1. t = [s EXCEPT !.filled = f]
    <3> DEFINE r == [s EXCEPT !.filled = f]
               u == [s EXCEPT !.filled = Lots, !.after = TRUE]
    <3>1. t = CASE s.id # id -> s
                [] s.id = id /\ f < Lots -> r
                [] s.id = id /\ f >= Lots /\ s.state = "PendingReplace" /\ s.next # NoId -> u
                [] OTHER -> IdleSlot
      BY Zenon DEF FillProgress
    <3> HIDE DEF t, f, r, u
    <3>2. ~(s.id # id) /\ ~(s.id = id /\ f >= Lots /\ s.state = "PendingReplace" /\ s.next # NoId)
      BY <1>1, <1>3
    <3>3. t = r
      BY <1>3, <3>1, <3>2
    <3> QED
      BY <3>3 DEF r
  <2>a. s.state # "Idle"
    BY <1>3, SlotIdle, NoOrder DEF SlotOK
  <2> HIDE DEF f, t
  <2>2. t = [state |-> s.state, id |-> s.id, acked |-> s.acked, filled |-> f, next |-> s.next, after |-> s.after]
    BY <1>1, <2>1 DEF Slots
  <2>3. t.state = s.state /\ t.id = s.id /\ t.next = s.next /\ t.acked = s.acked /\ t.filled = f
    BY <2>2
  <2>4. t \in Slots
    BY <1>1, <2>2 DEF Slots
  <2>5. SlotOK(t)
    BY <1>1, <1>3, <2>a, <2>3, <2>4, NoOrder, SlotMade
  <2> QED
    BY <1>1, <1>3, <2>3, <2>5 DEF t
<1>4. CASE s.id = id /\ f >= Lots /\ s.state = "PendingReplace" /\ s.next # NoId
  <2>1. t = [s EXCEPT !.filled = Lots, !.after = TRUE]
    BY <1>1, <1>4 DEF FillProgress
  <2>a. v = Lots /\ Lots \in 0 .. Lots
    BY <1>1, <1>4
  <2> HIDE DEF f, t
  <2>2. t = [state |-> s.state, id |-> s.id, acked |-> s.acked, filled |-> Lots, next |-> s.next, after |-> TRUE]
    BY <1>1, <2>1 DEF Slots
  <2>3. t.state = s.state /\ t.id = s.id /\ t.next = s.next /\ t.acked = s.acked /\ t.filled = Lots
    BY <2>2
  <2>4. t \in Slots
    BY <1>1, <2>a, <2>2 DEF Slots
  <2>5. SlotOK(t)
    BY <1>1, <1>4, <2>3, <2>4, SlotMade
  <2> QED
    BY <1>1, <1>4, <2>a, <2>3, <2>5 DEF t
<1>5. CASE s.id = id /\ f >= Lots /\ ~(s.state = "PendingReplace" /\ s.next # NoId)
  <2>1. t = IdleSlot
    BY <1>1, <1>5 DEF FillProgress
  <2>2. s.next = NoId /\ v = Lots
    BY <1>1, <1>5
  <2> QED
    BY <1>5, <2>1, <2>2, SlotIdle
<1>6. f < Lots \/ f >= Lots
  BY <1>1
<1> QED
  BY <1>2, <1>3, <1>4, <1>5, <1>6

-----------------------------------------------------------------------------
(* What the strategy's steps do, all but the ones that send a new order:   *)
(* they take the first answer or none, weaken tickets, queue cancels, keep *)
(* the slot's orders, clear the slot or promote its replacement.           *)

\* The lane r is the lane q with commands added that send no order.
Harmless(q, r, a, m) ==
    /\ r \in Seq(Commands) /\ Extends(q, r)
    /\ \A k \in 1 .. Len(r) : k \in 1 .. Len(q) \/
         /\ CommandOK(r[k]) /\ ~Placing(r[k])
         /\ r[k].op = "cancel" => a[r[k].id] \in {"cancelled", "claimed"}
         /\ r[k].op = "barrier" => m # "run"

TakesAnswer ==
    /\ events # <<>> /\ events' = Tail(events)
    /\ Head(events).kind = "PlaceUnknown" => Head(events).id \in uncertain'

SlotKept ==
    /\ slot'.id = slot.id /\ slot'.next = slot.next
    /\ slot'.acked /\ ~slot.acked => TakesAnswer /\ Head(events).kind = "PlaceAck" /\ Head(events).id = slot.id
    /\ slot.id \in Ids => slot'.filled <= venue[slot.id].filled

SlotCleared ==
    /\ slot' = IdleSlot
    /\ \A x \in {slot.id, slot.next} \cap Ids : Out(x) => x \in uncertain' \cup forgotten'

NextPromoted ==
    /\ slot.next # NoId /\ ~Out(slot.id)
    /\ slot'.id = slot.next /\ slot'.next = NoId /\ ~slot'.acked /\ slot'.filled = 0

\* Tickets are only weakened.
Weakens ==
    /\ adm' \in [Ids -> Admissions]
    /\ \A x \in Ids : adm'[x] = adm[x] \/ (adm[x] \in {"queued", "revoked"} /\ adm'[x] \in {"revoked", "cancelled"})

Learns ==
    /\ UNCHANGED <<venue, hand, followup>>
    /\ barrier' = barrier \/ (barrier = "none" /\ barrier' = "queued")
    /\ mode' \in {"run", "drain"} /\ (mode # "run" => mode' # "run")
    /\ Weakens /\ \A x \in Ids : adm'[x] \in {"queued", "revoked"} => x = Ticket(slot')
    /\ Harmless(prio, prio', adm', mode') /\ \A k \in 1 .. Len(prio') : prio'[k].op = "cancel"
    /\ Harmless(fifo, fifo', adm', mode')
    /\ events' = events \/ TakesAnswer
    /\ uncertain' \subseteq Ids /\ \A x \in uncertain : x \in uncertain' \/ venue[x].st = "gone"
    /\ sweep' \in BOOLEAN /\ cov' \in [Ids -> 0 .. Lots] /\ \A x \in Ids : cov'[x] <= venue[x].filled
    /\ forgotten \subseteq forgotten' /\ (snap' = {} => snap = {})
    /\ SlotOK(slot') /\ (SlotKept \/ SlotCleared \/ NextPromoted)

\* What is left of the answers after a step of the strategy.
LEMMA AnswersLeft ==
    ASSUME TypeOK, Learns
    PROVE  /\ events' \in Seq(Events) /\ Len(events) \in Nat /\ Len(events') \in Nat
           /\ \/ events' = events
              \/ /\ Len(events) = Len(events') + 1 /\ events[1] = Head(events)
                 /\ \A k \in 1 .. Len(events') : events'[k] = events[k + 1]
                 /\ events[1].kind = "PlaceUnknown" => events[1].id \in uncertain'
<1>1. events \in Seq(Events)
  BY DEF TypeOK
<1>2. CASE events' = events
  BY <1>1, <1>2, LenProperties
<1>3. CASE TakesAnswer
  <2>1. events' \in Seq(Events) /\ Pops(events, events')
    BY <1>1, <1>3, Popped DEF TakesAnswer
  <2> QED
    BY <1>3, <2>1 DEF Pops, TakesAnswer
<1> QED
  BY <1>2, <1>3 DEF Learns

LEMMA AnswerWas ==
    ASSUME TypeOK, Learns, NEW k \in 1 .. Len(events')
    PROVE  \E j \in 1 .. Len(events) : events'[k] = events[j]
<1>1. Len(events) \in Nat /\ Len(events') \in Nat
  BY AnswersLeft
<1>2. CASE events' = events
  BY <1>2
<1>3. CASE Len(events) = Len(events') + 1 /\ \A j \in 1 .. Len(events') : events'[j] = events[j + 1]
  <2>1. k + 1 \in 1 .. Len(events) /\ events'[k] = events[k + 1]
    BY <1>1, <1>3
  <2> QED
    BY <2>1
<1> QED
  BY <1>2, <1>3, AnswersLeft

\* The worker's lane after it: what sends an order was there before.
LEMMA LanesLeft ==
    ASSUME TypeOK, Learns
    PROVE  /\ Len(prio) \in Nat /\ Len(prio') \in Nat /\ Len(fifo) \in Nat /\ Len(fifo') \in Nat
           /\ Len(prio) <= Len(prio') /\ Len(fifo) <= Len(fifo')
           /\ prio' \in Seq(Commands) /\ fifo' \in Seq(Commands)
           /\ \A k \in 1 .. Len(prio) : prio'[k] = prio[k]
           /\ \A k \in 1 .. Len(fifo) : fifo'[k] = fifo[k]
           /\ \A k \in 1 .. Len(fifo') : CommandOK(fifo'[k])
           /\ \A k \in 1 .. Len(prio') : CommandOK(prio'[k]) /\ prio'[k].op = "cancel"
           /\ \A k \in 1 .. Len(fifo') : Placing(fifo'[k]) => k \in 1 .. Len(fifo)
<1>1. Harmless(prio, prio', adm', mode') /\ Harmless(fifo, fifo', adm', mode')
      /\ \A k \in 1 .. Len(prio') : prio'[k].op = "cancel"
  BY DEF Learns
<1>2. /\ \A k \in 1 .. Len(prio) : CommandOK(prio[k])
      /\ \A k \in 1 .. Len(fifo) : CommandOK(fifo[k])
  BY DEF TypeOK
<1> QED
  BY <1>1, <1>2 DEF Harmless, Extends

LEMMA LearnsTyped == ASSUME TypeOK, Learns PROVE TypeOK'
<1>1. /\ SlotOK(slot') /\ adm' \in [Ids -> Admissions] /\ cov' \in [Ids -> 0 .. Lots] /\ venue' = venue
      /\ sweep' \in BOOLEAN /\ uncertain' \subseteq Ids /\ mode' \in {"run", "drain", "done"}
      /\ barrier' \in {barrier, "queued"} /\ followup' = followup /\ hand' = hand
      /\ \A x \in Ids : cov'[x] <= venue[x].filled
  BY DEF Learns, Weakens
<1>2. \A k \in 1 .. Len(events') : events'[k].kind # "RateLimited" => events'[k].id \in Ids
  <2> SUFFICES ASSUME NEW k \in 1 .. Len(events')
               PROVE  events'[k].kind # "RateLimited" => events'[k].id \in Ids
    OBVIOUS
  <2>1. \E j \in 1 .. Len(events) : events'[k] = events[j]
    BY AnswerWas
  <2> QED
    BY <2>1 DEF TypeOK
<1>3. events' \in Seq(Events)
  BY AnswersLeft
<1> QED
  BY <1>1, <1>2, <1>3, LanesLeft DEF TypeOK

LEMMA SendingLeft ==
    ASSUME TypeOK, Learns
    PROVE  \A x : (Queued(x)' <=> Queued(x)) /\ (Sending(x)' <=> Sending(x)) /\ (Out(x)' <=> Out(x))
<1>1. \A x : Queued(x)' <=> Queued(x)
  BY LanesLeft DEF Queued
<1> QED
  BY <1>1 DEF Sending, Out, Learns

LEMMA LearnsTickets == ASSUME MakerOrdersAssumption, TypeOK, Tickets, Learns PROVE Tickets'
<1>1. \A x \in Ids : adm'[x] \in {"queued", "revoked"} => x = Ticket(slot')
  BY DEF Learns
<1>2. \A x \in {slot'.id, slot'.next} \ {NoId} : adm'[x] # "none"
  <2>1. {slot'.id, slot'.next} \ {NoId} \subseteq {slot.id, slot.next} \ {NoId}
    BY SlotIdle DEF Learns, SlotKept, SlotCleared, NextPromoted
  <2>2. {slot.id, slot.next} \ {NoId} \subseteq Ids
    BY DEF TypeOK, SlotOK, Slots
  <2> QED
    BY <2>1, <2>2 DEF Tickets, Learns, Weakens
<1>3. \A x \in Ids : Sending(x)' => adm'[x] \in {"queued", "revoked", "cancelled"} \/ (hand'.op = "place" /\ hand'.id = x)
  BY SendingLeft DEF Tickets, Learns, Weakens
<1>4. \A j, k \in 1 .. Len(fifo') : Placing(fifo'[j]) /\ Placing(fifo'[k]) /\ fifo'[j].id = fifo'[k].id => j = k
  BY LanesLeft DEF Tickets
<1>5. /\ \A x \in Ids : followup'.id = x => ~Queued(x)'
      /\ \A x \in Ids : hand'.id = x => ~Queued(x)' /\ followup'.id # x
  BY SendingLeft DEF Tickets, Learns
<1>6. \A x \in Ids : adm[x] \in {"cancelled", "claimed"} => adm'[x] \in {"cancelled", "claimed"}
  BY DEF Learns, Weakens
<1>7. \A k \in 1 .. Len(prio') : adm'[prio'[k].id] \in {"cancelled", "claimed"}
  <2> SUFFICES ASSUME NEW k \in 1 .. Len(prio') PROVE adm'[prio'[k].id] \in {"cancelled", "claimed"}
    OBVIOUS
  <2>1. CASE k \in 1 .. Len(prio)
    <3>1. prio'[k] = prio[k] /\ prio[k].id \in Ids /\ adm[prio[k].id] \in {"cancelled", "claimed"}
      BY <2>1, LanesLeft DEF Tickets, TypeOK, CommandOK
    <3> QED
      BY <1>6, <3>1
  <2>2. CASE k \notin 1 .. Len(prio)
    BY <2>2 DEF Learns, Harmless
  <2> QED
    BY <2>1, <2>2
<1>8. \A k \in 1 .. Len(fifo') : fifo'[k].op = "cancel" => adm'[fifo'[k].id] \in {"cancelled", "claimed"}
  <2> SUFFICES ASSUME NEW k \in 1 .. Len(fifo'), fifo'[k].op = "cancel"
               PROVE  adm'[fifo'[k].id] \in {"cancelled", "claimed"}
    OBVIOUS
  <2>1. CASE k \in 1 .. Len(fifo)
    <3>1. fifo'[k] = fifo[k] /\ fifo[k].id \in Ids /\ adm[fifo[k].id] \in {"cancelled", "claimed"}
      BY <2>1, LanesLeft DEF Tickets, TypeOK, CommandOK
    <3> QED
      BY <1>6, <3>1
  <2>2. CASE k \notin 1 .. Len(fifo)
    BY <2>2 DEF Learns, Harmless
  <2> QED
    BY <2>1, <2>2
<1> QED
  BY <1>1, <1>2, <1>3, <1>4, <1>5, <1>7, <1>8 DEF Tickets

LEMMA LearnsClaims == ASSUME TypeOK, Claims, Learns PROVE Claims'
<1>1. \A x \in Ids : adm'[x] = "claimed" <=> adm[x] = "claimed"
  BY DEF Learns, Weakens
<1>2. venue' = venue /\ hand' = hand
  BY DEF Learns
<1>3. hand.op = "place" => hand.id \in Ids
  BY DEF TypeOK, NoCommand
<1> QED
  BY <1>1, <1>2, <1>3 DEF Claims

LEMMA LearnsTrue == ASSUME MakerOrdersAssumption, TypeOK, SlotIsTrue, Evidence, Learns PROVE SlotIsTrue'
<1>1. venue' = venue /\ hand' = hand /\ followup' = followup
      /\ \A x \in Ids : adm'[x] = "claimed" => adm[x] = "claimed"
  BY DEF Learns, Weakens
<1>2. \A k \in 1 .. Len(fifo') : Placing(fifo'[k]) => k \in 1 .. Len(fifo) /\ fifo'[k] = fifo[k] /\ fifo[k].id \in Ids
  BY LanesLeft DEF TypeOK, CommandOK, Placing
<1>3. \A k \in 1 .. Len(fifo') : fifo'[k].op = "replace" => venue'[fifo'[k].old].st \in {"rest", "gone"}
  BY <1>1, <1>2 DEF SlotIsTrue, Placing
<1>4. CASE SlotKept
  <2>1. slot'.acked => venue[slot.id].st \in {"rest", "gone"}
    <3>1. CASE slot.acked
      BY <3>1 DEF SlotIsTrue
    <3>2. CASE slot'.acked /\ ~slot.acked
      <4>1. events # <<>> /\ Head(events).kind = "PlaceAck" /\ Head(events).id = slot.id
        BY <1>4, <3>2 DEF SlotKept, TakesAnswer
      <4>2. Len(events) \in Nat \ {0} /\ events[1] = Head(events)
        BY <4>1, Popped DEF TypeOK, Pops
      <4> QED
        BY <4>1, <4>2 DEF Evidence
    <3> QED
      BY <3>1, <3>2
  <2>2. \A k \in 1 .. Len(fifo') : Placing(fifo'[k]) /\ fifo'[k].id = slot'.next =>
             fifo'[k].op = "replace" /\ fifo'[k].old = slot'.id
    BY <1>2, <1>4 DEF SlotIsTrue, SlotKept
  <2>3. slot'.next \in Ids \cup {NoId}
    BY DEF Learns, SlotOK, Slots
  <2>4. slot'.next # NoId /\ (followup'.id = slot'.next \/ hand'.id = slot'.next \/ adm'[slot'.next] = "claimed") =>
             venue'[slot'.id].st = "gone" /\ venue'[slot'.id].filled < Lots
    BY <1>1, <1>4, <2>3 DEF SlotIsTrue, SlotKept
  <2> QED
    BY <1>1, <1>3, <1>4, <2>1, <2>2, <2>4 DEF SlotIsTrue, SlotKept
<1>5. CASE SlotCleared \/ NextPromoted
  <2>1. slot'.next = NoId /\ ~slot'.acked /\ slot'.filled = 0
    BY <1>5, SlotIdle DEF SlotCleared, NextPromoted
  <2>2. slot'.id \in Ids => 0 <= venue'[slot'.id].filled
    BY <1>1 DEF TypeOK, Orders
  <2> QED
    BY <1>2, <1>3, <2>1, <2>2, NoOrder DEF SlotIsTrue
<1> QED
  BY <1>4, <1>5 DEF Learns

LEMMA ToldLeft ==
    ASSUME TypeOK, Learns, NEW kinds, NEW x
    PROVE  /\ Told(kinds, x)' => Told(kinds, x)
           /\ Told(kinds, x) => Told(kinds, x)' \/ (Len(events) > 0 /\ events[1].kind \in kinds /\ events[1].id = x
                                                     /\ (events[1].kind = "PlaceUnknown" => x \in uncertain'))
<1>1. Told(kinds, x)' => Told(kinds, x)
  <2> SUFFICES ASSUME NEW k \in 1 .. Len(events'), events'[k].kind \in kinds, events'[k].id = x
               PROVE  Told(kinds, x)
    BY DEF Told
  <2>1. \E j \in 1 .. Len(events) : events'[k] = events[j]
    BY AnswerWas
  <2> QED
    BY <2>1 DEF Told
<1>2. ASSUME NEW k \in 1 .. Len(events), events[k].kind \in kinds, events[k].id = x
      PROVE  Told(kinds, x)' \/ (Len(events) > 0 /\ events[1].kind \in kinds /\ events[1].id = x
                                                     /\ (events[1].kind = "PlaceUnknown" => x \in uncertain'))
  <2>1. CASE events' = events
    BY <1>2, <2>1 DEF Told
  <2>2. CASE /\ Len(events) = Len(events') + 1 /\ Len(events') \in Nat
             /\ \A j \in 1 .. Len(events') : events'[j] = events[j + 1]
             /\ events[1].kind = "PlaceUnknown" => events[1].id \in uncertain'
    <3>1. CASE k = 1
      BY <1>2, <2>2, <3>1
    <3>2. CASE k # 1
      <4>1. k - 1 \in 1 .. Len(events') /\ events'[k - 1] = events[(k - 1) + 1] /\ (k - 1) + 1 = k
        BY <2>2, <3>2
      <4> QED
        BY <1>2, <4>1 DEF Told
    <3> QED
      BY <3>1, <3>2
  <2> QED
    BY <2>1, <2>2, AnswersLeft
<1> QED
  BY <1>1, <1>2 DEF Told

\* What the strategy learns takes nothing back from an order that is over.
LEMMA OverStays == ASSUME TypeOK, Learns PROVE \A x \in Ids : Over(x) => Over(x)'
BY DEF Over, Learns, Weakens

\* The order of a slot that has just been acknowledged has been told of by the answer taken.
LEMMA AckedByAnswer ==
    ASSUME MakerOrdersAssumption, TypeOK, Learns, NEW x, slot'.id = x, slot'.acked, x \in Ids
    PROVE  /\ slot.id = x
           /\ ~slot.acked => /\ Len(events) > 0 /\ events[1].kind = "PlaceAck" /\ events[1].id = x
                             /\ Len(events) = Len(events') + 1
                             /\ \A k \in 1 .. Len(events') : events'[k] = events[k + 1]
<1>1. SlotKept
  BY SlotIdle, NoOrder DEF Learns, SlotCleared, NextPromoted
<1>2. CASE ~slot.acked
  <2>1. events # <<>> /\ events' = Tail(events) /\ Head(events).kind = "PlaceAck" /\ Head(events).id = x
    BY <1>1, <1>2 DEF SlotKept, TakesAnswer
  <2>2. Pops(events, events')
    BY <2>1, Popped DEF TypeOK
  <2> QED
    BY <1>1, <2>1, <2>2 DEF Pops, SlotKept
<1> QED
  BY <1>1, <1>2 DEF SlotKept

LEMMA LearnsEvidence ==
    ASSUME MakerOrdersAssumption, TypeOK, Tickets, Claims, Evidence, Learns
    PROVE  Evidence'
<1>1. ASSUME NEW k \in 1 .. Len(events')
      PROVE  LET e == events'[k] IN
             /\ e.kind = "PlaceReject" => adm'[e.id] = "cancelled" \/ venue'[e.id].st = "refused"
             /\ e.kind = "PlaceAck" => venue'[e.id].st \in {"rest", "gone"}
             /\ e.kind = "Terminal" => venue'[e.id].st = "gone"
             /\ e.kind \in {"Terminal", "Resting"} => e.cum <= venue'[e.id].filled
  <2>1. PICK j \in 1 .. Len(events) : events'[k] = events[j]
    BY <1>1, AnswerWas
  <2>2. events[j].kind # "RateLimited" => events[j].id \in Ids
    BY DEF TypeOK
  <2>3. \A x \in Ids : adm[x] = "cancelled" => adm'[x] = "cancelled"
    BY DEF Learns, Weakens
  <2> QED
    BY <2>1, <2>2, <2>3 DEF Evidence, Learns
<1>2. ASSUME NEW k \in 1 .. Len(events'), events'[k].kind = "PlaceAck"
      PROVE  /\ slot'.id = events'[k].id => ~slot'.acked
             /\ \A j \in 1 .. Len(events') : events'[j].kind = "PlaceAck" /\ events'[j].id = events'[k].id => j = k
  <2>1. CASE events' = events
    <3>1. slot'.id = events'[k].id /\ slot'.acked => slot.id = events[k].id /\ slot.acked
      <4>1. events[k].id \in Ids
        BY <1>2, <2>1 DEF TypeOK
      <4> QED
        BY <2>1, <4>1, AckedByAnswer, AnswersLeft
    <3> QED
      BY <1>2, <2>1, <3>1 DEF Evidence
  <2>2. CASE /\ Len(events) = Len(events') + 1 /\ Len(events') \in Nat
             /\ \A j \in 1 .. Len(events') : events'[j] = events[j + 1]
    <3>1. /\ 1 \in 1 .. Len(events) /\ k + 1 \in 1 .. Len(events) /\ events'[k] = events[k + 1] /\ k + 1 # 1
      BY <1>2, <2>2
    <3>2. events[k + 1].id \in Ids
      BY <1>2, <3>1 DEF TypeOK
    <3>3. /\ slot.id = events[k + 1].id => ~slot.acked
          /\ \A j \in 1 .. Len(events) : events[j].kind = "PlaceAck" /\ events[j].id = events[k + 1].id => j = k + 1
      BY <1>2, <3>1 DEF Evidence
    <3>4. slot'.id = events'[k].id => ~slot'.acked
      <4> SUFFICES ASSUME slot'.id = events'[k].id, slot'.acked PROVE FALSE
        OBVIOUS
      <4>1. slot.id = events[k + 1].id
        BY <3>1, <3>2, AckedByAnswer
      <4>2. events[1].kind = "PlaceAck" /\ events[1].id = events[k + 1].id
        BY <3>1, <3>2, <3>3, <4>1, AckedByAnswer
      <4> QED
        BY <3>1, <3>3, <4>2
    <3>5. ASSUME NEW j \in 1 .. Len(events'), events'[j].kind = "PlaceAck", events'[j].id = events'[k].id
          PROVE  j = k
      <4>1. j + 1 \in 1 .. Len(events) /\ events'[j] = events[j + 1]
        BY <2>2
      <4>2. j + 1 = k + 1
        BY <3>1, <3>3, <3>5, <4>1
      <4> QED
        BY <4>2
    <3> QED
      BY <3>4, <3>5
  <2> QED
    BY <2>1, <2>2, AnswersLeft
<1>3. ASSUME NEW k \in 1 .. Len(events'), NEW x, x = events'[k].id, events'[k].kind = "CancelAck", ~Over(x)'
      PROVE  /\ venue'[x].st # "none" /\ (slot'.id = x => ~slot'.acked)
             /\ ~Told({"PlaceAck"}, x)'
             /\ \/ x \in uncertain'
                \/ \E j \in 1 .. k - 1 : events'[j].kind = "PlaceUnknown" /\ events'[j].id = x
  <2>1. ASSUME NEW i \in 1 .. Len(events), events[i] = events'[k]
        PROVE  /\ x \in Ids /\ venue'[x].st # "none" /\ (slot.id = x => ~slot.acked) /\ ~Told({"PlaceAck"}, x)
               /\ x \in uncertain \/ \E j \in 1 .. i - 1 : events[j].kind = "PlaceUnknown" /\ events[j].id = x
               /\ x \in uncertain => x \in uncertain'
    <3>1. x \in Ids
      BY <1>3, <2>1 DEF TypeOK
    <3>2. ~Over(x)
      BY <1>3, <3>1, OverStays
    <3>3. (x \in uncertain => x \in uncertain') /\ venue' = venue
      BY <3>2 DEF Learns, Over
    <3> QED
      BY <1>3, <2>1, <3>1, <3>2, <3>3 DEF Evidence
  <2>2. \E i \in 1 .. Len(events) : events[i] = events'[k]
    BY <1>3, AnswerWas
  <2>3. /\ x \in Ids /\ venue'[x].st # "none" /\ (slot.id = x => ~slot.acked) /\ ~Told({"PlaceAck"}, x)
    BY <2>1, <2>2
  <2>4. ~Told({"PlaceAck"}, x)'
    BY <2>3, ToldLeft
  <2>5. slot'.id = x => ~slot'.acked
    <3> SUFFICES ASSUME slot'.id = x, slot'.acked PROVE FALSE
      OBVIOUS
    <3>1. slot.id = x /\ Len(events) > 0 /\ events[1].kind = "PlaceAck" /\ events[1].id = x
      BY <2>3, AckedByAnswer
    <3>2. Len(events) \in Nat
      BY AnswersLeft
    <3> QED
      BY <2>3, <3>1, <3>2 DEF Told
  <2>6. x \in uncertain' \/ \E j \in 1 .. k - 1 : events'[j].kind = "PlaceUnknown" /\ events'[j].id = x
    <3>1. CASE events' = events
      BY <1>3, <2>1, <3>1
    <3>2. CASE /\ Len(events) = Len(events') + 1 /\ Len(events') \in Nat
               /\ \A j \in 1 .. Len(events') : events'[j] = events[j + 1]
               /\ events[1].kind = "PlaceUnknown" => events[1].id \in uncertain'
      <4>1. k + 1 \in 1 .. Len(events) /\ events[k + 1] = events'[k]
        BY <1>3, <3>2
      <4>2. CASE x \in uncertain
        BY <2>1, <4>1, <4>2
      <4>3. ASSUME NEW j \in 1 .. (k + 1) - 1, events[j].kind = "PlaceUnknown", events[j].id = x
            PROVE  x \in uncertain' \/ \E h \in 1 .. k - 1 : events'[h].kind = "PlaceUnknown" /\ events'[h].id = x
        <5>1. CASE j = 1
          BY <3>2, <4>3, <5>1
        <5>2. CASE j # 1
          <6>1. j - 1 \in 1 .. k - 1 /\ j - 1 \in 1 .. Len(events') /\ (j - 1) + 1 = j
            BY <1>3, <3>2, <4>3, <5>2
          <6> QED
            BY <3>2, <4>3, <6>1
        <5> QED
          BY <5>1, <5>2
      <4> QED
        BY <2>1, <4>1, <4>2, <4>3
    <3> QED
      BY <3>1, <3>2, AnswersLeft
  <2> QED
    BY <2>3, <2>4, <2>5, <2>6
<1>4. ASSUME NEW x \in Ids, venue'[x].st = "late" PROVE x \in uncertain' \/ Told({"PlaceUnknown"}, x)'
  <2>1. venue[x].st = "late"
    BY <1>4 DEF Learns
  <2>2. CASE x \in uncertain
    BY <2>1, <2>2 DEF Learns
  <2>3. CASE Told({"PlaceUnknown"}, x)
    BY <2>3, ToldLeft
  <2> QED
    BY <2>1, <2>2, <2>3 DEF Evidence
<1>5. \A k \in 1 .. Len(events') : events'[k].kind = "CancelAck" =>
         LET x == events'[k].id IN
           \/ adm'[x] = "cancelled" \/ venue'[x].st \in {"gone", "refused"}
           \/ /\ venue'[x].st # "none" /\ (slot'.id = x => ~slot'.acked)
              /\ ~\E j \in 1 .. Len(events') : events'[j].kind \in {"PlaceAck"} /\ events'[j].id = x
              /\ \/ x \in uncertain'
                 \/ \E j \in 1 .. k - 1 : events'[j].kind = "PlaceUnknown" /\ events'[j].id = x
  <2> SUFFICES ASSUME NEW k \in 1 .. Len(events'), NEW x, x = events'[k].id, events'[k].kind = "CancelAck", ~Over(x)'
               PROVE  /\ venue'[x].st # "none" /\ (slot'.id = x => ~slot'.acked)
                      /\ ~Told({"PlaceAck"}, x)'
                      /\ \/ x \in uncertain'
                         \/ \E j \in 1 .. k - 1 : events'[j].kind = "PlaceUnknown" /\ events'[j].id = x
    BY DEF Over, Told
  <2> QED
    BY <1>3
<1>6. \A x \in Ids : venue'[x].st = "late" =>
         x \in uncertain' \/ \E k \in 1 .. Len(events') : events'[k].kind \in {"PlaceUnknown"} /\ events'[k].id = x
  BY <1>4 DEF Told
<1> QED
  BY <1>1, <1>2, <1>5, <1>6 DEF Evidence, Over, Told

LEMMA LearnsKnown ==
    ASSUME MakerOrdersAssumption, TypeOK, Claims, Known, Learns
    PROVE  Known'
<1>1. \A x : Out(x)' <=> Out(x)
  BY SendingLeft
<1>2. ASSUME NEW x \in uncertain, Out(x) PROVE x \in uncertain'
  <2>1. venue[x].st # "gone"
    BY <1>2 DEF Claims, Out
  <2> QED
    BY <1>2, <2>1 DEF Learns
<1>3. forgotten \subseteq forgotten' /\ SlotOK(slot') /\ SlotOK(slot)
  BY DEF Learns, TypeOK
<1>4. \A x \in Ids : Out(x)' => Tracked(x)' \/ x \in forgotten'
  <2> SUFFICES ASSUME NEW x \in Ids, Out(x) PROVE x \in {slot'.id, slot'.next} \cup uncertain' \cup forgotten'
    BY <1>1 DEF Tracked
  <2>1. CASE x \in forgotten \cup uncertain
    BY <1>2, <1>3, <2>1
  <2>2. CASE x \in {slot.id, slot.next}
    BY <2>2 DEF Learns, SlotKept, SlotCleared, NextPromoted
  <2> QED
    BY <2>1, <2>2 DEF Known, Tracked
<1>5. \A x, y \in Ids : x # y /\ Out(x)' /\ Out(y)' => x \in forgotten' \/ y \in forgotten'
  BY <1>1, <1>3 DEF Known
<1>6. ASSUME NEW x \in uncertain', Out(x), x \notin {slot'.id, slot'.next} \cup forgotten' PROVE slot' = IdleSlot
  <2>1. x \in Ids /\ x \notin forgotten
    BY <1>3, <1>6 DEF Learns
  <2>2. CASE SlotKept
    <3>1. x \notin {slot.id, slot.next}
      BY <1>6, <2>2 DEF SlotKept
    <3>2. x \in uncertain
      BY <1>6, <2>1, <3>1 DEF Known, Tracked
    <3>3. slot = IdleSlot
      BY <1>6, <2>1, <3>1, <3>2 DEF Known
    <3>4. slot'.id = NoId
      BY <2>2, <3>3, SlotIdle DEF SlotKept
    <3> QED
      BY <1>3, <3>4, NoOrder DEF SlotOK
  <2>3. CASE NextPromoted
    <3>1. x \notin {slot.id, slot.next}
      BY <1>6, <2>3 DEF NextPromoted
    <3>2. x \in uncertain
      BY <1>6, <2>1, <3>1 DEF Known, Tracked
    <3>3. slot = IdleSlot
      BY <1>6, <2>1, <3>1, <3>2 DEF Known
    <3> QED
      BY <2>3, <3>3, SlotIdle DEF NextPromoted
  <2> QED
    BY <2>2, <2>3 DEF Learns, SlotCleared
<1> QED
  BY <1>1, <1>4, <1>5, <1>6 DEF Known

LEMMA LearnsDrained == ASSUME TypeOK, Drained, Learns PROVE Drained'
<1>1. ASSUME NEW k \in 1 .. Len(fifo'), fifo'[k].op = "barrier"
      PROVE  mode' # "run" /\ \A j \in 1 .. Len(fifo') : j > k => ~Placing(fifo'[j])
  <2>1. CASE k \in 1 .. Len(fifo)
    <3>1. fifo[k].op = "barrier"
      BY <1>1, <2>1, LanesLeft
    <3>2. mode # "run" /\ \A j \in 1 .. Len(fifo) : j > k => ~Placing(fifo[j])
      BY <2>1, <3>1 DEF Drained
    <3> QED
      BY <3>2, LanesLeft DEF Learns
  <2>2. CASE k \notin 1 .. Len(fifo)
    <3>1. mode' # "run"
      BY <1>1, <2>2 DEF Learns, Harmless
    <3>2. ASSUME NEW j \in 1 .. Len(fifo'), j > k PROVE ~Placing(fifo'[j])
      <4>1. j \notin 1 .. Len(fifo)
        BY <2>2, <3>2, LanesLeft
      <4> QED
        BY <4>1, LanesLeft
    <3> QED
      BY <3>1, <3>2
  <2> QED
    BY <2>1, <2>2
<1>2. ASSUME barrier' = "completed"
      PROVE  /\ mode' # "run" /\ followup' = NoCommand /\ hand' = NoCommand
             /\ \A k \in 1 .. Len(fifo') : ~Placing(fifo'[k])
             /\ snap' = {} => \A x \in Ids : venue'[x].st = "rest" => x \in uncertain' \/ Told({"PlaceUnknown"}, x)'
  <2>1. barrier = "completed" /\ followup' = followup /\ hand' = hand /\ venue' = venue
        /\ (mode # "run" => mode' # "run") /\ (snap' = {} => snap = {})
    BY <1>2 DEF Learns
  <2>2. \A k \in 1 .. Len(fifo') : ~Placing(fifo'[k])
    BY <2>1, LanesLeft DEF Drained
  <2>3. ASSUME snap' = {}, NEW x \in Ids, venue'[x].st = "rest" PROVE x \in uncertain' \/ Told({"PlaceUnknown"}, x)'
    <3>1. x \in uncertain \/ Told({"PlaceUnknown"}, x)
      BY <2>1, <2>3 DEF Drained
    <3>2. x \in uncertain => x \in uncertain'
      BY <2>1, <2>3 DEF Learns
    <3>3. Told({"PlaceUnknown"}, x) => x \in uncertain' \/ Told({"PlaceUnknown"}, x)'
      BY ToldLeft
    <3> QED
      BY <3>1, <3>2, <3>3
  <2> QED
    BY <2>1, <2>2, <2>3 DEF Drained
<1>3. mode' # "done"
  BY DEF Learns
<1> QED
  BY <1>1, <1>2, <1>3 DEF Drained, Told

\* Everything the properties rest on.
Sound == TypeOK /\ Tickets /\ Claims /\ SlotIsTrue /\ Evidence /\ Known /\ Drained

LEMMA LearnsSound == ASSUME MakerOrdersAssumption, Sound, Learns PROVE Sound'
<1> USE DEF Sound
<1>1. TypeOK'
  BY LearnsTyped
<1>2. Tickets'
  BY LearnsTickets
<1>3. Claims'
  BY LearnsClaims
<1>4. SlotIsTrue'
  BY LearnsTrue
<1>5. Evidence'
  BY LearnsEvidence
<1>6. Known'
  BY LearnsKnown
<1>7. Drained'
  BY LearnsDrained
<1> QED
  BY <1>1, <1>2, <1>3, <1>4, <1>5, <1>6, <1>7

-----------------------------------------------------------------------------
(* Each step of the strategy is one of these.                              *)

LEMMA HarmlessSame == ASSUME NEW q \in Seq(Commands), NEW a, NEW m PROVE Harmless(q, q, a, m)
BY Same DEF Harmless

LEMMA HarmlessAppend ==
    ASSUME NEW q \in Seq(Commands), NEW c, CommandOK(c), ~Placing(c), NEW a, NEW m,
           c.op = "cancel" => a[c.id] \in {"cancelled", "claimed"}, c.op = "barrier" => m # "run"
    PROVE  Harmless(q, Append(q, c), a, m)
<1>1. c \in Commands
  BY DEF CommandOK
<1> QED
  BY <1>1, Appended DEF Harmless

LEMMA CommandIs ==
    ASSUME NEW op \in {"place", "replace", "cancel", "cancelAll", "barrier"}, NEW id \in Ids \cup {NoId},
           NEW old \in Ids \cup {NoId}, op \in {"place", "replace", "cancel"} => id \in Ids,
           op = "replace" => old \in Ids
    PROVE  LET c == Command(op, id, old) IN CommandOK(c) /\ c.op = op /\ c.id = id /\ c.old = old
<1> DEFINE c == Command(op, id, old)
<1>1. c.op = op /\ c.id = id /\ c.old = old
  BY DEF Command
<1>2. c \in Commands
  BY DEF Command, Commands
<1> QED
  BY <1>1, <1>2 DEF CommandOK

LEMMA CancelledIs ==
    ASSUME NEW a \in [Ids -> Admissions], NEW id
    PROVE  /\ Cancelled(a, id) \in [Ids -> Admissions]
           /\ \A x \in Ids : Cancelled(a, id)[x] =
                IF x = id /\ a[x] \in {"queued", "revoked"} THEN "cancelled" ELSE a[x]
BY DEF Cancelled, Admissions

LEMMA RevokedIs ==
    ASSUME NEW a \in [Ids -> Admissions]
    PROVE  /\ Revoked(a) \in [Ids -> Admissions]
           /\ \A x \in Ids : Revoked(a)[x] = IF a[x] = "queued" THEN "revoked" ELSE a[x]
BY DEF Revoked, Admissions

LEMMA SnapshotOf == NoSnapshot # {}
BY DEF NoSnapshot

LEMMA SweepEffect ==
    ASSUME TypeOK, NEW n, Sweep(n), NEW a, NEW m
    PROVE  sweep' = TRUE /\ (snap' = {} => snap = {}) /\ Harmless(fifo, fifo', a, m)
<1>1. sweep' = TRUE /\ (snap' = {} => snap = {})
  BY SnapshotOf DEF Sweep
<1>2. fifo \in Seq(Commands)
  BY DEF TypeOK
<1>3. CASE UNCHANGED fifo
  BY <1>1, <1>2, <1>3, HarmlessSame
<1>4. CASE fifo' = Append(fifo, Command("cancelAll", NoId, NoId))
  <2> DEFINE c == Command("cancelAll", NoId, NoId)
  <2>1. CommandOK(c) /\ c.op = "cancelAll"
    BY CommandIs
  <2> HIDE DEF c
  <2>2. Harmless(fifo, Append(fifo, c), a, m)
    BY <1>2, <2>1, HarmlessAppend DEF Placing
  <2> QED
    BY <1>1, <1>4, <2>2 DEF c
<1> QED
  BY <1>1, <1>3, <1>4 DEF Sweep

\* Weakening by cancelling and revoking, in any number of steps.
LEMMA Weaker ==
    ASSUME TypeOK, NEW id, NEW jd
    PROVE  /\ adm' = adm => Weakens
           /\ adm' = Revoked(adm) => Weakens
           /\ adm' = Cancelled(adm, id) => Weakens
           /\ adm' = Revoked(Cancelled(adm, id)) => Weakens
           /\ adm' = Revoked(Cancelled(Cancelled(adm, id), jd)) => Weakens
<1>1. adm \in [Ids -> Admissions]
  BY DEF TypeOK
<1>2. adm' = adm => Weakens
  BY <1>1 DEF Weakens
<1>3. adm' = Revoked(adm) => Weakens
  BY <1>1, RevokedIs DEF Weakens
<1>4. adm' = Cancelled(adm, id) => Weakens
  BY <1>1, CancelledIs DEF Weakens
<1>5. adm' = Revoked(Cancelled(adm, id)) => Weakens
  BY <1>1, CancelledIs, RevokedIs DEF Weakens
<1>6. adm' = Revoked(Cancelled(Cancelled(adm, id), jd)) => Weakens
  <2> DEFINE b == Cancelled(adm, id)
             c == Cancelled(b, jd)
  <2>1. b \in [Ids -> Admissions] /\ \A x \in Ids : b[x] = adm[x] \/ (adm[x] \in {"queued", "revoked"} /\ b[x] = "cancelled")
    BY <1>1, CancelledIs
  <2> HIDE DEF b
  <2>2. c \in [Ids -> Admissions] /\ \A x \in Ids : c[x] = b[x] \/ (b[x] \in {"queued", "revoked"} /\ c[x] = "cancelled")
    BY <2>1, CancelledIs
  <2> HIDE DEF c
  <2>3. adm' = Revoked(c) => Weakens
    BY <2>1, <2>2, RevokedIs DEF Weakens
  <2> QED
    BY <2>3 DEF b, c
<1> QED
  BY <1>2, <1>3, <1>4, <1>5, <1>6

\* cancel_target leaves no ticket to be claimed.
LEMMA PulledTickets ==
    ASSUME MakerOrdersAssumption, TypeOK, Tickets, NEW s, SlotOK(s),
           (s.id = slot.id /\ s.next = slot.next) \/ s = IdleSlot,
           adm' = Revoked(Releases(Cancelled(adm, Ticket(s)), slot, s))
    PROVE  Weakens /\ \A x \in Ids : adm'[x] \notin {"queued", "revoked"}
<1>1. adm \in [Ids -> Admissions] /\ SlotOK(slot)
  BY DEF TypeOK
<1>2. CASE s = IdleSlot
  <2> DEFINE b == Cancelled(adm, Ticket(s))
             c == Cancelled(b, Ticket(slot))
  <2>1. adm' = Revoked(c)
    BY <1>2 DEF Releases
  <2>2. b \in [Ids -> Admissions] /\ \A x \in Ids : b[x] = adm[x] \/ b[x] = "cancelled"
    BY <1>1, CancelledIs
  <2>3. \A x \in Ids : x # Ticket(slot) => adm[x] \notin {"queued", "revoked"}
    BY DEF Tickets
  <2> HIDE DEF b
  <2>4. c \in [Ids -> Admissions] /\ \A x \in Ids : c[x] \notin {"queued", "revoked"}
    BY <2>2, <2>3, CancelledIs
  <2> HIDE DEF c
  <2>5. \A x \in Ids : adm'[x] \notin {"queued", "revoked"}
    BY <2>1, <2>4, RevokedIs
  <2>6. Weakens
    BY <2>1, Weaker DEF b, c
  <2> QED
    BY <2>5, <2>6
<1>3. CASE s # IdleSlot
  <2> DEFINE b == Cancelled(adm, Ticket(s))
  <2>1. adm' = Revoked(b)
    BY <1>3 DEF Releases
  <2>2. Ticket(s) = Ticket(slot)
    BY <1>3 DEF Ticket
  <2>3. b \in [Ids -> Admissions] /\ \A x \in Ids : b[x] \notin {"queued", "revoked"}
    BY <1>1, <2>2, CancelledIs DEF Tickets
  <2> HIDE DEF b
  <2>4. \A x \in Ids : adm'[x] \notin {"queued", "revoked"}
    BY <2>1, <2>3, RevokedIs
  <2>5. Weakens
    BY <2>1, Weaker DEF b
  <2> QED
    BY <2>4, <2>5
<1> QED
  BY <1>2, <1>3

LEMMA PullQuoteEffect ==
    ASSUME MakerOrdersAssumption, TypeOK, Tickets, NEW s, SlotOK(s),
           (s.id = slot.id /\ s.next = slot.next) \/ s = IdleSlot, PullQuote(s), NEW m
    PROVE  /\ Weakens /\ \A x \in Ids : adm'[x] \notin {"queued", "revoked"}
           /\ SlotOK(slot') /\ slot'.id = s.id /\ slot'.next = s.next /\ slot'.acked = s.acked /\ slot'.filled = s.filled
           /\ Harmless(prio, prio', adm', m) /\ \A k \in 1 .. Len(prio') : prio'[k].op = "cancel"
           /\ Harmless(fifo, fifo', adm', m)
           /\ sweep' \in BOOLEAN /\ (snap' = {} => snap = {})
<1>1. prio \in Seq(Commands) /\ fifo \in Seq(Commands) /\ SlotOK(slot) /\ sweep \in BOOLEAN
      /\ \A k \in 1 .. Len(prio) : prio[k].op = "cancel"
  BY DEF TypeOK
<1>2. Weakens /\ \A x \in Ids : adm'[x] \notin {"queued", "revoked"}
  BY PulledTickets DEF PullQuote
<1>3. Harmless(prio, prio, adm', m) /\ Harmless(fifo, fifo, adm', m)
  BY <1>1, HarmlessSame
<1>4. CASE slot' = s /\ Calm /\ UNCHANGED prio
  BY <1>1, <1>2, <1>3, <1>4 DEF Calm
<1>5. CASE s.state = "PendingReplace" /\ slot' = [s EXCEPT !.after = TRUE] /\ Calm /\ UNCHANGED prio
  <2>1. SlotOK(slot') /\ slot'.id = s.id /\ slot'.next = s.next /\ slot'.acked = s.acked /\ slot'.filled = s.filled
    BY <1>5, SlotMarked
  <2> QED
    BY <1>1, <1>2, <1>3, <1>5, <2>1 DEF Calm
<1>6. CASE /\ s.state \in {"PendingPlace", "Open", "PendingCancel"} /\ slot' = CancelSent(s)
           /\ \E n \in {0, 1} : Dispatch(s, n)
           /\ UNCHANGED <<sweep, frozen, snap>>
  <2>1. SlotOK(slot') /\ slot'.id = s.id /\ slot'.next = s.next /\ slot'.acked = s.acked /\ slot'.filled = s.filled
    BY <1>6, SlotCancelled
  <2> DEFINE c == Command("cancel", s.id, NoId)
  <2>2. s.id \in Ids /\ s.id = slot.id
    BY <1>6, SlotIdle DEF SlotOK
  <2>3. CommandOK(c) /\ c.op = "cancel" /\ c.id = s.id
    BY <2>2, CommandIs
  <2>4. adm'[c.id] \in {"cancelled", "claimed"}
    <3>1. adm[s.id] # "none" /\ adm[s.id] \in Admissions
      BY <2>2, NoOrder DEF Tickets, TypeOK
    <3>2. adm'[s.id] # "none" /\ adm'[s.id] \in Admissions
      BY <1>2, <2>2, <3>1 DEF Weakens
    <3> QED
      BY <1>2, <2>2, <2>3, <3>2 DEF Admissions
  <2> HIDE DEF c
  <2>5. Harmless(prio, Append(prio, c), adm', m) /\ Harmless(fifo, Append(fifo, c), adm', m)
    BY <1>1, <2>3, <2>4, HarmlessAppend DEF Placing
  <2>6. \A k \in 1 .. Len(Append(prio, c)) : Append(prio, c)[k].op = "cancel"
    <3>1. c \in Commands
      BY <2>3 DEF CommandOK
    <3>2. /\ Extends(prio, Append(prio, c))
          /\ \A k \in 1 .. Len(Append(prio, c)) : k \in 1 .. Len(prio) \/ Append(prio, c)[k] = c
      BY <1>1, <3>1, Appended
    <3> QED
      BY <1>1, <2>3, <3>2 DEF Extends
  <2>7. \/ prio' = Append(prio, c) /\ fifo' = fifo
        \/ fifo' = Append(fifo, c) /\ prio' = prio
    BY <1>6 DEF Dispatch, c
  <2> QED
    BY <1>1, <1>2, <1>3, <1>6, <2>1, <2>5, <2>6, <2>7
<1>7. CASE slot' = s /\ FreezeAndSweep(1) /\ UNCHANGED prio
  <2>1. sweep' = TRUE /\ (snap' = {} => snap = {}) /\ Harmless(fifo, fifo', adm', m)
    BY <1>7, SweepEffect DEF FreezeAndSweep
  <2> QED
    BY <1>1, <1>2, <1>3, <1>7, <2>1
<1> QED
  BY <1>4, <1>5, <1>6, <1>7 DEF PullQuote

LEMMA PulledIsLearnt ==
    ASSUME MakerOrdersAssumption, TypeOK, Tickets, NEW s, SlotOK(s), PullQuote(s),
           \/ /\ s.id = slot.id /\ s.next = slot.next /\ s.acked = slot.acked
              /\ slot.id \in Ids => s.filled <= venue[slot.id].filled
           \/ s = IdleSlot /\ \A x \in {slot.id, slot.next} \cap Ids : ~Out(x),
           UNCHANGED <<venue, workVars, forgotten>>, mode' \in {"run", "drain"}, mode # "run" => mode' # "run",
           events' = events \/ TakesAnswer,
           uncertain' \subseteq Ids, \A x \in uncertain : x \in uncertain' \/ venue[x].st = "gone",
           cov' \in [Ids -> 0 .. Lots], \A x \in Ids : cov'[x] <= venue[x].filled
    PROVE  Learns
<1>1. /\ Weakens /\ \A x \in Ids : adm'[x] \notin {"queued", "revoked"}
      /\ SlotOK(slot') /\ slot'.id = s.id /\ slot'.next = s.next /\ slot'.acked = s.acked /\ slot'.filled = s.filled
      /\ Harmless(prio, prio', adm', mode') /\ \A k \in 1 .. Len(prio') : prio'[k].op = "cancel"
      /\ Harmless(fifo, fifo', adm', mode')
      /\ sweep' \in BOOLEAN /\ (snap' = {} => snap = {})
  BY PullQuoteEffect
<1>2. CASE /\ s.id = slot.id /\ s.next = slot.next /\ s.acked = slot.acked
           /\ slot.id \in Ids => s.filled <= venue[slot.id].filled
  BY <1>1, <1>2 DEF Learns, SlotKept, workVars
<1>3. CASE s = IdleSlot /\ \A x \in {slot.id, slot.next} \cap Ids : ~Out(x)
  <2>1. slot'.id = NoId
    BY <1>1, <1>3, SlotIdle
  <2>2. slot' = IdleSlot
    BY <1>1, <2>1, NoOrder DEF SlotOK
  <2>3. SlotCleared
    BY <1>3, <2>2 DEF SlotCleared
  <2> QED
    BY <1>1, <2>3 DEF Learns, workVars
<1> QED
  BY <1>2, <1>3

\* The slot as a fill leaves it: its orders kept, or emptied when its order is filled at the venue.
LEMMA FilledSlot ==
    ASSUME MakerOrdersAssumption, TypeOK, Claims, SlotIsTrue, NEW id \in Ids, NEW c \in 0 .. Lots, c <= venue[id].filled
    PROVE  LET s == FillProgress(slot, id, c)
           IN  /\ SlotOK(s)
               /\ \/ /\ s.id = slot.id /\ s.next = slot.next /\ s.acked = slot.acked
                     /\ slot.id \in Ids => s.filled <= venue[slot.id].filled
                  \/ s = IdleSlot /\ \A x \in {slot.id, slot.next} \cap Ids : ~Out(x)
<1> DEFINE s == FillProgress(slot, id, c)
<1>1. SlotOK(slot) /\ venue[id].filled \in 0 .. Lots
  BY DEF TypeOK, Orders
<1>2. slot.id = id => slot.filled <= venue[id].filled
  BY DEF SlotIsTrue
<1>3. /\ SlotOK(s)
      /\ \/ /\ s.state = slot.state /\ s.id = slot.id /\ s.next = slot.next /\ s.acked = slot.acked
            /\ slot.id # id => s = slot
            /\ slot.id = id => s.filled <= venue[id].filled
         \/ s = IdleSlot /\ slot.id = id /\ slot.next = NoId /\ venue[id].filled = Lots
  BY <1>1, <1>2, SlotFilled
<1> HIDE DEF s
<1>4. ASSUME s.id = slot.id, s.next = slot.next, s.acked = slot.acked,
             slot.id # id => s = slot, slot.id = id => s.filled <= venue[id].filled
      PROVE  slot.id \in Ids => s.filled <= venue[slot.id].filled
  BY <1>4 DEF SlotIsTrue
<1>5. ASSUME slot.id = id, slot.next = NoId, venue[id].filled = Lots
      PROVE  \A x \in {slot.id, slot.next} \cap Ids : ~Out(x)
  <2>1. ~Out(id)
    BY <1>5 DEF Claims, Out
  <2> QED
    BY <1>5, <2>1, NoOrder
<1>6. /\ SlotOK(s)
      /\ \/ /\ s.id = slot.id /\ s.next = slot.next /\ s.acked = slot.acked
            /\ slot.id \in Ids => s.filled <= venue[slot.id].filled
         \/ s = IdleSlot /\ \A x \in {slot.id, slot.next} \cap Ids : ~Out(x)
  BY <1>3, <1>4, <1>5
<1> QED
  BY <1>6 DEF s

\* What the slot is at every step that quotes, pulls or stops.
LEMMA SlotHere ==
    ASSUME TypeOK, SlotIsTrue
    PROVE  SlotOK(slot) /\ (slot.id \in Ids => slot.filled <= venue[slot.id].filled) /\ uncertain \subseteq Ids
           /\ cov \in [Ids -> 0 .. Lots] /\ \A x \in Ids : cov[x] <= venue[x].filled
BY DEF TypeOK, SlotIsTrue

LEMMA CancelQuoteLearns == ASSUME MakerOrdersAssumption, Sound, CancelQuote PROVE Learns
<1>1. TypeOK /\ Tickets /\ SlotIsTrue
  BY DEF Sound
<1>2. PullQuote(slot) /\ UNCHANGED <<venue, workVars, forgotten, cov, uncertain, mode, events>> /\ mode = "run"
  BY DEF CancelQuote
<1> QED
  BY <1>1, <1>2, SlotHere, PulledIsLearnt

LEMMA QuiesceLearns == ASSUME MakerOrdersAssumption, Sound, Quiesce PROVE Learns
<1>1. TypeOK /\ Tickets /\ SlotIsTrue
  BY DEF Sound
<1>2. PullQuote(slot) /\ UNCHANGED <<venue, workVars, forgotten, cov, uncertain, events>> /\ mode' = "drain"
  BY DEF Quiesce
<1> QED
  BY <1>1, <1>2, SlotHere, PulledIsLearnt

\* A step of the strategy that leaves the slot and the normal lane's use to the rest.
LEMMA KeptIsLearnt ==
    ASSUME MakerOrdersAssumption, TypeOK, Tickets, SlotIsTrue, UNCHANGED <<slot, prio, cov>>,
           Weakens, Harmless(fifo, fifo', adm', mode'),
           UNCHANGED <<venue, hand, followup>>, barrier' = barrier \/ (barrier = "none" /\ barrier' = "queued"),
           mode' \in {"run", "drain"}, mode # "run" => mode' # "run",
           events' = events \/ TakesAnswer,
           uncertain' \subseteq Ids, \A x \in uncertain : x \in uncertain' \/ venue[x].st = "gone",
           sweep' \in BOOLEAN, forgotten' = forgotten, snap' = {} => snap = {}
    PROVE  Learns
<1>1. \A x \in Ids : adm'[x] \in {"queued", "revoked"} => x = Ticket(slot')
  BY DEF Tickets, Weakens
<1>2. Harmless(prio, prio', adm', mode') /\ \A k \in 1 .. Len(prio') : prio'[k].op = "cancel"
  BY HarmlessSame DEF TypeOK
<1>3. SlotKept /\ SlotOK(slot')
  BY SlotHere DEF SlotKept
<1>4. cov' \in [Ids -> 0 .. Lots] /\ \A x \in Ids : cov'[x] <= venue[x].filled
  BY SlotHere
<1> QED
  BY <1>1, <1>2, <1>3, <1>4 DEF Learns

LEMMA GateClosesLearns == ASSUME MakerOrdersAssumption, Sound, GateCloses PROVE Learns
<1>1. TypeOK /\ Tickets /\ SlotIsTrue /\ uncertain \subseteq Ids /\ fifo \in Seq(Commands) /\ sweep \in BOOLEAN
  BY DEF Sound, TypeOK
<1>2. /\ UNCHANGED <<slot, prio, cov, venue, hand, followup, barrier, events, uncertain, forgotten, mode>>
      /\ mode = "run"
  BY DEF GateCloses, workVars
<1>3. CASE Sweep(0) /\ adm' = Cancelled(adm, Ticket(slot))
  BY <1>1, <1>2, <1>3, Weaker, SweepEffect, KeptIsLearnt
<1>4. CASE adm' = Revoked(adm) /\ UNCHANGED <<sweep, fifo, snap>>
  <2>1. Harmless(fifo, fifo', adm', mode')
    BY <1>1, <1>4, HarmlessSame
  <2> QED
    BY <1>1, <1>2, <1>4, <2>1, Weaker, KeptIsLearnt
<1> QED
  BY <1>3, <1>4 DEF GateCloses

LEMMA SendStopLearns == ASSUME MakerOrdersAssumption, Sound, SendStop PROVE Learns
<1> DEFINE b == Command("barrier", NoId, NoId)
           a == Command("cancelAll", NoId, NoId)
<1>1. TypeOK /\ Tickets /\ SlotIsTrue /\ uncertain \subseteq Ids /\ fifo \in Seq(Commands) /\ sweep \in BOOLEAN
  BY DEF Sound, TypeOK
<1>2. /\ UNCHANGED <<slot, prio, cov, adm, venue, hand, followup, events, uncertain, forgotten, mode, sweep, snap>>
      /\ mode = "drain" /\ barrier = "none" /\ barrier' = "queued"
  BY DEF SendStop, stratVars
<1>3. /\ CommandOK(b) /\ b.op = "barrier" /\ ~Placing(b)
      /\ CommandOK(a) /\ a.op = "cancelAll" /\ ~Placing(a)
  BY CommandIs DEF Placing
<1>4. fifo' = fifo \o <<b>> \/ fifo' = fifo \o <<a>> \o <<b>>
  BY DEF SendStop
<1> HIDE DEF a, b
<1>5. a \in Commands /\ b \in Commands
  BY <1>3 DEF CommandOK
<1>6. fifo \o <<b>> = Append(fifo, b) /\ fifo \o <<a>> \o <<b>> = Append(Append(fifo, a), b) /\ Append(fifo, a) \in Seq(Commands)
  BY <1>1, <1>5, AppendProperties, AppendIsConcat
<1>7. Harmless(fifo, Append(fifo, b), adm', mode') /\ Harmless(fifo, Append(fifo, a), adm', mode')
      /\ Harmless(Append(fifo, a), Append(Append(fifo, a), b), adm', mode')
  BY <1>1, <1>2, <1>3, <1>6, HarmlessAppend
<1>8. Harmless(fifo, Append(Append(fifo, a), b), adm', mode')
  BY <1>7 DEF Harmless, Extends
<1>9. Harmless(fifo, fifo', adm', mode')
  BY <1>4, <1>6, <1>7, <1>8
<1> QED
  BY <1>1, <1>2, <1>9, Weaker, KeptIsLearnt

\* An order a fill or an answer proves complete is gone.
LEMMA FillLearns == ASSUME MakerOrdersAssumption, Sound, Fill PROVE Learns
<1>1. /\ TypeOK /\ Tickets /\ SlotIsTrue /\ Claims /\ SlotOK(slot) /\ uncertain \subseteq Ids /\ fifo \in Seq(Commands)
      /\ sweep \in BOOLEAN
  BY DEF Sound, TypeOK
<1>2. /\ UNCHANGED <<venue, workVars, hand, followup, barrier, events, forgotten, mode>> /\ mode' \in {"run", "drain"}
  BY <1>1 DEF Fill, workVars, TypeOK
<1>3. PICK id \in Ids : \E c \in 1 .. venue[id].filled :
         /\ uncertain' = IF c >= Lots THEN uncertain \ {id} ELSE uncertain
         /\ IF c > cov[id]
            THEN /\ cov' = [cov EXCEPT ![id] = c]
                 /\ PullQuote(FillProgress(slot, id, c))
            ELSE /\ uncertain' # uncertain
                 /\ adm' = Revoked(adm) /\ Calm /\ UNCHANGED <<cov, slot, prio, troubles>>
  BY DEF Fill
<1>4. PICK c \in 1 .. venue[id].filled :
         /\ uncertain' = IF c >= Lots THEN uncertain \ {id} ELSE uncertain
         /\ IF c > cov[id]
            THEN /\ cov' = [cov EXCEPT ![id] = c]
                 /\ PullQuote(FillProgress(slot, id, c))
            ELSE /\ uncertain' # uncertain
                 /\ adm' = Revoked(adm) /\ Calm /\ UNCHANGED <<cov, slot, prio, troubles>>
  BY <1>3
<1>5. venue[id].filled \in 0 .. Lots /\ c \in 0 .. Lots /\ c <= venue[id].filled /\ Lots \in Nat
  BY <1>1 DEF TypeOK, Orders, MakerOrdersAssumption
<1>6. uncertain' \subseteq Ids /\ \A x \in uncertain : x \in uncertain' \/ venue[x].st = "gone"
  BY <1>1, <1>4, <1>5 DEF Claims
<1>7. CASE c > cov[id]
  <2>1. cov' \in [Ids -> 0 .. Lots] /\ \A x \in Ids : cov'[x] <= venue[x].filled
    BY <1>1, <1>4, <1>5, <1>7, SlotHere
  <2>2. PullQuote(FillProgress(slot, id, c))
    BY <1>4, <1>7
  <2> DEFINE s == FillProgress(slot, id, c)
  <2>3. /\ SlotOK(s)
        /\ \/ /\ s.id = slot.id /\ s.next = slot.next /\ s.acked = slot.acked
              /\ slot.id \in Ids => s.filled <= venue[slot.id].filled
           \/ s = IdleSlot /\ \A x \in {slot.id, slot.next} \cap Ids : ~Out(x)
    BY <1>1, <1>5, FilledSlot
  <2> HIDE DEF s
  <2>4. PullQuote(s)
    BY <2>2 DEF s
  <2> QED
    BY <1>1, <1>2, <1>6, <2>1, <2>3, <2>4, PulledIsLearnt
<1>8. CASE ~(c > cov[id])
  <2>1. adm' = Revoked(adm) /\ UNCHANGED <<sweep, fifo, snap, slot, prio, cov>>
    BY <1>4, <1>8 DEF Calm
  <2>2. Harmless(fifo, fifo', adm', mode')
    BY <1>1, <2>1, HarmlessSame
  <2> QED
    BY <1>1, <1>2, <1>6, <2>1, <2>2, Weaker, KeptIsLearnt
<1> QED
  BY <1>7, <1>8

\* What every answer leaves alone, and what the first one proves.
LEMMA AnswerTaken ==
    ASSUME MakerOrdersAssumption, Sound, ExecEvent
    PROVE  /\ TypeOK /\ Tickets /\ SlotIsTrue /\ Claims /\ Evidence /\ SlotOK(slot) /\ uncertain \subseteq Ids
           /\ fifo \in Seq(Commands) /\ prio \in Seq(Commands) /\ sweep \in BOOLEAN
           /\ UNCHANGED <<venue, hand, followup, barrier, forgotten, mode>> /\ mode' \in {"run", "drain"}
           /\ events # <<>> /\ events' = Tail(events) /\ Len(events) \in Nat /\ 1 \in 1 .. Len(events)
           /\ events[1] = Head(events) /\ Head(events) \in Events
           /\ Head(events).kind # "RateLimited" => Head(events).id \in Ids
<1>1. /\ TypeOK /\ Tickets /\ SlotIsTrue /\ Claims /\ Evidence /\ SlotOK(slot) /\ uncertain \subseteq Ids
      /\ fifo \in Seq(Commands) /\ prio \in Seq(Commands) /\ sweep \in BOOLEAN /\ events \in Seq(Events)
  BY DEF Sound, TypeOK
<1>2. /\ UNCHANGED <<venue, hand, followup, barrier, forgotten, mode>> /\ mode' \in {"run", "drain"}
      /\ events # <<>> /\ events' = Tail(events)
  BY <1>1 DEF ExecEvent, workVars, TypeOK
<1>3. Head(events) \in Events /\ Pops(events, Tail(events))
  BY <1>1, <1>2, Popped
<1>4. Len(events) \in Nat /\ 1 \in 1 .. Len(events) /\ events[1] = Head(events)
  BY <1>3 DEF Pops
<1>5. events[1].kind # "RateLimited" => events[1].id \in Ids
  BY <1>4 DEF Sound, TypeOK
<1> QED
  BY <1>1, <1>2, <1>3, <1>4, <1>5

LEMMA PlaceAckLearns ==
    ASSUME MakerOrdersAssumption, Sound, ExecEvent, Head(events).kind = "PlaceAck", OnPlaceAck(Head(events).id)
    PROVE  Learns
<1> DEFINE id == Head(events).id
<1>1. /\ TypeOK /\ Tickets /\ SlotIsTrue /\ SlotOK(slot) /\ uncertain \subseteq Ids
      /\ fifo \in Seq(Commands) /\ prio \in Seq(Commands) /\ sweep \in BOOLEAN
      /\ UNCHANGED <<venue, hand, followup, barrier, forgotten, mode>> /\ mode' \in {"run", "drain"}
      /\ events # <<>> /\ events' = Tail(events) /\ id \in Ids /\ id # NoId
  BY AnswerTaken, NoOrder
<1>2. /\ venue[id].st \in {"rest", "gone"} /\ (slot.id = id => ~slot.acked)
      /\ adm[id] = "claimed"
  BY AnswerTaken DEF Evidence, Claims
<1>3. UNCHANGED <<adm, uncertain, cov>> /\ TakesAnswer
  BY <1>1 DEF OnPlaceAck, TakesAnswer
<1>a. adm \in [Ids -> Admissions] /\ cov \in [Ids -> 0 .. Lots] /\ \A x \in Ids : cov[x] <= venue[x].filled
  BY <1>1, SlotHere DEF TypeOK
<1>b. Weakens
  BY <1>1, <1>3, Weaker
<1>4. Harmless(fifo, fifo, adm', mode') /\ Harmless(prio, prio, adm', mode')
      /\ \A k \in 1 .. Len(prio) : prio[k].op = "cancel"
  BY <1>1, HarmlessSame DEF TypeOK
<1>5. CASE slot.id # id
  <2>1. slot' = slot /\ UNCHANGED <<sweep, fifo, snap, prio>>
    BY <1>5 DEF OnPlaceAck, Calm
  <2> QED
    BY <1>1, <1>3, <1>b, <1>4, <2>1, KeptIsLearnt
<1>6. CASE slot.id = id
  <2> DEFINE s == Acked(slot)
  <2>1. slot.state \in {"PendingPlace", "PendingCancel"}
    BY <1>1, <1>2, <1>6, SlotIdle DEF SlotOK, Slots
  <2>2. SlotOK(s) /\ s.id = id /\ s.next = NoId /\ slot.next = NoId /\ s.acked /\ s.filled = slot.filled
        /\ s.state \in {"Open", "PendingCancel"}
    BY <1>1, <1>6, <2>1, SlotAcked
  <2>3. \/ slot' = s /\ Calm /\ UNCHANGED <<prio, troubles>>
        \/ slot' = CancelSent(s) /\ prio' = Append(prio, Command("cancel", id, NoId)) /\ Calm
        \/ slot' = s /\ FreezeAndSweep(1) /\ UNCHANGED prio
    BY <1>6 DEF OnPlaceAck
  <2> HIDE DEF s
  <2> DEFINE Same7 == SlotOK(slot') /\ slot'.id = id /\ slot'.next = NoId /\ slot'.acked /\ slot'.filled = slot.filled
  <2>4. ASSUME Same7 PROVE SlotKept /\ \A x \in Ids : adm'[x] \in {"queued", "revoked"} => x = Ticket(slot')
    <3>1. Ticket(slot') = Ticket(slot)
      BY <1>6, <2>2, <2>4 DEF Ticket
    <3> QED
      BY <1>1, <1>3, <1>6, <2>2, <2>4, <3>1 DEF SlotKept, SlotIsTrue, Tickets
  <2>5. ASSUME Same7, Harmless(prio, prio', adm', mode'), \A k \in 1 .. Len(prio') : prio'[k].op = "cancel",
               Harmless(fifo, fifo', adm', mode'), sweep' \in BOOLEAN, snap' = {} => snap = {}
        PROVE  Learns
    BY <1>1, <1>3, <1>a, <1>b, <2>4, <2>5 DEF Learns
  <2>6. CASE slot' = s /\ Calm /\ UNCHANGED prio
    BY <1>1, <1>4, <2>2, <2>5, <2>6 DEF Calm
  <2>7. CASE slot' = s /\ FreezeAndSweep(1) /\ UNCHANGED prio
    <3>1. sweep' = TRUE /\ (snap' = {} => snap = {}) /\ Harmless(fifo, fifo', adm', mode')
      BY <1>1, <2>7, SweepEffect DEF FreezeAndSweep
    <3> QED
      BY <1>1, <1>4, <2>2, <2>5, <2>7, <3>1
  <2>8. CASE slot' = CancelSent(s) /\ prio' = Append(prio, Command("cancel", id, NoId)) /\ Calm
    <3> DEFINE c == Command("cancel", id, NoId)
    <3>1. CommandOK(c) /\ c.op = "cancel" /\ c.id = id
      BY <1>1, CommandIs
    <3> HIDE DEF c
    <3>2. c \in Commands /\ ~Placing(c) /\ adm'[c.id] \in {"cancelled", "claimed"}
      BY <1>2, <1>3, <3>1 DEF CommandOK, Placing
    <3>3. Harmless(prio, Append(prio, c), adm', mode')
      BY <1>1, <3>1, <3>2, HarmlessAppend
    <3>4. \A k \in 1 .. Len(Append(prio, c)) : Append(prio, c)[k].op = "cancel"
      <4>1. /\ Extends(prio, Append(prio, c))
            /\ \A k \in 1 .. Len(Append(prio, c)) : k \in 1 .. Len(prio) \/ Append(prio, c)[k] = c
        BY <1>1, <3>2, Appended
      <4> QED
        BY <1>4, <3>1, <4>1 DEF Extends
    <3>5. Same7
      BY <2>2, <2>8, SlotCancelled
    <3>6. prio' = Append(prio, c) /\ UNCHANGED <<sweep, fifo, snap>>
      BY <2>8 DEF Calm, c
    <3> QED
      BY <1>1, <1>4, <2>5, <3>3, <3>4, <3>5, <3>6
  <2> QED
    BY <2>3, <2>6, <2>7, <2>8
<1> QED
  BY <1>5, <1>6

\* A step that empties the slot of orders that cannot be out, or promotes the replacement.
LEMMA EmptiedIsLearnt ==
    ASSUME MakerOrdersAssumption, TypeOK, Tickets, SlotIsTrue, UNCHANGED <<prio, fifo, cov, venue, hand, followup, barrier, mode>>,
           mode \in {"run", "drain"}, events' = events \/ TakesAnswer, uncertain' = uncertain,
           sweep' \in BOOLEAN, forgotten \subseteq forgotten', snap' = {} => snap = {},
           Weakens, \A x \in Ids : adm'[x] \in {"queued", "revoked"} => x = Ticket(slot'),
           SlotOK(slot'), SlotCleared \/ NextPromoted
    PROVE  Learns
<1>1. Harmless(prio, prio', adm', mode') /\ Harmless(fifo, fifo', adm', mode') /\ uncertain \subseteq Ids
      /\ \A k \in 1 .. Len(prio') : prio'[k].op = "cancel"
  BY HarmlessSame DEF TypeOK
<1>2. cov' \in [Ids -> 0 .. Lots] /\ \A x \in Ids : cov'[x] <= venue[x].filled
  BY SlotHere
<1> QED
  BY <1>1, <1>2 DEF Learns

LEMMA SlotTicketCancelled ==
    ASSUME TypeOK, Tickets
    PROVE  \A x \in Ids : Cancelled(adm, Ticket(slot))[x] \notin {"queued", "revoked"}
<1>1. adm \in [Ids -> Admissions]
  BY DEF TypeOK
<1>2. \A x \in Ids : adm[x] \in {"queued", "revoked"} => x = Ticket(slot)
  BY DEF Tickets
<1> QED
  BY <1>1, <1>2, CancelledIs

LEMMA ClosedLearns ==
    ASSUME MakerOrdersAssumption, Sound, ExecEvent, Head(events).kind = "PlaceReject", OnClosed(Head(events).id)
    PROVE  Learns
<1> DEFINE id == Head(events).id
<1>1. /\ TypeOK /\ Tickets /\ SlotIsTrue /\ Claims /\ SlotOK(slot) /\ uncertain \subseteq Ids
      /\ fifo \in Seq(Commands) /\ prio \in Seq(Commands) /\ sweep \in BOOLEAN
      /\ UNCHANGED <<venue, hand, followup, barrier, forgotten, mode>> /\ mode' \in {"run", "drain"}
      /\ events # <<>> /\ events' = Tail(events) /\ id \in Ids /\ id # NoId
  BY AnswerTaken, NoOrder
<1>2. UNCHANGED <<uncertain, cov, prio, sweep, fifo, snap>> /\ TakesAnswer
  BY <1>1 DEF OnClosed, TakesAnswer, Calm
<1>3. adm[id] = "cancelled" \/ venue[id].st = "refused"
  BY AnswerTaken DEF Evidence
<1>4. ~Out(id)
  BY <1>1, <1>3 DEF Claims, Out
<1>5. CASE slot.id # id
  <2>1. slot' = slot /\ adm' = adm
    BY <1>5 DEF OnClosed
  <2>2. Harmless(fifo, fifo', adm', mode')
    BY <1>1, <1>2, HarmlessSame
  <2> QED
    BY <1>1, <1>2, <2>1, <2>2, Weaker, KeptIsLearnt
<1>6. CASE slot.id = id
  <2>1. slot.next = NoId
    <3>1. ~slot.acked
      BY <1>1, <1>3, <1>6 DEF SlotIsTrue, Claims
    <3> QED
      BY <1>1, <3>1 DEF SlotOK
  <2>2. slot' = IdleSlot /\ adm' = Cancelled(adm, Ticket(slot))
    BY <1>6 DEF OnClosed
  <2>3. SlotCleared /\ SlotOK(slot')
    BY <1>4, <1>6, <2>1, <2>2, NoOrder, SlotIdle DEF SlotCleared
  <2>4. \A x \in Ids : adm'[x] \notin {"queued", "revoked"}
    BY <1>1, <2>2, SlotTicketCancelled
  <2> QED
    BY <1>1, <1>2, <2>2, <2>3, <2>4, Weaker, EmptiedIsLearnt
<1> QED
  BY <1>5, <1>6

LEMMA CancelAckLearns ==
    ASSUME MakerOrdersAssumption, Sound, ExecEvent, Head(events).kind = "CancelAck", OnCancelAck(Head(events).id)
    PROVE  Learns
<1> DEFINE id == Head(events).id
<1>1. /\ TypeOK /\ Tickets /\ SlotIsTrue /\ Claims /\ SlotOK(slot) /\ uncertain \subseteq Ids
      /\ fifo \in Seq(Commands) /\ prio \in Seq(Commands) /\ sweep \in BOOLEAN
      /\ UNCHANGED <<venue, hand, followup, barrier, forgotten, mode>> /\ mode' \in {"run", "drain"}
      /\ events # <<>> /\ events' = Tail(events) /\ id \in Ids /\ id # NoId
  BY AnswerTaken, NoOrder
<1>2. UNCHANGED <<uncertain, cov, prio, sweep, fifo, snap>> /\ TakesAnswer
  BY <1>1 DEF OnCancelAck, TakesAnswer, Calm
<1>3. Over(id) \/ ((slot.id = id => ~slot.acked) /\ id \in uncertain)
  <2>1. Over(id) \/ ((slot.id = id => ~slot.acked) /\
               (id \in uncertain \/ \E j \in 1 .. 1 - 1 : events[j].kind = "PlaceUnknown" /\ events[j].id = id))
    BY AnswerTaken DEF Evidence
  <2> QED
    BY <2>1
<1>4. Over(id) => ~Out(id)
  BY <1>1 DEF Over, Out, Claims
<1>5. CASE slot' = slot
  <2>1. adm' = adm \/ adm' = Cancelled(adm, Ticket(slot))
    BY <1>5 DEF OnCancelAck, Releases
  <2>2. Harmless(fifo, fifo', adm', mode')
    BY <1>1, <1>2, HarmlessSame
  <2> QED
    BY <1>1, <1>2, <1>5, <2>1, <2>2, Weaker, KeptIsLearnt
<1>6. CASE slot.id = id /\ slot.state # "PendingReplace"
  <2>1. slot.next = NoId
    BY <1>1, <1>6 DEF SlotOK
  <2>2. slot' = IdleSlot /\ adm' = Cancelled(adm, Ticket(slot))
    BY <1>1, <1>6, SlotPromoted DEF OnCancelAck, Releases
  <2>3. SlotCleared /\ SlotOK(slot')
    BY <1>2, <1>3, <1>4, <1>6, <2>1, <2>2, NoOrder, SlotIdle DEF SlotCleared
  <2>4. \A x \in Ids : adm'[x] \notin {"queued", "revoked"}
    BY <1>1, <2>2, SlotTicketCancelled
  <2> QED
    BY <1>1, <1>2, <2>2, <2>3, <2>4, Weaker, EmptiedIsLearnt
<1>7. CASE slot.id = id /\ slot.state = "PendingReplace"
  <2> DEFINE t == CancelAcked(slot)
  <2>1. SlotOK(t) /\ t.state = "PendingPlace" /\ t.id = slot.next /\ slot.next \in Ids /\ t.next = NoId /\ ~t.acked /\ t.filled = 0
    BY <1>1, <1>7, SlotPromoted
  <2>2. slot' = t
    BY <1>7 DEF OnCancelAck
  <2> HIDE DEF t
  <2>3. slot' # IdleSlot
    BY <2>1, <2>2, SlotIdle
  <2>4. adm' = adm
    BY <2>3 DEF OnCancelAck, Releases
  <2>5. ~Out(slot.id)
    BY <1>1, <1>3, <1>4, <1>7 DEF SlotOK
  <2>6. NextPromoted
    BY <2>1, <2>2, <2>5, NoOrder DEF NextPromoted
  <2>7. Ticket(slot') = Ticket(slot)
    BY <2>1, <2>2, NoOrder DEF Ticket
  <2>8. \A x \in Ids : adm'[x] \in {"queued", "revoked"} => x = Ticket(slot')
    BY <1>1, <2>4, <2>7 DEF Tickets
  <2>9. SlotOK(slot')
    BY <2>1, <2>2
  <2> QED
    BY <1>1, <1>2, <2>4, <2>6, <2>8, <2>9, Weaker, EmptiedIsLearnt
<1> QED
  BY <1>5, <1>6, <1>7 DEF OnCancelAck

LEMMA UnknownLearns ==
    ASSUME MakerOrdersAssumption, Sound, ExecEvent, Head(events).kind \in {"PlaceUnknown", "CancelReject"},
           OnUnknown(Head(events).id)
    PROVE  Learns
<1>1. /\ TypeOK /\ Tickets /\ SlotIsTrue /\ uncertain \subseteq Ids
      /\ UNCHANGED <<venue, hand, followup, barrier, forgotten, mode>> /\ mode' \in {"run", "drain"}
      /\ events # <<>> /\ events' = Tail(events) /\ Head(events).id \in Ids
  BY AnswerTaken
<1>2. uncertain' = uncertain \cup {Head(events).id} /\ Sweep(0) /\ adm' = Revoked(adm) /\ UNCHANGED <<slot, cov, prio>>
  BY DEF OnUnknown, FreezeAndSweep
<1>3. TakesAnswer /\ uncertain' \subseteq Ids
  BY <1>1, <1>2 DEF TakesAnswer
<1>4. sweep' = TRUE /\ (snap' = {} => snap = {}) /\ Harmless(fifo, fifo', adm', mode')
  BY <1>1, <1>2, SweepEffect
<1> QED
  BY <1>1, <1>2, <1>3, <1>4, Weaker, KeptIsLearnt

LEMMA RateLimitedLearns ==
    ASSUME MakerOrdersAssumption, Sound, ExecEvent, Head(events).kind = "RateLimited", OnRateLimited
    PROVE  Learns
<1>1. /\ TypeOK /\ Tickets /\ SlotIsTrue /\ uncertain \subseteq Ids /\ fifo \in Seq(Commands)
      /\ UNCHANGED <<venue, hand, followup, barrier, forgotten, mode>> /\ mode' \in {"run", "drain"}
      /\ events # <<>> /\ events' = Tail(events)
  BY AnswerTaken
<1>2. /\ UNCHANGED <<slot, uncertain, cov, prio, fifo>> /\ sweep' = TRUE /\ adm' = Revoked(adm)
      /\ (snap' = {} => snap = {}) /\ TakesAnswer
  BY <1>1, SnapshotOf DEF OnRateLimited, TakesAnswer
<1>3. Harmless(fifo, fifo', adm', mode')
  BY <1>1, <1>2, HarmlessSame
<1> QED
  BY <1>1, <1>2, <1>3, Weaker, KeptIsLearnt

LEMMA ProgressLearns ==
    ASSUME MakerOrdersAssumption, Sound, ExecEvent, Head(events).kind \in {"Terminal", "Resting"},
           OnProgress(Head(events))
    PROVE  Learns
<1> DEFINE e == Head(events)
<1>1. /\ TypeOK /\ Tickets /\ SlotIsTrue /\ Claims /\ SlotOK(slot) /\ uncertain \subseteq Ids
      /\ fifo \in Seq(Commands) /\ sweep \in BOOLEAN
      /\ UNCHANGED <<venue, workVars, hand, followup, barrier, forgotten, mode>> /\ mode' \in {"run", "drain"}
      /\ events # <<>> /\ events' = Tail(events) /\ e.id \in Ids /\ e \in Events
  BY AnswerTaken DEF workVars
<1>2. e.cum <= venue[e.id].filled /\ e.cum \in 0 .. Lots /\ (e.kind = "Terminal" => venue[e.id].st = "gone")
  BY <1>1, AnswerTaken DEF Evidence, Events
<1>3. TakesAnswer
  BY <1>1 DEF TakesAnswer
<1>4. uncertain' \subseteq Ids /\ \A x \in uncertain : x \in uncertain' \/ venue[x].st = "gone"
  BY <1>1, <1>2 DEF OnProgress
<1>5. CASE e.cum > cov[e.id] /\ PullQuote(FillProgress(slot, e.id, e.cum))
  <2>1. cov' = [cov EXCEPT ![e.id] = e.cum]
    BY <1>5 DEF OnProgress
  <2>2. cov' \in [Ids -> 0 .. Lots] /\ \A x \in Ids : cov'[x] <= venue[x].filled
    BY <1>1, <1>2, <2>1, SlotHere
  <2> DEFINE s == FillProgress(slot, e.id, e.cum)
  <2>3. /\ SlotOK(s)
        /\ \/ /\ s.id = slot.id /\ s.next = slot.next /\ s.acked = slot.acked
              /\ slot.id \in Ids => s.filled <= venue[slot.id].filled
           \/ s = IdleSlot /\ \A x \in {slot.id, slot.next} \cap Ids : ~Out(x)
    BY <1>1, <1>2, FilledSlot
  <2>4. PullQuote(s)
    BY <1>5
  <2> HIDE DEF s, e
  <2> QED
    BY <1>1, <1>3, <1>4, <2>2, <2>3, <2>4, PulledIsLearnt
<1>6. CASE e.cum > cov[e.id] /\ FreezeAndSweep(1) /\ adm' = Revoked(adm) /\ UNCHANGED <<slot, prio>>
  <2>1. cov' = [cov EXCEPT ![e.id] = e.cum]
    BY <1>6 DEF OnProgress
  <2>2. cov' \in [Ids -> 0 .. Lots] /\ \A x \in Ids : cov'[x] <= venue[x].filled
    BY <1>1, <1>2, <2>1, SlotHere
  <2>3. sweep' = TRUE /\ (snap' = {} => snap = {}) /\ Harmless(fifo, fifo', adm', mode')
    BY <1>1, <1>6, SweepEffect DEF FreezeAndSweep
  <2>4. Weakens
    BY <1>1, <1>6, Weaker
  <2>5. \A x \in Ids : adm'[x] \in {"queued", "revoked"} => x = Ticket(slot')
    BY <1>1, <1>6, <2>4 DEF Tickets, Weakens
  <2>6. Harmless(prio, prio', adm', mode') /\ \A k \in 1 .. Len(prio') : prio'[k].op = "cancel"
    BY <1>1, <1>6, HarmlessSame DEF TypeOK
  <2>7. SlotKept /\ SlotOK(slot')
    BY <1>1, <1>6 DEF SlotKept, SlotIsTrue
  <2> HIDE DEF e
  <2> QED
    BY <1>1, <1>3, <1>4, <2>2, <2>3, <2>4, <2>5, <2>6, <2>7 DEF Learns
<1>7. CASE ~(e.cum > cov[e.id])
  <2>1. UNCHANGED <<cov, slot, adm, prio, sweep, fifo, snap>>
    BY <1>7 DEF OnProgress, Calm
  <2>2. Harmless(fifo, fifo', adm', mode')
    BY <1>1, <2>1, HarmlessSame
  <2> QED
    BY <1>1, <1>3, <1>4, <2>1, <2>2, Weaker, KeptIsLearnt
<1> QED
  BY <1>5, <1>6, <1>7 DEF OnProgress

LEMMA ExecEventLearns == ASSUME MakerOrdersAssumption, Sound, ExecEvent PROVE Learns
BY PlaceAckLearns, ClosedLearns, CancelAckLearns, UnknownLearns, RateLimitedLearns, ProgressLearns DEF ExecEvent

LEMMA TickLearns == ASSUME MakerOrdersAssumption, Sound, Tick PROVE Learns
<1>1. /\ TypeOK /\ Tickets /\ SlotIsTrue /\ Claims /\ SlotOK(slot) /\ uncertain \subseteq Ids
      /\ fifo \in Seq(Commands) /\ sweep \in BOOLEAN
  BY DEF Sound, TypeOK
<1>2. /\ UNCHANGED <<cov, uncertain, mode, prio, workVars, hand, followup, barrier, events, venue>>
      /\ mode' \in {"run", "drain"}
  BY <1>1 DEF Tick, workVars, TypeOK
<1>3. CASE Sweep(0) /\ adm' = Revoked(adm) /\ UNCHANGED <<slot, forgotten>>
  <2>1. sweep' = TRUE /\ (snap' = {} => snap = {}) /\ Harmless(fifo, fifo', adm', mode')
    BY <1>1, <1>3, SweepEffect
  <2> QED
    BY <1>1, <1>2, <1>3, <2>1, Weaker, KeptIsLearnt
<1>4. CASE /\ sweep' = FALSE
           /\ slot' = IdleSlot /\ adm' = Cancelled(adm, Ticket(slot))
           /\ forgotten' = forgotten \cup {i \in {slot.id, slot.next} \ {NoId} : InFlight(i)}
           /\ fifo' = fifo /\ (snap' = {} => snap = {})
  <2>1. \A x \in {slot.id, slot.next} \cap Ids : Out(x) => x \in forgotten'
    BY <1>4, NoOrder DEF Out, InFlight
  <2>2. SlotCleared /\ SlotOK(slot')
    BY <1>4, <2>1, SlotIdle DEF SlotCleared
  <2>3. \A x \in Ids : adm'[x] \notin {"queued", "revoked"}
    BY <1>1, <1>4, SlotTicketCancelled
  <2> QED
    BY <1>1, <1>2, <1>4, <2>2, <2>3, Weaker, EmptiedIsLearnt
<1>5. CASE /\ sweep' = FALSE /\ UNCHANGED <<slot, adm, forgotten>>
           /\ fifo' = fifo /\ (snap' = {} => snap = {})
  <2>1. Harmless(fifo, fifo', adm', mode')
    BY <1>1, <1>5, HarmlessSame
  <2> QED
    BY <1>1, <1>2, <1>5, <2>1, Weaker, KeptIsLearnt
<1> QED
  BY <1>3, <1>4, <1>5, SnapshotOf DEF Tick

LEMMA StrategyLearns ==
    ASSUME MakerOrdersAssumption, Sound,
           CancelQuote \/ GateCloses \/ Fill \/ ExecEvent \/ Tick \/ Quiesce \/ SendStop
    PROVE  Learns
BY CancelQuoteLearns, GateClosesLearns, FillLearns, ExecEventLearns, TickLearns, QuiesceLearns, SendStopLearns

-----------------------------------------------------------------------------
(* What the worker's steps do, all but the claim of a place and its answer:*)
(* they take one command, carry a place to the venue's door, cancel orders *)
(* and tickets, and answer.  The reconciler's answer and the dead man are  *)
(* such steps too.                                                         *)

Shrinks(q, r) == r = q \/ (q # <<>> /\ r = Tail(q))

\* Who is to send an order: the follow-up and the first of the lane are taken in hand, a replacement
\* follows a cancel that took the old order down.
Carries ==
    \/ followup' \in {followup, NoCommand} /\ (hand' = hand \/ (hand.op # "place" /\ hand' = NoCommand))
    \/ /\ hand = NoCommand /\ followup # NoCommand /\ followup' = NoCommand /\ fifo' = fifo
       /\ hand'.op = "checked" /\ hand'.id = followup.id /\ hand' = Command(hand'.op, hand'.id, hand'.old)
    \/ /\ hand = NoCommand /\ followup = NoCommand /\ followup' = NoCommand
       /\ fifo # <<>> /\ fifo' = Tail(fifo) /\ Head(fifo).op = "place"
       /\ hand'.op = "checked" /\ hand'.id = Head(fifo).id /\ hand' = Command(hand'.op, hand'.id, hand'.old)
    \/ /\ hand = NoCommand /\ hand' = NoCommand /\ followup = NoCommand
       /\ fifo # <<>> /\ fifo' = Tail(fifo) /\ Head(fifo).op = "replace"
       /\ followup' = Command("place", Head(fifo).id, NoId)
       /\ venue'[Head(fifo).old].st = "gone" /\ venue'[Head(fifo).old].filled < Lots

\* The evidence behind an answer the worker or the reconciler gives.
Proven(e) ==
    /\ e.kind \in {"PlaceReject", "CancelAck", "CancelReject", "RateLimited", "Terminal", "Resting"}
    /\ e.kind # "RateLimited" => e.id \in Ids
    /\ e.kind = "PlaceReject" => adm'[e.id] = "cancelled"
    /\ e.kind = "CancelAck" => adm'[e.id] = "cancelled" \/ venue'[e.id].st \in {"gone", "refused", "late"}
    /\ e.kind = "Terminal" => venue'[e.id].st = "gone"
    /\ e.kind \in {"Terminal", "Resting"} => e.cum <= venue'[e.id].filled

Answers ==
    /\ events' \in Seq(Events) /\ Extends(events, events')
    /\ \A k \in 1 .. Len(events') : k \in 1 .. Len(events) \/ Proven(events'[k])

Completes ==
    /\ barrier' = "completed" /\ snap' = NoSnapshot
    /\ followup = NoCommand /\ hand = NoCommand /\ followup' = NoCommand /\ hand' = NoCommand
    /\ fifo # <<>> /\ fifo' = Tail(fifo) /\ Head(fifo).op = "barrier"

Works ==
    /\ UNCHANGED <<slot, cov, sweep, uncertain, mode, forgotten>>
    /\ adm' \in [Ids -> Admissions]
    /\ \A x \in Ids : adm'[x] = adm[x] \/ (adm[x] \in {"queued", "revoked"} /\ adm'[x] = "cancelled")
    /\ venue' \in [Ids -> Orders]
    /\ \A x \in Ids : /\ venue'[x].filled = venue[x].filled
                      /\ venue'[x].st = venue[x].st \/ (venue[x].st = "rest" /\ venue'[x].st = "gone")
    /\ Shrinks(prio, prio') /\ Shrinks(fifo, fifo')
    /\ Carries /\ Answers
    /\ (barrier' = barrier /\ snap' = snap) \/ Completes

\* A lane after a command was taken from it.
LEMMA Shrunk ==
    ASSUME NEW q \in Seq(Commands), NEW r, Shrinks(q, r)
    PROVE  /\ r \in Seq(Commands) /\ Len(q) \in Nat /\ Len(r) \in Nat
           /\ \/ r = q
              \/ /\ q # <<>> /\ r = Tail(q) /\ Len(q) = Len(r) + 1 /\ q[1] = Head(q) /\ 1 \in 1 .. Len(q)
                 /\ \A k \in 1 .. Len(r) : k + 1 \in 1 .. Len(q) /\ r[k] = q[k + 1]
<1>1. CASE r = q
  BY <1>1, LenProperties
<1>2. CASE q # <<>> /\ r = Tail(q)
  <2>1. r \in Seq(Commands) /\ Pops(q, r)
    BY <1>2, Popped
  <2>2. /\ Len(q) \in Nat /\ Len(r) \in Nat /\ Len(q) = Len(r) + 1 /\ q[1] = Head(q)
        /\ \A k \in 1 .. Len(r) : r[k] = q[k + 1]
    BY <2>1 DEF Pops
  <2>3. 1 \in 1 .. Len(q) /\ \A k \in 1 .. Len(r) : k + 1 \in 1 .. Len(q)
    BY <2>2
  <2> QED
    BY <1>2, <2>1, <2>2, <2>3
<1> QED
  BY <1>1, <1>2 DEF Shrinks

\* What is left in a lane was there, in the same order.
LEMMA ShrunkWas ==
    ASSUME NEW q \in Seq(Commands), NEW r, Shrinks(q, r), NEW k \in 1 .. Len(r)
    PROVE  \E j \in 1 .. Len(q) : /\ r[k] = q[j]
                                  /\ \A i \in 1 .. Len(r) : i > k => \E h \in 1 .. Len(q) : h > j /\ r[i] = q[h]
                                  /\ \A i \in 1 .. Len(r) : \E h \in 1 .. Len(q) : r[i] = q[h] /\ (h = j => i = k)
<1>1. CASE r = q
  BY <1>1
<1>2. CASE /\ Len(q) \in Nat /\ Len(r) \in Nat /\ Len(q) = Len(r) + 1
           /\ \A i \in 1 .. Len(r) : i + 1 \in 1 .. Len(q) /\ r[i] = q[i + 1]
  <2>1. k + 1 \in 1 .. Len(q) /\ r[k] = q[k + 1]
    BY <1>2
  <2>2. ASSUME NEW i \in 1 .. Len(r) PROVE i + 1 \in 1 .. Len(q) /\ r[i] = q[i + 1] /\ (i > k => i + 1 > k + 1) /\ (i + 1 = k + 1 => i = k)
    BY <1>2
  <2> QED
    BY <2>1, <2>2
<1> QED
  BY <1>1, <1>2, Shrunk

LEMMA WorksTyped == ASSUME MakerOrdersAssumption, TypeOK, Works PROVE TypeOK'
<1>1. /\ fifo' \in Seq(Commands) /\ prio' \in Seq(Commands)
      /\ \A k \in 1 .. Len(fifo') : \E j \in 1 .. Len(fifo) : fifo'[k] = fifo[j]
      /\ \A k \in 1 .. Len(prio') : \E j \in 1 .. Len(prio) : prio'[k] = prio[j]
  BY Shrunk, ShrunkWas DEF TypeOK, Works
<1>2. /\ \A k \in 1 .. Len(prio') : CommandOK(prio'[k]) /\ prio'[k].op = "cancel"
      /\ \A k \in 1 .. Len(fifo') : CommandOK(fifo'[k])
  BY <1>1 DEF TypeOK
<1>3. /\ followup' = NoCommand \/ (CommandOK(followup') /\ followup'.op = "place")
      /\ hand' = NoCommand \/ (hand'.op \in {"checked", "place"} /\ hand'.id \in Ids
                              /\ hand' = Command(hand'.op, hand'.id, hand'.old))
  <2>1. fifo # <<>> => Head(fifo) = fifo[1] /\ 1 \in 1 .. Len(fifo) /\ CommandOK(Head(fifo))
    <3> SUFFICES ASSUME fifo # <<>> PROVE Head(fifo) = fifo[1] /\ 1 \in 1 .. Len(fifo) /\ CommandOK(Head(fifo))
      OBVIOUS
    <3>1. Pops(fifo, Tail(fifo))
      BY Popped DEF TypeOK
    <3>2. Head(fifo) = fifo[1] /\ 1 \in 1 .. Len(fifo)
      BY <3>1 DEF Pops
    <3> QED
      BY <3>2 DEF TypeOK
  <2>2. /\ followup = NoCommand \/ (CommandOK(followup) /\ followup.op = "place")
        /\ hand = NoCommand \/ (hand.op \in {"checked", "place"} /\ hand.id \in Ids
                             /\ hand = Command(hand.op, hand.id, hand.old))
    BY DEF TypeOK
  <2>3. CASE followup' \in {followup, NoCommand} /\ (hand' = hand \/ (hand.op # "place" /\ hand' = NoCommand))
    BY <2>2, <2>3
  <2>4. CASE /\ hand = NoCommand /\ followup # NoCommand /\ followup' = NoCommand /\ fifo' = fifo
             /\ hand'.op = "checked" /\ hand'.id = followup.id /\ hand' = Command(hand'.op, hand'.id, hand'.old)
    BY <2>2, <2>4 DEF CommandOK
  <2>5. CASE /\ followup' = NoCommand /\ fifo # <<>> /\ Head(fifo).op = "place"
             /\ hand'.op = "checked" /\ hand'.id = Head(fifo).id /\ hand' = Command(hand'.op, hand'.id, hand'.old)
    BY <2>1, <2>5 DEF CommandOK
  <2>6. CASE /\ hand' = NoCommand /\ fifo # <<>> /\ Head(fifo).op = "replace"
             /\ followup' = Command("place", Head(fifo).id, NoId)
    <3>1. Head(fifo).id \in Ids
      BY <2>1, <2>6 DEF CommandOK
    <3> QED
      BY <2>6, <3>1, CommandIs
  <2> QED
    BY <2>3, <2>4, <2>5, <2>6 DEF Works, Carries
<1>4. \A k \in 1 .. Len(events') : events'[k].kind # "RateLimited" => events'[k].id \in Ids
  BY DEF TypeOK, Works, Answers, Proven, Extends
<1>5. /\ SlotOK(slot') /\ adm' \in [Ids -> Admissions] /\ cov' \in [Ids -> 0 .. Lots] /\ venue' \in [Ids -> Orders]
      /\ sweep' \in BOOLEAN /\ uncertain' \subseteq Ids /\ mode' \in {"run", "drain", "done"}
      /\ barrier' \in {"none", "queued", "completed"} /\ events' \in Seq(Events)
  BY DEF TypeOK, Works, Completes, Answers
<1>6. \A id \in Ids : cov'[id] <= venue'[id].filled
  BY DEF TypeOK, Works
<1> QED
  BY <1>1, <1>2, <1>3, <1>4, <1>5, <1>6 DEF TypeOK

\* The first command of the lane, when one was taken.
LEMMA FirstOfLane ==
    ASSUME MakerOrdersAssumption, TypeOK, fifo # <<>>, fifo' = Tail(fifo)
    PROVE  /\ Head(fifo) = fifo[1] /\ 1 \in 1 .. Len(fifo) /\ CommandOK(Head(fifo))
           /\ Len(fifo) \in Nat /\ Len(fifo') \in Nat /\ Len(fifo) = Len(fifo') + 1
           /\ \A k \in 1 .. Len(fifo') : k + 1 \in 1 .. Len(fifo) /\ fifo'[k] = fifo[k + 1]
<1>1. Pops(fifo, fifo')
  BY Popped DEF TypeOK
<1>2. /\ Len(fifo) \in Nat /\ Len(fifo') \in Nat /\ Len(fifo) = Len(fifo') + 1 /\ fifo[1] = Head(fifo)
      /\ \A k \in 1 .. Len(fifo') : fifo'[k] = fifo[k + 1]
  BY <1>1 DEF Pops
<1>3. 1 \in 1 .. Len(fifo) /\ \A k \in 1 .. Len(fifo') : k + 1 \in 1 .. Len(fifo)
  BY <1>2
<1> QED
  BY <1>2, <1>3 DEF TypeOK

LEMMA QueuedWas == ASSUME TypeOK, Shrinks(fifo, fifo') PROVE \A x : Queued(x)' => Queued(x)
<1> SUFFICES ASSUME NEW x, NEW k \in 1 .. Len(fifo'), Placing(fifo'[k]), fifo'[k].id = x PROVE Queued(x)
  BY DEF Queued
<1>1. \E j \in 1 .. Len(fifo) : fifo'[k] = fifo[j]
  BY ShrunkWas DEF TypeOK
<1> QED
  BY <1>1 DEF Queued

LEMMA NothingSent == ASSUME MakerOrdersAssumption PROVE NoCommand.op = "none" /\ NoCommand.id = NoId /\ NoCommand.id \notin Ids
BY NoOrder DEF NoCommand

\* An order is carried by one hand at a time, and only one that was to be sent.
LEMMA Carried ==
    ASSUME MakerOrdersAssumption, TypeOK, Tickets, Works
    PROVE  /\ \A x \in Ids : Sending(x)' => Sending(x)
           /\ \A x \in Ids : followup'.id = x => ~Queued(x)'
           /\ \A x \in Ids : hand'.id = x => ~Queued(x)' /\ followup'.id # x
           /\ hand'.op = "place" => hand' = hand
           /\ hand.op = "place" => hand' = hand
<1>1. \A x : Queued(x)' => Queued(x)
  BY QueuedWas DEF Works
<1>2. NoCommand.op = "none" /\ NoCommand.id \notin Ids
  BY NothingSent
<1>3. /\ \A x \in Ids : followup.id = x => ~Queued(x)
      /\ \A x \in Ids : hand.id = x => ~Queued(x) /\ followup.id # x
  BY DEF Tickets
<1>4. CASE followup' \in {followup, NoCommand} /\ (hand' = hand \/ (hand.op # "place" /\ hand' = NoCommand))
  BY <1>1, <1>2, <1>3, <1>4 DEF Sending
<1>5. CASE /\ hand = NoCommand /\ followup # NoCommand /\ followup' = NoCommand /\ fifo' = fifo
           /\ hand'.op = "checked" /\ hand'.id = followup.id
  BY <1>1, <1>2, <1>3, <1>5 DEF Sending
<1>6. ASSUME NEW y, y = Head(fifo).id,
             hand = NoCommand, followup = NoCommand, fifo # <<>>, fifo' = Tail(fifo), Placing(Head(fifo)),
             \/ followup' = NoCommand /\ hand'.op = "checked" /\ hand'.id = y
             \/ hand' = NoCommand /\ followup'.id = y
      PROVE  /\ \A x \in Ids : Sending(x)' => Sending(x)
             /\ \A x \in Ids : followup'.id = x => ~Queued(x)'
             /\ \A x \in Ids : hand'.id = x => ~Queued(x)' /\ followup'.id # x
             /\ hand'.op = "place" => hand' = hand
             /\ hand.op = "place" => hand' = hand
  <2>1. /\ y = fifo[1].id /\ Placing(fifo[1]) /\ 1 \in 1 .. Len(fifo) /\ Len(fifo') \in Nat
        /\ \A k \in 1 .. Len(fifo') : k + 1 \in 1 .. Len(fifo) /\ fifo'[k] = fifo[k + 1]
    BY <1>6, FirstOfLane
  <2>2. Queued(y)
    BY <2>1 DEF Queued
  <2>3. ~Queued(y)'
    <3> SUFFICES ASSUME NEW k \in 1 .. Len(fifo'), Placing(fifo'[k]), fifo'[k].id = y PROVE FALSE
      BY DEF Queued
    <3>1. k + 1 \in 1 .. Len(fifo) /\ Placing(fifo[k + 1]) /\ fifo[k + 1].id = fifo[1].id /\ Placing(fifo[1])
      BY <2>1
    <3>2. k + 1 = 1
      BY <2>1, <3>1 DEF Tickets
    <3> QED
      BY <2>1, <3>2
  <2>4. CASE followup' = NoCommand /\ hand'.op = "checked" /\ hand'.id = y
    BY <1>1, <1>2, <1>6, <2>2, <2>3, <2>4 DEF Sending
  <2>5. CASE hand' = NoCommand /\ followup'.id = y
    BY <1>1, <1>2, <1>6, <2>2, <2>3, <2>5 DEF Sending
  <2> QED
    BY <1>6, <2>4, <2>5
<1>7. CASE /\ hand = NoCommand /\ hand' = NoCommand /\ followup = NoCommand
           /\ fifo # <<>> /\ fifo' = Tail(fifo) /\ Head(fifo).op = "replace"
           /\ followup' = Command("place", Head(fifo).id, NoId)
  <2>1. followup'.id = Head(fifo).id
    BY <1>7 DEF Command
  <2> QED
    BY <1>6, <1>7, <2>1 DEF Placing
<1>8. CASE /\ hand = NoCommand /\ followup = NoCommand /\ followup' = NoCommand
           /\ fifo # <<>> /\ fifo' = Tail(fifo) /\ Head(fifo).op = "place"
           /\ hand'.op = "checked" /\ hand'.id = Head(fifo).id
  BY <1>6, <1>8 DEF Placing
<1> QED
  BY <1>4, <1>5, <1>7, <1>8 DEF Works, Carries

LEMMA WorksTickets == ASSUME MakerOrdersAssumption, TypeOK, Tickets, Claims, Works PROVE Tickets'
<1>1. /\ slot' = slot /\ adm \in [Ids -> Admissions] /\ SlotOK(slot)
      /\ \A x \in Ids : adm'[x] = adm[x] \/ (adm[x] \in {"queued", "revoked"} /\ adm'[x] = "cancelled")
  BY DEF Works, TypeOK
<1>2. \A x \in Ids : adm'[x] \in {"queued", "revoked"} => x = Ticket(slot')
  BY <1>1 DEF Tickets
<1>3. \A x \in {slot'.id, slot'.next} \ {NoId} : adm'[x] # "none"
  <2>1. {slot.id, slot.next} \ {NoId} \subseteq Ids
    BY <1>1 DEF SlotOK, Slots
  <2> QED
    BY <1>1, <2>1 DEF Tickets
<1>4. \A x \in Ids : Sending(x)' => adm'[x] \in {"queued", "revoked", "cancelled"} \/ (hand'.op = "place" /\ hand'.id = x)
  <2> SUFFICES ASSUME NEW x \in Ids, Sending(x)'
               PROVE  adm'[x] \in {"queued", "revoked", "cancelled"} \/ (hand'.op = "place" /\ hand'.id = x)
    OBVIOUS
  <2>1. Sending(x)
    BY Carried
  <2>2. adm[x] \in {"queued", "revoked", "cancelled"} => adm'[x] \in {"queued", "revoked", "cancelled"}
    BY <1>1
  <2>3. CASE hand.op = "place" /\ hand.id = x
    <3>1. hand' = hand
      BY <2>3, Carried
    <3> QED
      BY <2>3, <3>1
  <2> QED
    BY <2>1, <2>2, <2>3 DEF Tickets
<1>5. \A j, k \in 1 .. Len(fifo') : Placing(fifo'[j]) /\ Placing(fifo'[k]) /\ fifo'[j].id = fifo'[k].id => j = k
  <2> SUFFICES ASSUME NEW j \in 1 .. Len(fifo'), NEW k \in 1 .. Len(fifo'), Placing(fifo'[j]), Placing(fifo'[k]),
                      fifo'[j].id = fifo'[k].id
               PROVE  j = k
    OBVIOUS
  <2>1. PICK h \in 1 .. Len(fifo) : /\ fifo'[k] = fifo[h]
                                    /\ \A i \in 1 .. Len(fifo') : \E g \in 1 .. Len(fifo) : fifo'[i] = fifo[g] /\ (g = h => i = k)
    BY ShrunkWas DEF TypeOK, Works
  <2>2. PICK g \in 1 .. Len(fifo) : fifo'[j] = fifo[g] /\ (g = h => j = k)
    BY <2>1
  <2> QED
    BY <2>1, <2>2 DEF Tickets
<1>6. /\ \A x \in Ids : followup'.id = x => ~Queued(x)'
      /\ \A x \in Ids : hand'.id = x => ~Queued(x)' /\ followup'.id # x
  BY Carried
<1>7. /\ \A k \in 1 .. Len(prio') : adm'[prio'[k].id] \in {"cancelled", "claimed"}
      /\ \A k \in 1 .. Len(fifo') : fifo'[k].op = "cancel" => adm'[fifo'[k].id] \in {"cancelled", "claimed"}
  <2>1. \A x \in Ids : adm[x] \in {"cancelled", "claimed"} => adm'[x] \in {"cancelled", "claimed"}
    BY <1>1
  <2>2. /\ \A k \in 1 .. Len(prio) : prio[k].id \in Ids /\ adm[prio[k].id] \in {"cancelled", "claimed"}
        /\ \A k \in 1 .. Len(fifo) : fifo[k].op = "cancel" => fifo[k].id \in Ids /\ adm[fifo[k].id] \in {"cancelled", "claimed"}
    BY DEF Tickets, TypeOK, CommandOK
  <2>3. /\ \A k \in 1 .. Len(prio') : \E j \in 1 .. Len(prio) : prio'[k] = prio[j]
        /\ \A k \in 1 .. Len(fifo') : \E j \in 1 .. Len(fifo) : fifo'[k] = fifo[j]
    BY ShrunkWas DEF TypeOK, Works
  <2> QED
    BY <2>1, <2>2, <2>3
<1> QED
  BY <1>2, <1>3, <1>4, <1>5, <1>6, <1>7 DEF Tickets

LEMMA WorksClaims == ASSUME MakerOrdersAssumption, TypeOK, Tickets, Claims, Works PROVE Claims'
<1>1. /\ \A x \in Ids : adm'[x] = "claimed" <=> adm[x] = "claimed"
      /\ \A x \in Ids : (venue'[x].st = "none" <=> venue[x].st = "none") /\ venue'[x].filled = venue[x].filled
      /\ \A x \in Ids : venue[x].st = "gone" => venue'[x].st = "gone"
  BY DEF Works
<1>2. (hand.op = "place" \/ hand'.op = "place") => hand' = hand
  BY Carried
<1>3. hand.op = "place" => hand.id \in Ids
  BY NothingSent DEF TypeOK
<1> QED
  BY <1>1, <1>2, <1>3 DEF Claims

LEMMA WorksTrue == ASSUME MakerOrdersAssumption, TypeOK, Tickets, Claims, SlotIsTrue, Works PROVE SlotIsTrue'
<1>1. /\ slot' = slot /\ SlotOK(slot) /\ slot.id \in Ids \cup {NoId} /\ slot.next \in Ids \cup {NoId}
      /\ slot.next # NoId => slot.acked /\ slot.id \in Ids /\ slot.next \in Ids
      /\ slot.acked => slot.id \in Ids
  BY SlotIdle DEF Works, TypeOK, SlotOK, Slots
<1>2. \A x \in Ids : /\ venue'[x].filled = venue[x].filled
                     /\ venue[x].st \in {"rest", "gone"} => venue'[x].st \in {"rest", "gone"}
                     /\ venue[x].st = "gone" => venue'[x].st = "gone"
                     /\ adm'[x] = "claimed" => adm[x] = "claimed"
  BY DEF Works
<1>3. /\ slot'.id \in Ids => slot'.filled <= venue'[slot'.id].filled
      /\ slot'.acked => venue'[slot'.id].st \in {"rest", "gone"}
  BY <1>1, <1>2 DEF SlotIsTrue
<1>4. \A k \in 1 .. Len(fifo') :
         /\ fifo'[k].op = "replace" => venue'[fifo'[k].old].st \in {"rest", "gone"}
         /\ Placing(fifo'[k]) /\ fifo'[k].id = slot'.next => fifo'[k].op = "replace" /\ fifo'[k].old = slot'.id
  <2> SUFFICES ASSUME NEW k \in 1 .. Len(fifo')
               PROVE  /\ fifo'[k].op = "replace" => venue'[fifo'[k].old].st \in {"rest", "gone"}
                      /\ Placing(fifo'[k]) /\ fifo'[k].id = slot'.next => fifo'[k].op = "replace" /\ fifo'[k].old = slot'.id
    OBVIOUS
  <2>1. PICK j \in 1 .. Len(fifo) : fifo'[k] = fifo[j]
    BY ShrunkWas DEF TypeOK, Works
  <2>2. fifo[j].op = "replace" => fifo[j].old \in Ids
    BY DEF TypeOK, CommandOK
  <2> QED
    BY <1>1, <1>2, <2>1, <2>2 DEF SlotIsTrue
<1>5. ASSUME slot.next # NoId, followup'.id = slot.next \/ hand'.id = slot.next \/ adm'[slot.next] = "claimed"
      PROVE  venue'[slot.id].st = "gone" /\ venue'[slot.id].filled < Lots
  <2>1. CASE followup.id = slot.next \/ hand.id = slot.next \/ adm[slot.next] = "claimed"
    BY <1>1, <1>2, <1>5, <2>1 DEF SlotIsTrue
  <2>2. CASE /\ fifo # <<>> /\ fifo' = Tail(fifo) /\ Head(fifo).op = "place" /\ Head(fifo).id = slot.next
    <3>1. Head(fifo) = fifo[1] /\ 1 \in 1 .. Len(fifo)
      BY <2>2, FirstOfLane
    <3> QED
      BY <2>2, <3>1 DEF SlotIsTrue, Placing
  <2>3. CASE /\ fifo # <<>> /\ fifo' = Tail(fifo) /\ Head(fifo).op = "replace" /\ Head(fifo).id = slot.next
             /\ venue'[Head(fifo).old].st = "gone" /\ venue'[Head(fifo).old].filled < Lots
    <3>1. Head(fifo) = fifo[1] /\ 1 \in 1 .. Len(fifo)
      BY <2>3, FirstOfLane
    <3>2. Head(fifo).old = slot.id
      BY <2>3, <3>1 DEF SlotIsTrue, Placing
    <3> QED
      BY <2>3, <3>2
  <2>4. NoCommand.id # slot.next
    BY <1>1, <1>5, NothingSent
  <2>5. Command("place", Head(fifo).id, NoId).id = Head(fifo).id
    BY DEF Command
  <2> QED
    BY <1>1, <1>2, <1>5, <2>1, <2>2, <2>3, <2>4, <2>5 DEF Works, Carries
<1> QED
  BY <1>1, <1>3, <1>4, <1>5 DEF SlotIsTrue

LEMMA WorksEvidence ==
    ASSUME MakerOrdersAssumption, TypeOK, Tickets, Claims, SlotIsTrue, Evidence, Works
    PROVE  Evidence'
<1>1. /\ events' \in Seq(Events) /\ Len(events) \in Nat /\ Len(events') \in Nat /\ Len(events) <= Len(events')
      /\ \A k \in 1 .. Len(events) : events'[k] = events[k]
      /\ slot' = slot /\ uncertain' = uncertain
  BY DEF Works, Answers, Extends
<1>2. \A x \in Ids : /\ venue'[x].filled = venue[x].filled
                     /\ venue[x].st \in {"rest", "gone"} => venue'[x].st \in {"rest", "gone"}
                     /\ venue[x].st = "gone" => venue'[x].st = "gone"
                     /\ venue[x].st = "refused" => venue'[x].st = "refused"
                     /\ venue'[x].st = "late" => venue[x].st = "late"
                     /\ adm[x] = "cancelled" => adm'[x] = "cancelled"
                     /\ venue[x].st # "none" => venue'[x].st # "none"
  BY DEF Works
<1>3. ASSUME NEW k \in 1 .. Len(events') PROVE events'[k].kind # "RateLimited" => events'[k].id \in Ids
  BY <1>1 DEF Works, Answers, Proven, TypeOK
<1>4. \A kinds, x : Told(kinds, x) => Told(kinds, x)'
  BY <1>1 DEF Told
<1>5. \A x : Told({"PlaceAck"}, x)' => Told({"PlaceAck"}, x)
  BY <1>1 DEF Told, Works, Answers, Proven
<1>6. ASSUME NEW k \in 1 .. Len(events), NEW e, e = events[k]
      PROVE  /\ e.kind = "PlaceReject" => adm'[e.id] = "cancelled" \/ venue'[e.id].st = "refused"
             /\ e.kind = "PlaceAck" => venue'[e.id].st \in {"rest", "gone"} /\ (slot.id = e.id => ~slot.acked)
             /\ e.kind = "PlaceAck" => \A j \in 1 .. Len(events') : events'[j].kind = "PlaceAck" /\ events'[j].id = e.id => j = k
             /\ e.kind = "CancelAck" =>
                  \/ Over(e.id)'
                  \/ /\ venue'[e.id].st # "none" /\ (slot.id = e.id => ~slot.acked)
                     /\ ~Told({"PlaceAck"}, e.id)'
                     /\ \/ e.id \in uncertain
                        \/ \E j \in 1 .. k - 1 : events'[j].kind = "PlaceUnknown" /\ events'[j].id = e.id
             /\ e.kind = "Terminal" => venue'[e.id].st = "gone"
             /\ e.kind \in {"Terminal", "Resting"} => e.cum <= venue'[e.id].filled
  <2>1. e.kind # "RateLimited" => e.id \in Ids
    BY <1>6 DEF TypeOK
  <2>2. /\ e.kind = "PlaceReject" => adm'[e.id] = "cancelled" \/ venue'[e.id].st = "refused"
        /\ e.kind = "PlaceAck" => venue'[e.id].st \in {"rest", "gone"} /\ (slot.id = e.id => ~slot.acked)
        /\ e.kind = "Terminal" => venue'[e.id].st = "gone"
        /\ e.kind \in {"Terminal", "Resting"} => e.cum <= venue'[e.id].filled
    BY <1>2, <1>6, <2>1 DEF Evidence
  <2>3. e.kind = "PlaceAck" => \A j \in 1 .. Len(events') : events'[j].kind = "PlaceAck" /\ events'[j].id = e.id => j = k
    BY <1>1, <1>6 DEF Evidence, Works, Answers, Proven
  <2>4. ASSUME e.kind = "CancelAck"
        PROVE  \/ Over(e.id)'
               \/ /\ venue'[e.id].st # "none" /\ (slot.id = e.id => ~slot.acked)
                  /\ ~Told({"PlaceAck"}, e.id)'
                  /\ \/ e.id \in uncertain
                     \/ \E j \in 1 .. k - 1 : events'[j].kind = "PlaceUnknown" /\ events'[j].id = e.id
    <3>1. CASE Over(e.id)
      BY <1>2, <2>1, <2>4, <3>1 DEF Over
    <3>2. CASE /\ venue[e.id].st # "none" /\ (slot.id = e.id => ~slot.acked)
               /\ ~Told({"PlaceAck"}, e.id)
               /\ \/ e.id \in uncertain
                  \/ \E j \in 1 .. k - 1 : events[j].kind = "PlaceUnknown" /\ events[j].id = e.id
      <4>1. \A j \in 1 .. k - 1 : j \in 1 .. Len(events)
        BY <1>1, <1>6
      <4> QED
        BY <1>1, <1>2, <1>5, <2>1, <2>4, <3>2, <4>1
    <3> QED
      BY <1>6, <2>4, <3>1, <3>2 DEF Evidence
  <2> QED
    BY <2>2, <2>3, <2>4
<1>7. ASSUME NEW k \in 1 .. Len(events'), k \notin 1 .. Len(events), NEW e, e = events'[k]
      PROVE  /\ e.kind # "PlaceAck"
             /\ e.kind = "PlaceReject" => adm'[e.id] = "cancelled"
             /\ e.kind = "CancelAck" =>
                  \/ Over(e.id)'
                  \/ /\ venue'[e.id].st # "none" /\ (slot.id = e.id => ~slot.acked)
                     /\ ~Told({"PlaceAck"}, e.id)'
                     /\ \/ e.id \in uncertain
                        \/ \E j \in 1 .. k - 1 : events'[j].kind = "PlaceUnknown" /\ events'[j].id = e.id
             /\ e.kind = "Terminal" => venue'[e.id].st = "gone"
             /\ e.kind \in {"Terminal", "Resting"} => e.cum <= venue'[e.id].filled
  <2>1. /\ e.kind \in {"PlaceReject", "CancelAck", "CancelReject", "RateLimited", "Terminal", "Resting"}
        /\ e.kind # "RateLimited" => e.id \in Ids
        /\ e.kind = "PlaceReject" => adm'[e.id] = "cancelled"
        /\ e.kind = "CancelAck" => adm'[e.id] = "cancelled" \/ venue'[e.id].st \in {"gone", "refused", "late"}
        /\ e.kind = "Terminal" => venue'[e.id].st = "gone"
        /\ e.kind \in {"Terminal", "Resting"} => e.cum <= venue'[e.id].filled
    BY <1>7 DEF Works, Answers, Proven
  <2>2. ASSUME e.kind = "CancelAck", ~Over(e.id)'
        PROVE  /\ venue'[e.id].st # "none" /\ (slot.id = e.id => ~slot.acked)
               /\ ~Told({"PlaceAck"}, e.id)'
               /\ \/ e.id \in uncertain
                  \/ \E j \in 1 .. k - 1 : events'[j].kind = "PlaceUnknown" /\ events'[j].id = e.id
    <3>1. e.id \in Ids /\ venue[e.id].st = "late"
      BY <1>2, <2>1, <2>2 DEF Over
    <3>2. slot.id = e.id => ~slot.acked
      BY <3>1 DEF SlotIsTrue
    <3>3. ~Told({"PlaceAck"}, e.id)
      BY <3>1 DEF Evidence, Told
    <3>4. e.id \in uncertain \/ \E j \in 1 .. Len(events) : events[j].kind = "PlaceUnknown" /\ events[j].id = e.id
      BY <3>1 DEF Evidence, Told
    <3>5. \A j \in 1 .. Len(events) : j \in 1 .. k - 1
      BY <1>1, <1>7
    <3> QED
      BY <1>1, <1>2, <1>5, <3>1, <3>2, <3>3, <3>4, <3>5
  <2> QED
    BY <2>1, <2>2
<1>8. ASSUME NEW x \in Ids, venue'[x].st = "late" PROVE x \in uncertain \/ Told({"PlaceUnknown"}, x)'
  BY <1>2, <1>4, <1>8 DEF Evidence
<1>9. ASSUME NEW k \in 1 .. Len(events'), NEW e, e = events'[k]
      PROVE  /\ e.kind = "PlaceReject" => adm'[e.id] = "cancelled" \/ venue'[e.id].st = "refused"
             /\ e.kind = "PlaceAck" => venue'[e.id].st \in {"rest", "gone"} /\ (slot.id = e.id => ~slot.acked)
             /\ e.kind = "PlaceAck" => \A j \in 1 .. Len(events') : events'[j].kind = "PlaceAck" /\ events'[j].id = e.id => j = k
             /\ e.kind = "CancelAck" =>
                  \/ Over(e.id)'
                  \/ /\ venue'[e.id].st # "none" /\ (slot.id = e.id => ~slot.acked)
                     /\ ~Told({"PlaceAck"}, e.id)'
                     /\ \/ e.id \in uncertain
                        \/ \E j \in 1 .. k - 1 : events'[j].kind = "PlaceUnknown" /\ events'[j].id = e.id
             /\ e.kind = "Terminal" => venue'[e.id].st = "gone"
             /\ e.kind \in {"Terminal", "Resting"} => e.cum <= venue'[e.id].filled
  <2>1. CASE k \in 1 .. Len(events)
    <3>1. e = events[k]
      BY <1>1, <1>9, <2>1
    <3> QED
      BY <1>6, <2>1, <3>1
  <2>2. CASE k \notin 1 .. Len(events)
    BY <1>7, <1>9, <2>2
  <2> QED
    BY <2>1, <2>2
<1> QED
  BY <1>1, <1>8, <1>9 DEF Evidence, Over, Told

LEMMA WorksKnown == ASSUME MakerOrdersAssumption, TypeOK, Tickets, Known, Works PROVE Known'
<1>1. \A x \in Ids : Out(x)' => Out(x)
  BY Carried DEF Out, Works
<1>2. slot' = slot /\ uncertain' = uncertain /\ forgotten' = forgotten /\ uncertain \subseteq Ids
  BY DEF Works, TypeOK
<1> QED
  BY <1>1, <1>2 DEF Known, Tracked

LEMMA WorksDrained == ASSUME MakerOrdersAssumption, TypeOK, Drained, Works PROVE Drained'
<1>1. mode' = mode /\ slot' = slot /\ uncertain' = uncertain
  BY DEF Works
<1>2. ASSUME NEW k \in 1 .. Len(fifo'), fifo'[k].op = "barrier"
      PROVE  mode' # "run" /\ \A j \in 1 .. Len(fifo') : j > k => ~Placing(fifo'[j])
  <2>1. PICK h \in 1 .. Len(fifo) : /\ fifo'[k] = fifo[h]
                                    /\ \A i \in 1 .. Len(fifo') : i > k => \E g \in 1 .. Len(fifo) : g > h /\ fifo'[i] = fifo[g]
    BY <1>2, ShrunkWas DEF TypeOK, Works
  <2> QED
    BY <1>1, <1>2, <2>1 DEF Drained
<1>3. \A x \in Ids : /\ venue'[x].st = "rest" => venue[x].st = "rest"
                     /\ venue'[x].st = "late" => venue[x].st = "late"
  BY DEF Works
<1>4. \A x : Told({"PlaceUnknown"}, x) => Told({"PlaceUnknown"}, x)'
  <2>1. Len(events) \in Nat /\ Len(events') \in Nat /\ Len(events) <= Len(events') /\ \A k \in 1 .. Len(events) : events'[k] = events[k]
    BY DEF Works, Answers, Extends
  <2> QED
    BY <2>1 DEF Told
<1>5. ASSUME barrier' = "completed"
      PROVE  /\ mode' # "run" /\ followup' = NoCommand /\ hand' = NoCommand
             /\ \A k \in 1 .. Len(fifo') : ~Placing(fifo'[k])
             /\ snap' = {} => \A x \in Ids : venue'[x].st = "rest" => x \in uncertain' \/ Told({"PlaceUnknown"}, x)'
  <2>1. CASE barrier' = barrier /\ snap' = snap
    <3>1. /\ mode # "run" /\ followup = NoCommand /\ hand = NoCommand
          /\ \A k \in 1 .. Len(fifo) : ~Placing(fifo[k])
          /\ snap = {} => \A x \in Ids : venue[x].st = "rest" => x \in uncertain \/ Told({"PlaceUnknown"}, x)
      BY <1>5, <2>1 DEF Drained
    <3>2. \A k \in 1 .. Len(fifo') : \E j \in 1 .. Len(fifo) : fifo'[k] = fifo[j]
      BY ShrunkWas DEF TypeOK, Works
    <3>3. followup' = NoCommand /\ hand' = NoCommand
      <4>1. fifo # <<>> => ~Placing(Head(fifo))
        <5> SUFFICES ASSUME fifo # <<>> PROVE ~Placing(Head(fifo))
          OBVIOUS
        <5>1. Pops(fifo, Tail(fifo))
          BY Popped DEF TypeOK
        <5>2. Head(fifo) = fifo[1] /\ 1 \in 1 .. Len(fifo)
          BY <5>1 DEF Pops
        <5> QED
          BY <3>1, <5>2
      <4> QED
        BY <3>1, <4>1 DEF Works, Carries, Placing
    <3> QED
      BY <1>1, <1>3, <1>4, <2>1, <3>1, <3>2, <3>3
  <2>2. CASE Completes
    <3>1. /\ Head(fifo) = fifo[1] /\ 1 \in 1 .. Len(fifo) /\ Head(fifo).op = "barrier"
          /\ Len(fifo') \in Nat /\ \A k \in 1 .. Len(fifo') : k + 1 \in 1 .. Len(fifo) /\ fifo'[k] = fifo[k + 1]
      BY <2>2, FirstOfLane DEF Completes
    <3>2. mode # "run" /\ \A j \in 1 .. Len(fifo) : j > 1 => ~Placing(fifo[j])
      BY <3>1 DEF Drained
    <3>3. \A k \in 1 .. Len(fifo') : ~Placing(fifo'[k])
      <4> SUFFICES ASSUME NEW k \in 1 .. Len(fifo') PROVE ~Placing(fifo'[k])
        OBVIOUS
      <4>1. k + 1 \in 1 .. Len(fifo) /\ k + 1 > 1 /\ fifo'[k] = fifo[k + 1]
        BY <3>1
      <4> QED
        BY <3>2, <4>1
    <3> QED
      BY <1>1, <2>2, <3>2, <3>3, SnapshotOf DEF Completes
  <2> QED
    BY <2>1, <2>2 DEF Works
<1>6. mode' = "done" => /\ barrier' = "completed" /\ slot' = IdleSlot /\ uncertain' = {}
                        /\ \A x \in Ids : venue'[x].st \notin {"rest", "late"}
  BY <1>1, <1>3 DEF Drained, Works, Completes
<1> QED
  BY <1>2, <1>5, <1>6 DEF Drained, Told

LEMMA WorksSound == ASSUME MakerOrdersAssumption, Sound, Works PROVE Sound'
<1>1. TypeOK'
  BY WorksTyped DEF Sound
<1>2. Tickets'
  BY WorksTickets DEF Sound
<1>3. Claims'
  BY WorksClaims DEF Sound
<1>4. SlotIsTrue'
  BY WorksTrue DEF Sound
<1>5. Evidence'
  BY WorksEvidence DEF Sound
<1>6. Known'
  BY WorksKnown DEF Sound
<1>7. Drained'
  BY WorksDrained DEF Sound
<1> QED
  BY <1>1, <1>2, <1>3, <1>4, <1>5, <1>6, <1>7 DEF Sound

-----------------------------------------------------------------------------
(* Each step of the worker, but the claim and the answer of a place, is    *)
(* one of these.                                                           *)

\* The commands the worker takes: the one it takes is OK, and where it came from.
LEMMA Taken ==
    ASSUME MakerOrdersAssumption, TypeOK, TakeNext
    PROVE  /\ hand = NoCommand /\ CommandOK(NextCommand)
           /\ Shrinks(prio, prio') /\ Shrinks(fifo, fifo')
           /\ \/ /\ prio # <<>> /\ NextCommand = Head(prio) /\ followup' = followup /\ fifo' = fifo
                 /\ NextCommand = prio[1] /\ 1 \in 1 .. Len(prio) /\ NextCommand.op = "cancel"
              \/ /\ prio = <<>> /\ followup # NoCommand /\ NextCommand = followup /\ followup' = NoCommand /\ fifo' = fifo
                 /\ NextCommand.op = "place"
              \/ /\ prio = <<>> /\ followup = NoCommand /\ followup' = NoCommand /\ fifo # <<>>
                 /\ NextCommand = Head(fifo) /\ fifo' = Tail(fifo)
                 /\ NextCommand = fifo[1] /\ 1 \in 1 .. Len(fifo)
<1>1. hand = NoCommand /\ NextCommand # NoCommand
      /\ prio' = (IF prio # <<>> THEN Tail(prio) ELSE prio)
      /\ followup' = (IF prio # <<>> THEN followup ELSE NoCommand)
      /\ fifo' = (IF prio = <<>> /\ followup = NoCommand THEN Tail(fifo) ELSE fifo)
  BY DEF TakeNext
<1>2. prio # <<>> => Head(prio) = prio[1] /\ 1 \in 1 .. Len(prio) /\ CommandOK(Head(prio)) /\ Head(prio).op = "cancel"
  <2> SUFFICES ASSUME prio # <<>> PROVE Head(prio) = prio[1] /\ 1 \in 1 .. Len(prio) /\ CommandOK(Head(prio)) /\ Head(prio).op = "cancel"
    OBVIOUS
  <2>1. Pops(prio, Tail(prio))
    BY Popped DEF TypeOK
  <2>2. Head(prio) = prio[1] /\ 1 \in 1 .. Len(prio)
    BY <2>1 DEF Pops
  <2> QED
    BY <2>2 DEF TypeOK
<1>3. fifo # <<>> => Head(fifo) = fifo[1] /\ 1 \in 1 .. Len(fifo) /\ CommandOK(Head(fifo))
  <2> SUFFICES ASSUME fifo # <<>> PROVE Head(fifo) = fifo[1] /\ 1 \in 1 .. Len(fifo) /\ CommandOK(Head(fifo))
    OBVIOUS
  <2>1. Pops(fifo, Tail(fifo))
    BY Popped DEF TypeOK
  <2>2. Head(fifo) = fifo[1] /\ 1 \in 1 .. Len(fifo)
    BY <2>1 DEF Pops
  <2> QED
    BY <2>2 DEF TypeOK
<1>4. followup = NoCommand \/ (CommandOK(followup) /\ followup.op = "place")
  BY DEF TypeOK
<1>5. CASE prio # <<>>
  <2>1. NextCommand = Head(prio)
    BY <1>5 DEF NextCommand
  <2> QED
    BY <1>1, <1>2, <1>5, <2>1 DEF Shrinks
<1>6. CASE prio = <<>> /\ followup # NoCommand
  <2>1. NextCommand = followup
    BY <1>6 DEF NextCommand
  <2> QED
    BY <1>1, <1>4, <1>6, <2>1 DEF Shrinks
<1>7. CASE prio = <<>> /\ followup = NoCommand
  <2>1. fifo # <<>> /\ NextCommand = Head(fifo)
    BY <1>1, <1>7 DEF NextCommand
  <2> QED
    BY <1>1, <1>3, <1>7, <2>1 DEF Shrinks
<1> QED
  BY <1>5, <1>6, <1>7

LEMMA EventIs ==
    ASSUME NEW kind \in {"PlaceAck", "PlaceReject", "PlaceUnknown", "CancelAck", "CancelReject", "RateLimited"},
           NEW id \in Ids \cup {NoId}, MakerOrdersAssumption
    PROVE  LET e == Event(kind, id) IN e \in Events /\ e.kind = kind /\ e.id = id
<1>1. 0 \in 0 .. Lots
  BY DEF MakerOrdersAssumption
<1> QED
  BY <1>1 DEF Event, Events

\* Events that all say what is so.
ProvenAll(es) == es \in Seq(Events) /\ \A i \in 1 .. Len(es) : Proven(es[i])

LEMMA ProvenNone == ProvenAll(<<>>)
<1>1. <<>> \in Seq(Events) /\ Len(<<>>) = 0
  BY EmptySeq
<1> QED
  BY <1>1 DEF ProvenAll

LEMMA ProvenOne == ASSUME NEW e \in Events, Proven(e) PROVE ProvenAll(<<e>>)
<1>1. <<e>> \in Seq(Events) /\ Len(<<e>>) = 1 /\ <<e>>[1] = e
  OBVIOUS
<1> QED
  BY <1>1 DEF ProvenAll

LEMMA ProvenBoth == ASSUME NEW a, NEW b, ProvenAll(a), ProvenAll(b) PROVE ProvenAll(a \o b)
<1>1. a \in Seq(Events) /\ b \in Seq(Events)
  BY DEF ProvenAll
<1> DEFINE c == a \o b
<1>2. /\ c \in Seq(Events) /\ Extends(a, c)
      /\ \A k \in 1 .. Len(c) : k \in 1 .. Len(a) \/ (k - Len(a) \in 1 .. Len(b) /\ c[k] = b[k - Len(a)])
  BY <1>1, Joined
<1> HIDE DEF c
<1>3. ASSUME NEW k \in 1 .. Len(c) PROVE Proven(c[k])
  <2>1. CASE k \in 1 .. Len(a)
    <3>1. c[k] = a[k] /\ Proven(a[k])
      BY <1>2, <2>1 DEF Extends, ProvenAll
    <3> QED
      BY <3>1
  <2>2. CASE k \notin 1 .. Len(a)
    <3>1. c[k] = b[k - Len(a)] /\ Proven(b[k - Len(a)])
      BY <1>2, <2>2 DEF ProvenAll
    <3> QED
      BY <3>1
  <2> QED
    BY <2>1, <2>2
<1>4. ProvenAll(c)
  BY <1>2, <1>3 DEF ProvenAll
<1> QED
  BY <1>4 DEF c

LEMMA SaidNothing == ASSUME TypeOK, events' = events PROVE Answers
BY Same DEF TypeOK, Answers

LEMMA Said == ASSUME TypeOK, NEW es, ProvenAll(es), Say(es) PROVE Answers
<1>1. events \in Seq(Events) /\ es \in Seq(Events) /\ events' = events \o es
  BY DEF TypeOK, ProvenAll, Say
<1>2. /\ events' \in Seq(Events) /\ Extends(events, events')
      /\ \A k \in 1 .. Len(events') : k \in 1 .. Len(events) \/ (k - Len(events) \in 1 .. Len(es) /\ events'[k] = es[k - Len(events)])
  BY <1>1, Joined
<1>3. ASSUME NEW k \in 1 .. Len(events'), k \notin 1 .. Len(events) PROVE Proven(events'[k])
  <2>1. events'[k] = es[k - Len(events)] /\ Proven(es[k - Len(events)])
    BY <1>2, <1>3 DEF ProvenAll
  <2> QED
    BY <2>1
<1> QED
  BY <1>2, <1>3 DEF Answers

LEMMA ProvenCancelReject ==
    ASSUME MakerOrdersAssumption, NEW id \in Ids PROVE ProvenAll(<<Event("CancelReject", id)>>)
<1> DEFINE e == Event("CancelReject", id)
<1>1. e \in Events /\ e.kind = "CancelReject" /\ e.id = id
  BY EventIs
<1> HIDE DEF e
<1>2. ProvenAll(<<e>>)
  BY <1>1, ProvenOne DEF Proven
<1> QED
  BY <1>2 DEF e

LEMMA ProvenCancelAck ==
    ASSUME MakerOrdersAssumption, NEW id \in Ids, adm'[id] = "cancelled" \/ venue'[id].st \in {"gone", "refused", "late"}
    PROVE  ProvenAll(<<Event("CancelAck", id)>>)
<1> DEFINE e == Event("CancelAck", id)
<1>1. e \in Events /\ e.kind = "CancelAck" /\ e.id = id
  BY EventIs
<1> HIDE DEF e
<1>2. ProvenAll(<<e>>)
  BY <1>1, ProvenOne DEF Proven
<1> QED
  BY <1>2 DEF e

LEMMA ProvenLimited == ASSUME MakerOrdersAssumption, NEW es, ProvenAll(es) PROVE ProvenAll(Limited(es))
<1> DEFINE e == Event("RateLimited", NoId)
<1>1. e \in Events /\ e.kind = "RateLimited" /\ e.id = NoId
  BY EventIs
<1> HIDE DEF e
<1>2. ProvenAll(<<e>>)
  BY <1>1, ProvenOne DEF Proven
<1> QED
  BY <1>2, ProvenBoth DEF e, Limited

\* What the worker does to a ticket.
CancelsTickets ==
    /\ adm' \in [Ids -> Admissions]
    /\ \A x \in Ids : adm'[x] = adm[x] \/ (adm[x] \in {"queued", "revoked"} /\ adm'[x] = "cancelled")

LEMMA Rejected ==
    ASSUME MakerOrdersAssumption, TypeOK, NEW id \in Ids, NEW before, NEW after, RejectUnsent(id, before, after),
           ProvenAll(before), ProvenAll(after)
    PROVE  Answers /\ CancelsTickets
<1>1. adm' = Cancelled(adm, id)
  BY DEF RejectUnsent
<1>2. CancelsTickets
  BY <1>1, CancelledIs DEF TypeOK, CancelsTickets
<1> DEFINE e == Event("PlaceReject", id)
           es == IF adm'[id] = "cancelled" THEN <<e>> ELSE <<>>
<1>3. ProvenAll(es)
  <2>1. e \in Events /\ e.kind = "PlaceReject" /\ e.id = id
    BY EventIs
  <2> HIDE DEF e
  <2>2. adm'[id] = "cancelled" => ProvenAll(<<e>>)
    BY <2>1, ProvenOne DEF Proven
  <2> QED
    BY <2>2, ProvenNone
<1>4. Say(before \o es \o after)
  BY DEF RejectUnsent
<1> HIDE DEF es
<1>5. ProvenAll(before \o es \o after)
  BY <1>3, ProvenBoth
<1> QED
  BY <1>2, <1>4, <1>5, Said

VenueKept == venue' \in [Ids -> Orders]
    /\ \A x \in Ids : /\ venue'[x].filled = venue[x].filled
                      /\ venue'[x].st = venue[x].st \/ (venue[x].st = "rest" /\ venue'[x].st = "gone")

LEMMA GoneIs ==
    ASSUME TypeOK, NEW id \in Ids
    PROVE  /\ Gone(venue, id) \in [Ids -> Orders]
           /\ Gone(venue, id)[id].st = IF venue[id].st = "rest" THEN "gone" ELSE venue[id].st
           /\ Gone(venue, id)[id].filled = venue[id].filled
           /\ \A x \in Ids : x # id => Gone(venue, id)[x] = venue[x]
<1>1. venue \in [Ids -> Orders]
  BY DEF TypeOK
<1> DEFINE st == IF venue[id].st = "rest" THEN "gone" ELSE venue[id].st
           o  == [venue[id] EXCEPT !.st = st]
<1>2. Gone(venue, id) = [venue EXCEPT ![id] = o]
  BY <1>1 DEF Gone
<1>3. venue[id] \in Orders /\ st \in {"none", "rest", "late", "refused", "gone"}
  BY <1>1 DEF Orders
<1> HIDE DEF st
<1>4. o.st = st /\ o.filled = venue[id].filled /\ o \in Orders
  BY <1>3 DEF Orders
<1> HIDE DEF o
<1> QED
  BY <1>1, <1>2, <1>4 DEF st

LEMMA VenueSame == ASSUME TypeOK, venue' = venue PROVE VenueKept
BY DEF TypeOK, VenueKept

LEMMA VenueGone == ASSUME TypeOK, NEW id \in Ids, venue' = Gone(venue, id) PROVE VenueKept
<1>1. \A x \in Ids : /\ venue'[x].filled = venue[x].filled
                     /\ venue'[x].st = venue[x].st \/ (venue[x].st = "rest" /\ venue'[x].st = "gone")
  BY GoneIs
<1> QED
  BY <1>1, GoneIs DEF VenueKept

LEMMA TicketsSame == ASSUME TypeOK, adm' = adm PROVE CancelsTickets
BY DEF TypeOK, CancelsTickets

\* The worker takes a command and carries no place.
LEMMA TakenWorks ==
    ASSUME MakerOrdersAssumption, TypeOK, TakeNext, hand' = hand,
           UNCHANGED <<slot, cov, sweep, uncertain, mode, forgotten, barrier, snap>>,
           CancelsTickets, VenueKept, Answers
    PROVE  Works
<1>1. Carries
  BY Taken DEF Carries
<1> QED
  BY <1>1, Taken DEF Works, CancelsTickets, VenueKept

LEMMA Reworded ==
    ASSUME NEW c, c = Command(c.op, c.id, c.old), NEW op
    PROVE  LET d == [c EXCEPT !.op = op]
           IN  d.op = op /\ d.id = c.id /\ d = Command(d.op, d.id, d.old)
BY DEF Command

LEMMA CheckPlaceWorks == ASSUME MakerOrdersAssumption, Sound, CheckPlace PROVE Works
<1>1. /\ TypeOK /\ TakeNext /\ NextCommand.op = "place"
      /\ UNCHANGED <<slot, cov, sweep, uncertain, mode, forgotten, barrier, snap, venue>>
  BY DEF Sound, CheckPlace
<1>2. NextCommand.id \in Ids /\ hand = NoCommand
  BY <1>1, Taken DEF CommandOK
<1>3. CASE RejectUnsent(NextCommand.id, <<>>, <<>>) /\ UNCHANGED hand
  BY <1>1, <1>2, <1>3, ProvenNone, Rejected, VenueSame, TakenWorks
<1>4. CASE hand' = [NextCommand EXCEPT !.op = "checked"] /\ UNCHANGED <<adm, events>>
  <2>1. hand'.op = "checked" /\ hand'.id = NextCommand.id /\ hand' = Command(hand'.op, hand'.id, hand'.old)
    <3>1. NextCommand = Command(NextCommand.op, NextCommand.id, NextCommand.old)
      BY <1>1, Taken DEF CommandOK, Commands, Command
    <3> QED
      BY <1>4, <3>1, Reworded
  <2>2. Carries
    BY <1>1, <2>1, Taken DEF Carries
  <2>3. Answers /\ CancelsTickets /\ VenueKept
    BY <1>1, <1>4, SaidNothing, TicketsSame, VenueSame
  <2> QED
    BY <1>1, <2>2, <2>3, Taken DEF Works, CancelsTickets, VenueKept
<1> QED
  BY <1>3, <1>4 DEF CheckPlace

\* A checked place that is refused its ticket, or whose time is up.
RefusesPlace ==
    /\ ClaimPlace /\ hand' = NoCommand

LEMMA RefusesPlaceWorks == ASSUME MakerOrdersAssumption, Sound, RefusesPlace PROVE Works
<1>1. /\ TypeOK /\ hand.op = "checked" /\ hand' = NoCommand
      /\ UNCHANGED <<slot, cov, sweep, uncertain, mode, forgotten, barrier, snap, venue, prio, fifo, followup>>
  BY DEF Sound, RefusesPlace, ClaimPlace, laneVars
<1>2. RejectUnsent(hand.id, <<>>, <<>>) /\ hand.id \in Ids
  <2>1. hand # NoCommand /\ hand.id \in Ids /\ hand = Command(hand.op, hand.id, hand.old)
    BY <1>1, NothingSent DEF TypeOK
  <2>2. [hand EXCEPT !.op = "place"] # NoCommand
    BY <2>1, NothingSent, Reworded
  <2> QED
    BY <1>1, <2>1, <2>2 DEF RefusesPlace, ClaimPlace
<1>3. Answers /\ CancelsTickets /\ VenueKept
  BY <1>1, <1>2, ProvenNone, Rejected, VenueSame
<1>4. Carries
  BY <1>1 DEF Carries
<1> QED
  BY <1>1, <1>3, <1>4 DEF Works, CancelsTickets, VenueKept, Shrinks

LEMMA DoCancelWorks == ASSUME MakerOrdersAssumption, Sound, DoCancel PROVE Works
<1>1. /\ TypeOK /\ Tickets /\ Claims /\ TakeNext /\ NextCommand.op = "cancel"
      /\ UNCHANGED <<slot, adm, cov, sweep, uncertain, mode, forgotten, barrier, snap, hand>>
  BY DEF Sound, DoCancel, stratVars
<1>2. NextCommand.id \in Ids /\ adm[NextCommand.id] \in {"cancelled", "claimed"} /\ hand = NoCommand
  BY <1>1, Taken DEF CommandOK, Tickets
<1> DEFINE id == NextCommand.id
<1>3. CancelsTickets /\ (venue[id].st = "none" => adm[id] = "cancelled") /\ venue[id].st \in {"none", "rest", "late", "refused", "gone"}
  BY <1>1, <1>2, TicketsSame, NothingSent DEF Claims, TypeOK, Orders
<1>4. ASSUME NEW o \in CancelOutcomes(id), venue' = Gone(venue, id),
             Say(<<Event(IF o = "FilledOrExpired" THEN "CancelReject" ELSE "CancelAck", id)>>)
      PROVE  Works
  <2>1. CASE o = "FilledOrExpired"
    <3>1. Say(<<Event("CancelReject", id)>>)
      BY <1>4, <2>1
    <3> QED
      BY <1>1, <1>2, <1>3, <1>4, <3>1, ProvenCancelReject, Said, VenueGone, TakenWorks
  <2>2. CASE o # "FilledOrExpired"
    <3>1. Say(<<Event("CancelAck", id)>>)
      BY <1>4, <2>2
    <3>2. adm'[id] = "cancelled" \/ venue'[id].st \in {"gone", "refused", "late"}
      BY <1>1, <1>2, <1>3, <1>4, GoneIs
    <3> QED
      BY <1>1, <1>2, <1>3, <1>4, <3>1, <3>2, ProvenCancelAck, Said, VenueGone, TakenWorks
  <2> QED
    BY <2>1, <2>2
<1>5. CASE venue' \in {venue, Gone(venue, id)} /\ Say(<<Event("CancelReject", id)>>)
  BY <1>1, <1>2, <1>3, <1>5, ProvenCancelReject, Said, VenueGone, VenueSame, TakenWorks
<1>6. CASE venue' = venue /\ Say(Limited(<<Event("CancelReject", id)>>))
  BY <1>1, <1>2, <1>3, <1>6, ProvenCancelReject, ProvenLimited, Said, VenueSame, TakenWorks
<1> QED
  BY <1>4, <1>5, <1>6 DEF DoCancel

LEMMA DoReplaceWorks == ASSUME MakerOrdersAssumption, Sound, DoReplace PROVE Works
<1>1. /\ TypeOK /\ Tickets /\ Claims /\ SlotIsTrue /\ NextCommand.op = "replace"
      /\ UNCHANGED <<slot, cov, sweep, uncertain, mode, forgotten, barrier, snap, hand, prio>>
      /\ hand = NoCommand /\ prio = <<>> /\ followup = NoCommand /\ fifo' = Tail(fifo)
  BY DEF Sound, DoReplace
<1>2. fifo # <<>> /\ NextCommand = Head(fifo)
  BY <1>1, NothingSent DEF NextCommand
<1>3. Head(fifo) = fifo[1] /\ 1 \in 1 .. Len(fifo) /\ CommandOK(Head(fifo)) /\ Head(fifo).op = "replace"
  BY <1>1, <1>2, FirstOfLane
<1> DEFINE old == Head(fifo).old
           new == Head(fifo).id
<1>4. old \in Ids /\ new \in Ids /\ venue[old].st \in {"rest", "gone"}
  BY <1>1, <1>3 DEF CommandOK, SlotIsTrue
<1>5. venue[old].st = "rest" => venue[old].filled < Lots
  BY <1>1, <1>4 DEF Claims, TypeOK, Orders, MakerOrdersAssumption
<1>6. Shrinks(prio, prio') /\ Shrinks(fifo, fifo')
  BY <1>1, <1>2 DEF Shrinks
<1>7. PICK o \in CancelOutcomes(old) \cup {"Unknown"} :
            /\ IF o = "Unknown" THEN Trouble /\ venue' \in {venue, Gone(venue, old)}
               ELSE venue' = Gone(venue, old) /\ UNCHANGED troubles
            /\ LET answer == Event(IF o \in {"Canceled", "AlreadyGone"} THEN "CancelAck" ELSE "CancelReject", old)
               IN IF PlaceFollows(o)
                  THEN followup' = Command("place", new, NoId) /\ Say(<<answer>>) /\ UNCHANGED adm
                  ELSE RejectUnsent(new, <<answer>>, <<>>) /\ UNCHANGED followup
  BY <1>2 DEF DoReplace
<1>8. VenueKept
  BY <1>1, <1>4, <1>7, VenueGone, VenueSame
<1>9. o # "Unknown" => venue'[old].st = "gone" /\ venue'[old].filled = venue[old].filled
  BY <1>1, <1>4, <1>7, GoneIs
<1> DEFINE kind == IF o \in {"Canceled", "AlreadyGone"} THEN "CancelAck" ELSE "CancelReject"
<1>10. ProvenAll(<<Event(kind, old)>>)
  <2>1. CASE o \in {"Canceled", "AlreadyGone"}
    BY <1>4, <1>9, <2>1, ProvenCancelAck
  <2>2. CASE o \notin {"Canceled", "AlreadyGone"}
    BY <1>4, <2>2, ProvenCancelReject
  <2> QED
    BY <2>1, <2>2
<1> HIDE DEF kind
<1>11. CASE PlaceFollows(o)
  <2>1. followup' = Command("place", new, NoId) /\ Say(<<Event(kind, old)>>) /\ UNCHANGED adm
    BY <1>7, <1>11 DEF kind
  <2>2. Answers /\ CancelsTickets
    BY <1>1, <1>10, <2>1, Said, TicketsSame
  <2>3. venue'[old].st = "gone" /\ venue'[old].filled < Lots
    <3>1. o = "Canceled"
      BY <1>11 DEF PlaceFollows
    <3>2. venue[old].st = "rest"
      BY <1>4, <3>1 DEF CancelOutcomes
    <3> QED
      BY <1>5, <1>9, <3>1, <3>2
  <2>4. Carries
    BY <1>1, <1>2, <1>3, <2>1, <2>3 DEF Carries
  <2> QED
    BY <1>1, <1>6, <1>8, <2>2, <2>4 DEF Works, CancelsTickets, VenueKept
<1>12. CASE ~PlaceFollows(o)
  <2>1. RejectUnsent(new, <<Event(kind, old)>>, <<>>) /\ UNCHANGED followup
    BY <1>7, <1>12 DEF kind
  <2>2. Answers /\ CancelsTickets
    BY <1>1, <1>4, <1>10, <2>1, ProvenNone, Rejected
  <2>3. Carries
    BY <1>1, <2>1 DEF Carries
  <2> QED
    BY <1>1, <1>6, <1>8, <2>2, <2>3 DEF Works, CancelsTickets, VenueKept
<1> QED
  BY <1>11, <1>12

LEMMA DoCancelAllWorks == ASSUME MakerOrdersAssumption, Sound, DoCancelAll PROVE Works
<1>1. /\ TypeOK /\ TakeNext /\ UNCHANGED <<slot, adm, cov, sweep, uncertain, mode, forgotten, barrier, snap, hand>>
  BY DEF Sound, DoCancelAll, stratVars
<1>2. CancelsTickets /\ hand' = hand
  BY <1>1, TicketsSame
<1>3. CASE venue' = [i \in Ids |-> Gone(venue, i)[i]] /\ UNCHANGED events
  <2>1. \A i \in Ids : /\ venue'[i] = Gone(venue, i)[i] /\ venue'[i] \in Orders
                       /\ venue'[i].filled = venue[i].filled
                       /\ venue'[i].st = venue[i].st \/ (venue[i].st = "rest" /\ venue'[i].st = "gone")
    BY <1>1, <1>3, GoneIs
  <2>2. VenueKept
    BY <1>3, <2>1 DEF VenueKept
  <2> QED
    BY <1>1, <1>2, <1>3, <2>2, SaidNothing, TakenWorks
<1>4. CASE venue' = venue /\ (UNCHANGED events \/ Say(Limited(<<>>)))
  BY <1>1, <1>2, <1>4, ProvenNone, ProvenLimited, Said, SaidNothing, VenueSame, TakenWorks
<1> QED
  BY <1>3, <1>4 DEF DoCancelAll

LEMMA DoBarrierWorks == ASSUME MakerOrdersAssumption, Sound, DoBarrier PROVE Works
<1>1. /\ TypeOK /\ TakeNext /\ UNCHANGED <<slot, adm, cov, sweep, uncertain, mode, forgotten, hand, events, venue>>
      /\ NextCommand.op = "barrier" /\ barrier' = "completed" /\ snap' = NoSnapshot
  BY DEF Sound, DoBarrier, stratVars
<1>2. Completes
  BY <1>1, Taken DEF Completes
<1>3. Carries
  BY <1>1, Taken DEF Carries
<1>4. Answers /\ CancelsTickets /\ VenueKept
  BY <1>1, SaidNothing, TicketsSame, VenueSame
<1> QED
  BY <1>1, <1>2, <1>3, <1>4, Taken DEF Works, CancelsTickets, VenueKept

LEMMA RefuseUnsentWorks == ASSUME MakerOrdersAssumption, Sound, RefuseUnsent PROVE Works
<1>1. /\ TypeOK /\ TakeNext /\ UNCHANGED <<slot, cov, sweep, uncertain, mode, forgotten, hand, venue, barrier, snap>>
      /\ NextCommand.op # "barrier"
  BY DEF Sound, RefuseUnsent
<1> DEFINE c == NextCommand
<1>2. CommandOK(c) /\ VenueKept
  BY <1>1, Taken, VenueSame
<1>3. ProvenAll(Limited(<<>>)) /\ ProvenAll(<<>>)
  BY ProvenNone, ProvenLimited
<1>4. CASE c.op = "place"
  <2>1. RejectUnsent(c.id, <<>>, Limited(<<>>)) /\ c.id \in Ids
    BY <1>2, <1>4 DEF RefuseUnsent, CommandOK
  <2> QED
    BY <1>1, <1>2, <1>3, <2>1, Rejected, TakenWorks
<1>5. CASE c.op = "cancel"
  <2>1. Say(Limited(<<Event("CancelReject", c.id)>>)) /\ UNCHANGED adm /\ c.id \in Ids
    BY <1>2, <1>5 DEF RefuseUnsent, CommandOK
  <2> QED
    BY <1>1, <1>2, <2>1, ProvenCancelReject, ProvenLimited, Said, TicketsSame, TakenWorks
<1>6. CASE c.op = "replace"
  <2>1. RejectUnsent(c.id, <<Event("CancelReject", c.old)>>, Limited(<<>>)) /\ c.id \in Ids /\ c.old \in Ids
    BY <1>2, <1>6 DEF RefuseUnsent, CommandOK
  <2> QED
    BY <1>1, <1>2, <1>3, <2>1, ProvenCancelReject, Rejected, TakenWorks
<1>7. CASE c.op \notin {"place", "cancel", "replace"}
  <2>1. Say(Limited(<<>>)) /\ UNCHANGED adm
    BY <1>7 DEF RefuseUnsent
  <2> QED
    BY <1>1, <1>2, <1>3, <2>1, Said, TicketsSame, TakenWorks
<1> QED
  BY <1>4, <1>5, <1>6, <1>7

LEMMA DeadmanWorks == ASSUME MakerOrdersAssumption, Sound, DeadmanFires PROVE Works
<1>1. /\ TypeOK
      /\ UNCHANGED <<slot, adm, cov, sweep, uncertain, mode, forgotten, hand, followup, prio, fifo, barrier, snap, events>>
  BY DEF Sound, DeadmanFires, stratVars, laneVars, workVars
<1>2. VenueKept
  BY <1>1, VenueGone DEF DeadmanFires
<1>3. Answers /\ CancelsTickets
  BY <1>1, SaidNothing, TicketsSame
<1> QED
  BY <1>1, <1>2, <1>3 DEF Works, Carries, Shrinks, CancelsTickets, VenueKept

LEMMA BackfillWorks == ASSUME MakerOrdersAssumption, Sound, Backfill PROVE Works
<1>1. /\ TypeOK
      /\ UNCHANGED <<slot, adm, cov, sweep, uncertain, mode, forgotten, hand, followup, prio, fifo, barrier, snap, venue>>
  BY DEF Sound, Backfill, stratVars, laneVars, workVars
<1>2. PICK id \in uncertain : Say(<<[kind |-> IF venue[id].st = "gone" THEN "Terminal" ELSE "Resting",
                                   id |-> id, cum |-> venue[id].filled]>>)
  BY DEF Backfill
<1> DEFINE kind == IF venue[id].st = "gone" THEN "Terminal" ELSE "Resting"
           e == [kind |-> kind, id |-> id, cum |-> venue[id].filled]
<1>3. id \in Ids /\ venue[id].filled \in 0 .. Lots /\ venue' = venue
  BY <1>1 DEF TypeOK, Orders
<1>4. kind \in {"Terminal", "Resting"} /\ (kind = "Terminal" => venue[id].st = "gone")
  OBVIOUS
<1> HIDE DEF kind
<1>5. e.kind = kind /\ e.id = id /\ e.cum = venue[id].filled /\ e \in Events
  BY <1>3, <1>4 DEF Events
<1>6. Say(<<e>>)
  BY <1>2 DEF kind
<1> HIDE DEF e
<1>7. venue[id].filled <= venue'[id].filled
  BY <1>3, <1>1 DEF MakerOrdersAssumption
<1>8. Proven(e)
  BY <1>3, <1>4, <1>5, <1>7 DEF Proven
<1>9. Answers /\ CancelsTickets /\ VenueKept
  BY <1>1, <1>5, <1>6, <1>8, ProvenOne, Said, TicketsSame, VenueSame
<1> QED
  BY <1>1, <1>9 DEF Works, Carries, Shrinks, CancelsTickets, VenueKept

LEMMA StutterWorks == ASSUME MakerOrdersAssumption, Sound, UNCHANGED vars PROVE Works
<1>1. /\ TypeOK
      /\ UNCHANGED <<slot, adm, cov, sweep, uncertain, mode, forgotten, hand, followup, prio, fifo, barrier, snap, venue, events>>
  BY DEF Sound, vars, stratVars, laneVars, workVars
<1>2. Answers /\ CancelsTickets /\ VenueKept
  BY <1>1, SaidNothing, TicketsSame, VenueSame
<1> QED
  BY <1>1, <1>2 DEF Works, Carries, Shrinks, CancelsTickets, VenueKept

-----------------------------------------------------------------------------
(* The other steps: a place is claimed and answered, the venue fills an    *)
(* order or receives a late one, a snapshot is read, the drain ends, a new *)
(* order is sent.                                                          *)

ClaimsPlace ==
    /\ hand.op = "checked" /\ adm[hand.id] \in {"queued", "revoked"}
    /\ adm' = [adm EXCEPT ![hand.id] = "claimed"] /\ hand' = [hand EXCEPT !.op = "place"]
    /\ UNCHANGED <<slot, cov, sweep, uncertain, mode, prio, fifo, followup, barrier, events, venue, snap, forgotten>>

LEMMA ClaimSplits == ASSUME ClaimPlace PROVE ClaimsPlace \/ RefusesPlace
BY DEF ClaimPlace, ClaimsPlace, RefusesPlace, laneVars

LEMMA ClaimsPlaceSound == ASSUME MakerOrdersAssumption, Sound, ClaimsPlace PROVE Sound'
<1>1. /\ TypeOK /\ Tickets /\ Claims /\ SlotIsTrue /\ Evidence /\ Known /\ Drained
      /\ UNCHANGED <<slot, cov, sweep, uncertain, mode, prio, fifo, followup, barrier, events, venue, snap, forgotten>>
  BY DEF Sound, ClaimsPlace
<1>2. PICK id \in Ids : id = hand.id
  BY NothingSent DEF Sound, TypeOK, ClaimsPlace
<1>3. hand.op = "checked" /\ hand.id = id /\ adm[id] \in {"queued", "revoked"} /\ adm \in [Ids -> Admissions]
      /\ hand = Command(hand.op, hand.id, hand.old)
  BY <1>2, NothingSent DEF Sound, TypeOK, ClaimsPlace
<1>4. hand'.op = "place" /\ hand'.id = id /\ hand' = Command(hand'.op, hand'.id, hand'.old)
  BY <1>3, Reworded DEF ClaimsPlace
<1>5. /\ adm' \in [Ids -> Admissions] /\ adm'[id] = "claimed"
      /\ \A x \in Ids : x # id => adm'[x] = adm[x]
  BY <1>2, <1>3 DEF ClaimsPlace, Admissions
<1>6. TypeOK'
  BY <1>1, <1>2, <1>4, <1>5 DEF TypeOK
<1>7. \A x : (Queued(x)' <=> Queued(x)) /\ (Sending(x)' <=> Sending(x))
  BY <1>1, <1>3, <1>4 DEF Queued, Sending
<1>8. Tickets'
  <2>1. {slot.id, slot.next} \ {NoId} \subseteq Ids
    BY <1>1 DEF TypeOK, SlotOK, Slots
  <2>2. /\ \A k \in 1 .. Len(prio) : prio[k].id \in Ids
        /\ \A k \in 1 .. Len(fifo) : fifo[k].op = "cancel" => fifo[k].id \in Ids
    BY <1>1 DEF TypeOK, CommandOK
  <2>3. \A x \in Ids : adm'[x] \in {"queued", "revoked"} => x = Ticket(slot')
    BY <1>1, <1>5 DEF Tickets
  <2>4. \A x \in {slot'.id, slot'.next} \ {NoId} : adm'[x] # "none"
    BY <1>1, <1>5, <2>1 DEF Tickets
  <2>5. \A x \in Ids : Sending(x)' => adm'[x] \in {"queued", "revoked", "cancelled"} \/ (hand'.op = "place" /\ hand'.id = x)
    BY <1>1, <1>3, <1>4, <1>5, <1>7 DEF Tickets
  <2>6. /\ \A x \in Ids : followup'.id = x => ~Queued(x)'
        /\ \A x \in Ids : hand'.id = x => ~Queued(x)' /\ followup'.id # x
    BY <1>1, <1>3, <1>4, <1>7 DEF Tickets
  <2>7. /\ \A k \in 1 .. Len(prio') : adm'[prio'[k].id] \in {"cancelled", "claimed"}
        /\ \A k \in 1 .. Len(fifo') : fifo'[k].op = "cancel" => adm'[fifo'[k].id] \in {"cancelled", "claimed"}
    BY <1>1, <1>5, <2>2 DEF Tickets
  <2>8. \A j, k \in 1 .. Len(fifo') : Placing(fifo'[j]) /\ Placing(fifo'[k]) /\ fifo'[j].id = fifo'[k].id => j = k
    BY <1>1 DEF Tickets
  <2> QED
    BY <2>3, <2>4, <2>5, <2>6, <2>7, <2>8 DEF Tickets
<1>9. venue[id].st = "none"
  BY <1>1, <1>3 DEF Claims
<1>10. Claims'
  BY <1>1, <1>3, <1>4, <1>5, <1>9 DEF Claims
<1>11. SlotIsTrue'
  <2>1. slot.next # NoId => slot.next \in Ids
    BY <1>1 DEF TypeOK, SlotOK, Slots
  <2>2. slot.next # NoId /\ (hand'.id = slot.next \/ adm'[slot.next] = "claimed") => hand.id = slot.next \/ adm[slot.next] = "claimed"
    BY <1>3, <1>4, <1>5, <2>1
  <2> QED
    BY <1>1, <2>2 DEF SlotIsTrue
<1>12. Evidence'
  <2>1. \A k \in 1 .. Len(events) : events[k].kind # "RateLimited" => events[k].id \in Ids
    BY <1>1 DEF TypeOK
  <2>2. \A x \in Ids : adm[x] = "cancelled" => adm'[x] = "cancelled"
    BY <1>3, <1>5
  <2> QED
    BY <1>1, <2>1, <2>2 DEF Evidence, Over, Told
<1>13. \A x \in Ids : Out(x)' => Out(x) \/ x = id
  BY <1>1, <1>4 DEF Out
<1>14. id = Ticket(slot) /\ ~Out(id) /\ slot # IdleSlot
  <2>1. id = Ticket(slot)
    BY <1>1, <1>3 DEF Tickets
  <2>2. slot # IdleSlot
    BY <2>1, SlotIdle, NoOrder DEF Ticket
  <2> QED
    BY <1>3, <1>9, <2>1, <2>2 DEF Out
<1>15. id \in {slot.id, slot.next}
  BY <1>14 DEF Ticket
<1>16. ASSUME NEW y \in Ids, y # id, Out(y) PROVE y \in forgotten
  <2>1. Out(y) /\ (y \in {slot.id, slot.next} \cup uncertain \/ y \in forgotten)
    BY <1>1, <1>16 DEF Known, Tracked
  <2>2. CASE y \in {slot.id, slot.next}
    <3>1. slot.next # NoId /\ id = slot.next /\ y = slot.id
      BY <1>14, <1>16, <2>2, NoOrder DEF Ticket
    <3>2. venue[y].st = "gone"
      BY <1>1, <1>3, <3>1 DEF SlotIsTrue
    <3> QED
      BY <1>3, <1>16, <3>2 DEF Out
  <2>3. CASE y \in uncertain /\ y \notin {slot.id, slot.next} \cup forgotten
    BY <1>1, <1>14, <2>1, <2>3 DEF Known
  <2> QED
    BY <2>1, <2>2, <2>3
<1>17. Known'
  <2>1. \A x \in Ids : Out(x)' => Tracked(x)' \/ x \in forgotten'
    BY <1>1, <1>13, <1>15 DEF Known, Tracked
  <2>2. \A x, y \in Ids : x # y /\ Out(x)' /\ Out(y)' => x \in forgotten' \/ y \in forgotten'
    BY <1>1, <1>13, <1>16 DEF Known
  <2>3. \A x \in uncertain' : Out(x)' /\ x \notin {slot'.id, slot'.next} \cup forgotten' => slot' = IdleSlot
    <3>1. uncertain \subseteq Ids
      BY <1>1 DEF TypeOK
    <3> QED
      BY <1>1, <1>13, <1>15, <3>1 DEF Known
  <2> QED
    BY <2>1, <2>2, <2>3 DEF Known
<1>18. barrier # "completed"
  BY <1>1, <1>3, NothingSent DEF Drained
<1>19. Drained'
  BY <1>1, <1>18 DEF Drained
<1> QED
  BY <1>6, <1>8, <1>10, <1>11, <1>12, <1>17, <1>19 DEF Sound

\* What the answer to a place tells.
LEMMA PlaceAnswered ==
    ASSUME MakerOrdersAssumption, Sound, AnswerPlace
    PROVE  \E id \in Ids :
             /\ hand.op = "place" /\ hand.id = id /\ hand' = NoCommand
             /\ UNCHANGED <<slot, adm, cov, sweep, uncertain, mode, prio, fifo, followup, barrier, snap, forgotten>>
             /\ venue' \in [Ids -> Orders] /\ venue'[id].filled = venue[id].filled /\ \A x \in Ids : x # id => venue'[x] = venue[x]
             /\ events' \in Seq(Events) /\ Extends(events, events')
             /\ \/ /\ venue'[id].st = "rest"
                   /\ \A k \in 1 .. Len(events') : k \in 1 .. Len(events) \/
                        (k = Len(events) + 1 /\ events'[k].kind = "PlaceAck" /\ events'[k].id = id)
                \/ /\ venue'[id].st = "refused"
                   /\ \A k \in 1 .. Len(events') : k \in 1 .. Len(events) \/
                        (events'[k].kind \in {"PlaceReject", "RateLimited"} /\ (events'[k].kind = "PlaceReject" => events'[k].id = id))
                \/ /\ venue'[id].st \in {"rest", "late", "refused"}
                   /\ Len(events) + 1 \in 1 .. Len(events')
                   /\ \A k \in 1 .. Len(events') : k \in 1 .. Len(events) \/
                        (k = Len(events) + 1 /\ events'[k].kind = "PlaceUnknown" /\ events'[k].id = id)
<1>1. /\ TypeOK /\ events \in Seq(Events) /\ venue \in [Ids -> Orders] /\ hand.op = "place" /\ hand' = NoCommand
      /\ UNCHANGED <<slot, adm, cov, sweep, uncertain, mode, prio, fifo, followup, barrier, snap, forgotten>>
  BY DEF Sound, TypeOK, AnswerPlace, stratVars, laneVars
<1>2. PICK id \in Ids : id = hand.id
  BY <1>1, NothingSent DEF TypeOK
<1>3. ASSUME NEW st \in {"rest", "late", "refused"}, venue' = [venue EXCEPT ![id].st = st]
      PROVE  /\ venue' \in [Ids -> Orders] /\ venue'[id].filled = venue[id].filled /\ venue'[id].st = st
             /\ \A x \in Ids : x # id => venue'[x] = venue[x]
  <2> DEFINE o == [venue[id] EXCEPT !.st = st]
  <2>1. venue' = [venue EXCEPT ![id] = o]
    BY <1>3
  <2>2. o.st = st /\ o.filled = venue[id].filled /\ o \in Orders
    BY <1>1, <1>3 DEF Orders
  <2> HIDE DEF o
  <2> QED
    BY <1>1, <2>1, <2>2
<1>4. ASSUME NEW e \in Events, Say(<<e>>)
      PROVE  /\ events' \in Seq(Events) /\ Extends(events, events') /\ Len(events) + 1 \in 1 .. Len(events')
             /\ \A k \in 1 .. Len(events') : k \in 1 .. Len(events) \/ (k = Len(events) + 1 /\ events'[k] = e)
  <2>1. events' = Append(events, e) /\ Len(events) \in Nat
    BY <1>1, <1>4, AppendIsConcat, LenProperties DEF Say
  <2> QED
    BY <1>1, <2>1, Appended
<1>5. CASE venue' = [venue EXCEPT ![id].st = "rest"] /\ Say(<<Event("PlaceAck", id)>>)
  <2> DEFINE e == Event("PlaceAck", id)
  <2>1. e \in Events /\ e.kind = "PlaceAck" /\ e.id = id /\ Say(<<e>>)
    BY <1>5, EventIs
  <2> HIDE DEF e
  <2> QED
    BY <1>1, <1>2, <1>3, <1>4, <1>5, <2>1
<1>6. CASE venue' = [venue EXCEPT ![id].st = "refused"] /\ Say(<<Event("PlaceReject", id)>>)
  <2> DEFINE e == Event("PlaceReject", id)
  <2>1. e \in Events /\ e.kind = "PlaceReject" /\ e.id = id /\ Say(<<e>>)
    BY <1>6, EventIs
  <2> HIDE DEF e
  <2> QED
    BY <1>1, <1>2, <1>3, <1>4, <1>6, <2>1
<1>7. CASE venue' = [venue EXCEPT ![id].st = "refused"] /\ Say(Limited(<<Event("PlaceReject", id)>>))
  <2> DEFINE e == Event("PlaceReject", id)
             f == Event("RateLimited", NoId)
             es == <<e>> \o <<f>>
  <2>1. e \in Events /\ e.kind = "PlaceReject" /\ e.id = id /\ f \in Events /\ f.kind = "RateLimited"
    BY EventIs
  <2>2. events' = events \o es
    BY <1>7 DEF Say, Limited
  <2> HIDE DEF e, f
  <2>4. es \in Seq(Events) /\ \A k \in 1 .. Len(es) : es[k] \in {e, f}
    BY <2>1, PairOf
  <2> HIDE DEF es
  <2>6. /\ events' \in Seq(Events) /\ Extends(events, events')
        /\ \A k \in 1 .. Len(events') : k \in 1 .. Len(events) \/ (k - Len(events) \in 1 .. Len(es) /\ events'[k] = es[k - Len(events)])
    BY <1>1, <2>2, <2>4, Joined
  <2>7. \A k \in 1 .. Len(events') : k \in 1 .. Len(events) \/ events'[k] = e \/ events'[k] = f
    BY <2>4, <2>6
  <2> QED
    BY <1>1, <1>2, <1>3, <1>7, <2>1, <2>6, <2>7
<1>8. ASSUME NEW st \in {"rest", "late", "refused"}, venue' = [venue EXCEPT ![id].st = st], Say(<<Event("PlaceUnknown", id)>>)
      PROVE  /\ venue' \in [Ids -> Orders] /\ venue'[id].filled = venue[id].filled /\ \A x \in Ids : x # id => venue'[x] = venue[x]
             /\ events' \in Seq(Events) /\ Extends(events, events')
             /\ venue'[id].st \in {"rest", "late", "refused"}
             /\ Len(events) + 1 \in 1 .. Len(events')
             /\ \A k \in 1 .. Len(events') : k \in 1 .. Len(events) \/
                        (k = Len(events) + 1 /\ events'[k].kind = "PlaceUnknown" /\ events'[k].id = id)
  <2> DEFINE e == Event("PlaceUnknown", id)
  <2>1. e \in Events /\ e.kind = "PlaceUnknown" /\ e.id = id /\ Say(<<e>>)
    BY <1>8, EventIs
  <2> HIDE DEF e
  <2> QED
    BY <1>1, <1>2, <1>3, <1>4, <1>8, <2>1
<1>9. \/ venue' = [venue EXCEPT ![id].st = "rest"] /\ Say(<<Event("PlaceAck", id)>>)
      \/ venue' = [venue EXCEPT ![id].st = "refused"] /\ Say(<<Event("PlaceReject", id)>>)
      \/ venue' = [venue EXCEPT ![id].st = "refused"] /\ Say(Limited(<<Event("PlaceReject", id)>>))
      \/ \E st \in {"rest", "late", "refused"} : venue' = [venue EXCEPT ![id].st = st] /\ Say(<<Event("PlaceUnknown", id)>>)
  BY <1>2 DEF AnswerPlace
<1> QED
  BY <1>1, <1>2, <1>5, <1>6, <1>7, <1>8, <1>9

LEMMA AnswerPlaceSound == ASSUME MakerOrdersAssumption, Sound, AnswerPlace PROVE Sound'
<1>1. TypeOK /\ Tickets /\ Claims /\ SlotIsTrue /\ Evidence /\ Known /\ Drained
  BY DEF Sound
<1>2. PICK id \in Ids :
         /\ hand.op = "place" /\ hand.id = id /\ hand' = NoCommand
         /\ UNCHANGED <<slot, adm, cov, sweep, uncertain, mode, prio, fifo, followup, barrier, snap, forgotten>>
         /\ venue' \in [Ids -> Orders] /\ venue'[id].filled = venue[id].filled /\ \A x \in Ids : x # id => venue'[x] = venue[x]
         /\ events' \in Seq(Events) /\ Extends(events, events')
         /\ \/ /\ venue'[id].st = "rest"
               /\ \A k \in 1 .. Len(events') : k \in 1 .. Len(events) \/
                    (k = Len(events) + 1 /\ events'[k].kind = "PlaceAck" /\ events'[k].id = id)
            \/ /\ venue'[id].st = "refused"
               /\ \A k \in 1 .. Len(events') : k \in 1 .. Len(events) \/
                    (events'[k].kind \in {"PlaceReject", "RateLimited"} /\ (events'[k].kind = "PlaceReject" => events'[k].id = id))
            \/ /\ venue'[id].st \in {"rest", "late", "refused"}
               /\ Len(events) + 1 \in 1 .. Len(events')
               /\ \A k \in 1 .. Len(events') : k \in 1 .. Len(events) \/
                    (k = Len(events) + 1 /\ events'[k].kind = "PlaceUnknown" /\ events'[k].id = id)
  BY PlaceAnswered
<1>3. venue[id].st = "none" /\ adm[id] = "claimed" /\ hand # NoCommand /\ ~Queued(id) /\ followup.id # id
  BY <1>1, <1>2, NothingSent DEF Claims, Tickets
<1>4. /\ venue'[id].st \in {"rest", "late", "refused"}
      /\ UNCHANGED <<slot, adm, cov, sweep, uncertain, mode, prio, fifo, followup, barrier, snap, forgotten>>
      /\ venue'[id].filled = venue[id].filled /\ \A x \in Ids : x # id => venue'[x] = venue[x]
  BY <1>2
<1>5. /\ Len(events) \in Nat /\ Len(events') \in Nat /\ Len(events) <= Len(events')
      /\ \A k \in 1 .. Len(events) : events'[k] = events[k]
      /\ \A k \in 1 .. Len(events) : events[k].kind # "RateLimited" => events[k].id \in Ids
  BY <1>1, <1>2 DEF Extends, TypeOK
<1>6. TypeOK'
  <2>1. \A k \in 1 .. Len(events') : events'[k].kind # "RateLimited" => events'[k].id \in Ids
    BY <1>2, <1>5
  <2>2. \A x \in Ids : cov'[x] <= venue'[x].filled
    BY <1>1, <1>4 DEF TypeOK
  <2> QED
    BY <1>1, <1>2, <2>1, <2>2 DEF TypeOK
<1>7. \A x \in Ids : Sending(x)' => Sending(x) /\ x # id
  BY <1>2, <1>3, NothingSent DEF Sending, Queued
<1>8. Tickets'
  <2>1. /\ \A x \in Ids : adm'[x] \in {"queued", "revoked"} => x = Ticket(slot')
        /\ \A x \in {slot'.id, slot'.next} \ {NoId} : adm'[x] # "none"
        /\ \A j, k \in 1 .. Len(fifo') : Placing(fifo'[j]) /\ Placing(fifo'[k]) /\ fifo'[j].id = fifo'[k].id => j = k
        /\ \A k \in 1 .. Len(prio') : adm'[prio'[k].id] \in {"cancelled", "claimed"}
        /\ \A k \in 1 .. Len(fifo') : fifo'[k].op = "cancel" => adm'[fifo'[k].id] \in {"cancelled", "claimed"}
    BY <1>1, <1>4 DEF Tickets
  <2>2. \A x \in Ids : Sending(x)' => adm'[x] \in {"queued", "revoked", "cancelled"} \/ (hand'.op = "place" /\ hand'.id = x)
    BY <1>1, <1>2, <1>7 DEF Tickets
  <2>3. /\ \A x \in Ids : followup'.id = x => ~Queued(x)'
        /\ \A x \in Ids : hand'.id = x => ~Queued(x)' /\ followup'.id # x
    BY <1>1, <1>2, NothingSent DEF Tickets, Queued
  <2> QED
    BY <2>1, <2>2, <2>3 DEF Tickets
<1>9. Claims'
  BY <1>1, <1>2, <1>3, NothingSent DEF Claims
<1>a. slot.id # id \/ ~slot.acked
  BY <1>1, <1>3 DEF SlotIsTrue
<1>10. SlotIsTrue'
  <2>1. slot.id \in Ids \cup {NoId} /\ slot.next \in Ids \cup {NoId} /\ (slot.next # NoId => slot.id \in Ids)
        /\ (slot.acked => slot.id \in Ids)
    BY <1>1, SlotIdle DEF TypeOK, SlotOK, Slots
  <2>2. slot'.id \in Ids => slot'.filled <= venue'[slot'.id].filled
    BY <1>1, <1>4 DEF SlotIsTrue
  <2>3. slot'.acked => venue'[slot'.id].st \in {"rest", "gone"}
    BY <1>1, <1>4, <1>a, <2>1 DEF SlotIsTrue
  <2>4. \A k \in 1 .. Len(fifo') :
           /\ fifo'[k].op = "replace" => venue'[fifo'[k].old].st \in {"rest", "gone"}
           /\ Placing(fifo'[k]) /\ fifo'[k].id = slot'.next => fifo'[k].op = "replace" /\ fifo'[k].old = slot'.id
    <3>1. \A k \in 1 .. Len(fifo) : fifo[k].op = "replace" => fifo[k].old \in Ids
      BY <1>1 DEF TypeOK, CommandOK
    <3> QED
      BY <1>1, <1>3, <1>4, <3>1 DEF SlotIsTrue
  <2>5. slot'.next # NoId /\ (followup'.id = slot'.next \/ hand'.id = slot'.next \/ adm'[slot'.next] = "claimed") =>
           venue'[slot'.id].st = "gone" /\ venue'[slot'.id].filled < Lots
    <3>1. ASSUME slot.next # NoId, followup.id = slot.next \/ adm[slot.next] = "claimed"
          PROVE  venue'[slot.id].st = "gone" /\ venue'[slot.id].filled < Lots
      <4>1. venue[slot.id].st = "gone" /\ venue[slot.id].filled < Lots
        BY <1>1, <3>1 DEF SlotIsTrue
      <4> QED
        BY <1>3, <1>4, <2>1, <3>1, <4>1
    <3> QED
      BY <1>2, <2>1, <3>1, NothingSent
  <2> QED
    BY <2>2, <2>3, <2>4, <2>5 DEF SlotIsTrue
<1>11. Evidence'
  <2>1. ASSUME NEW k \in 1 .. Len(events), NEW e, e = events[k]
        PROVE  /\ e.kind = "PlaceReject" => adm'[e.id] = "cancelled" \/ venue'[e.id].st = "refused"
               /\ e.kind = "PlaceAck" => e.id # id /\ venue'[e.id].st \in {"rest", "gone"} /\ (slot.id = e.id => ~slot.acked)
               /\ e.kind = "CancelAck" =>
                    \/ Over(e.id)'
                    \/ /\ venue'[e.id].st # "none" /\ (slot.id = e.id => ~slot.acked)
                       /\ ~Told({"PlaceAck"}, e.id)'
                       /\ \/ e.id \in uncertain
                          \/ \E j \in 1 .. k - 1 : events'[j].kind = "PlaceUnknown" /\ events'[j].id = e.id
               /\ e.kind = "Terminal" => venue'[e.id].st = "gone"
               /\ e.kind \in {"Terminal", "Resting"} => e.cum <= venue'[e.id].filled
    <3>1. e.kind # "RateLimited" => e.id \in Ids
      BY <1>5, <2>1
    <3>2. /\ e.kind = "PlaceReject" => adm'[e.id] = "cancelled" \/ venue'[e.id].st = "refused"
          /\ e.kind = "PlaceAck" => e.id # id /\ venue'[e.id].st \in {"rest", "gone"} /\ (slot.id = e.id => ~slot.acked)
          /\ e.kind = "Terminal" => venue'[e.id].st = "gone"
          /\ e.kind \in {"Terminal", "Resting"} => e.cum <= venue'[e.id].filled
      BY <1>1, <1>3, <1>4, <2>1, <3>1 DEF Evidence
    <3>3. ASSUME e.kind = "CancelAck"
          PROVE  \/ Over(e.id)'
                 \/ /\ venue'[e.id].st # "none" /\ (slot.id = e.id => ~slot.acked)
                    /\ ~Told({"PlaceAck"}, e.id)'
                    /\ \/ e.id \in uncertain
                       \/ \E j \in 1 .. k - 1 : events'[j].kind = "PlaceUnknown" /\ events'[j].id = e.id
      <4>1. e.id # id
        BY <1>1, <1>3, <2>1, <3>1, <3>3 DEF Evidence, Over
      <4>2. CASE Over(e.id)
        BY <1>4, <3>1, <3>3, <4>1, <4>2 DEF Over
      <4>3. CASE /\ venue[e.id].st # "none" /\ (slot.id = e.id => ~slot.acked)
                 /\ ~Told({"PlaceAck"}, e.id)
                 /\ \/ e.id \in uncertain
                    \/ \E j \in 1 .. k - 1 : events[j].kind = "PlaceUnknown" /\ events[j].id = e.id
        <5>1. ~Told({"PlaceAck"}, e.id)'
          BY <1>2, <1>5, <4>1, <4>3 DEF Told
        <5>2. \A j \in 1 .. k - 1 : events'[j] = events[j]
          BY <1>5, <2>1
        <5> QED
          BY <1>4, <3>1, <3>3, <4>1, <4>3, <5>1, <5>2
      <4> QED
        BY <1>1, <2>1, <3>3, <4>2, <4>3 DEF Evidence
    <3> QED
      BY <3>2, <3>3
  <2>2. ASSUME NEW k \in 1 .. Len(events'), k \notin 1 .. Len(events), NEW e, e = events'[k]
        PROVE  /\ e.kind \notin {"CancelAck", "Terminal", "Resting"}
               /\ e.kind = "PlaceReject" => venue'[e.id].st = "refused"
               /\ e.kind = "PlaceAck" => k = Len(events) + 1 /\ e.id = id /\ venue'[e.id].st \in {"rest", "gone"} /\ (slot.id = e.id => ~slot.acked)
    BY <1>2, <1>a, <2>2
  <2>3. ASSUME NEW k \in 1 .. Len(events'), NEW j \in 1 .. Len(events'), events'[k].kind = "PlaceAck",
               events'[j].kind = "PlaceAck", events'[j].id = events'[k].id
        PROVE  j = k
    <3>1. CASE k \in 1 .. Len(events) /\ j \in 1 .. Len(events)
      BY <1>1, <1>5, <2>3, <3>1 DEF Evidence
    <3>2. CASE k \in 1 .. Len(events) /\ j \notin 1 .. Len(events)
      BY <1>5, <2>1, <2>2, <2>3, <3>2
    <3>3. CASE k \notin 1 .. Len(events) /\ j \in 1 .. Len(events)
      BY <1>5, <2>1, <2>2, <2>3, <3>3
    <3>4. CASE k \notin 1 .. Len(events) /\ j \notin 1 .. Len(events)
      BY <2>2, <2>3, <3>4
    <3> QED
      BY <3>1, <3>2, <3>3, <3>4
  <2>4. ASSUME NEW x \in Ids, venue'[x].st = "late" PROVE x \in uncertain \/ Told({"PlaceUnknown"}, x)'
    <3>1. CASE x = id
      <4>1. Len(events) + 1 \in 1 .. Len(events') /\ Len(events) + 1 \notin 1 .. Len(events)
        BY <1>2, <1>5, <2>4, <3>1
      <4>2. events'[Len(events) + 1].kind = "PlaceUnknown" /\ events'[Len(events) + 1].id = id
        BY <1>2, <2>4, <3>1, <4>1
      <4> QED
        BY <3>1, <4>1, <4>2 DEF Told
    <3>2. CASE x # id
      BY <1>1, <1>4, <1>5, <2>4, <3>2 DEF Evidence, Told
    <3> QED
      BY <3>1, <3>2
  <2>5. ASSUME NEW k \in 1 .. Len(events'), NEW e, e = events'[k]
        PROVE  /\ e.kind = "PlaceReject" => adm'[e.id] = "cancelled" \/ venue'[e.id].st = "refused"
               /\ e.kind = "PlaceAck" => venue'[e.id].st \in {"rest", "gone"} /\ (slot.id = e.id => ~slot.acked)
               /\ e.kind = "CancelAck" =>
                    \/ Over(e.id)'
                    \/ /\ venue'[e.id].st # "none" /\ (slot.id = e.id => ~slot.acked)
                       /\ ~Told({"PlaceAck"}, e.id)'
                       /\ \/ e.id \in uncertain
                          \/ \E j \in 1 .. k - 1 : events'[j].kind = "PlaceUnknown" /\ events'[j].id = e.id
               /\ e.kind = "Terminal" => venue'[e.id].st = "gone"
               /\ e.kind \in {"Terminal", "Resting"} => e.cum <= venue'[e.id].filled
    <3>1. CASE k \in 1 .. Len(events)
      <4>1. e = events[k]
        BY <1>5, <2>5, <3>1
      <4> QED
        BY <2>1, <3>1, <4>1
    <3>2. CASE k \notin 1 .. Len(events)
      BY <2>2, <2>5, <3>2
    <3> QED
      BY <3>1, <3>2
  <2> QED
    BY <1>4, <2>3, <2>4, <2>5 DEF Evidence, Over, Told
<1>12. \A x \in Ids : Out(x)' => Out(x)
  BY <1>2, NothingSent DEF Out
<1>13. Known'
  <2>1. uncertain \subseteq Ids
    BY <1>1 DEF TypeOK
  <2> QED
    BY <1>1, <1>4, <1>12, <2>1 DEF Known, Tracked
<1>14. barrier # "completed"
  BY <1>1, <1>3 DEF Drained
<1>15. Drained'
  BY <1>1, <1>4, <1>14 DEF Drained
<1> QED
  BY <1>6, <1>8, <1>9, <1>10, <1>11, <1>13, <1>15 DEF Sound

-----------------------------------------------------------------------------
(* The venue's own steps, and its readers                                  *)

\* Orders fill or arrive; nothing else moves.
VenueMoves ==
    /\ UNCHANGED <<slot, adm, cov, sweep, uncertain, mode, prio, fifo, followup, hand, barrier, events, snap, forgotten>>
    /\ venue' \in [Ids -> Orders]
    /\ \A x \in Ids :
         \/ venue'[x] = venue[x]
         \/ /\ venue[x].st = "rest" /\ venue[x].filled <= venue'[x].filled
            /\ venue'[x].st \in {"rest", "gone"} /\ (venue'[x].filled = Lots => venue'[x].st = "gone")
         \/ venue[x].st = "late" /\ venue'[x].st = "rest" /\ venue'[x].filled = venue[x].filled

LEMMA VenueFillMoves == ASSUME MakerOrdersAssumption, Sound, VenueFill PROVE VenueMoves
<1>1. UNCHANGED <<slot, adm, cov, sweep, uncertain, mode, prio, fifo, followup, hand, barrier, events, snap, forgotten>>
  BY DEF VenueFill, stratVars, laneVars, workVars
<1>2. venue \in [Ids -> Orders] /\ Lots \in Nat /\ \A x \in Ids : venue[x].filled = Lots => venue[x].st = "gone"
  BY DEF Sound, TypeOK, Claims, MakerOrdersAssumption
<1>3. PICK id \in Ids :
         /\ venue[id].st = "rest"
         /\ venue' = [venue EXCEPT ![id].filled = @ + 1,
                                   ![id].st = IF venue[id].filled + 1 = Lots THEN "gone" ELSE @]
  BY DEF VenueFill
<1> DEFINE f == venue[id].filled + 1
           w == IF f = Lots THEN "gone" ELSE "rest"
           o == [venue[id] EXCEPT !.filled = f, !.st = w]
<1>5. venue[id] \in Orders /\ venue[id].filled \in 0 .. Lots /\ venue[id].filled # Lots
  BY <1>2, <1>3 DEF Orders
<1>a. f \in 0 .. Lots /\ w \in {"rest", "gone"} /\ (f = Lots => w = "gone") /\ f = venue[id].filled + 1
  BY <1>2, <1>5
<1>b. venue' = [venue EXCEPT ![id].filled = f, ![id].st = w]
  BY <1>3
<1> HIDE DEF f, w
<1>4. venue' = [venue EXCEPT ![id] = o]
  BY <1>2, <1>b
<1>6. o \in Orders /\ o.filled = f /\ o.st = w
  BY <1>5, <1>a DEF Orders
<1> HIDE DEF o
<1>7. venue' \in [Ids -> Orders] /\ venue'[id] = o /\ \A x \in Ids : x # id => venue'[x] = venue[x]
  BY <1>2, <1>4, <1>6
<1>8. /\ venue[id].filled <= o.filled /\ o.st \in {"rest", "gone"} /\ (o.filled = Lots => o.st = "gone")
  BY <1>2, <1>5, <1>6, <1>a
<1> QED
  BY <1>1, <1>3, <1>7, <1>8 DEF VenueMoves

LEMMA LateArrivalMoves == ASSUME MakerOrdersAssumption, Sound, LateArrival PROVE VenueMoves
<1>1. UNCHANGED <<slot, adm, cov, sweep, uncertain, mode, prio, fifo, followup, hand, barrier, events, snap, forgotten>>
  BY DEF LateArrival, stratVars, laneVars, workVars
<1>2. venue \in [Ids -> Orders]
  BY DEF Sound, TypeOK
<1>3. PICK id \in Ids : venue[id].st = "late" /\ venue' = [venue EXCEPT ![id].st = "rest"]
  BY DEF LateArrival
<1> DEFINE o == [venue[id] EXCEPT !.st = "rest"]
<1>4. venue' = [venue EXCEPT ![id] = o] /\ venue[id] \in Orders
  BY <1>2, <1>3
<1>5. o \in Orders /\ o.filled = venue[id].filled /\ o.st = "rest"
  BY <1>4 DEF Orders
<1> HIDE DEF o
<1> QED
  BY <1>1, <1>2, <1>3, <1>4, <1>5 DEF VenueMoves

LEMMA VenueMovesSound == ASSUME MakerOrdersAssumption, Sound, VenueMoves PROVE Sound'
<1>1. TypeOK /\ Tickets /\ Claims /\ SlotIsTrue /\ Evidence /\ Known /\ Drained
  BY DEF Sound
<1>2. /\ UNCHANGED <<slot, adm, cov, sweep, uncertain, mode, prio, fifo, followup, hand, barrier, events, snap, forgotten>>
      /\ venue' \in [Ids -> Orders]
      /\ \A x \in Ids : venue[x].filled \in 0 .. Lots /\ venue'[x].filled \in 0 .. Lots /\ Lots \in Nat
  BY <1>1 DEF VenueMoves, TypeOK, Orders, MakerOrdersAssumption
<1>3. /\ \A x \in Ids : venue[x].filled <= venue'[x].filled
      /\ \A x \in Ids : venue[x].st \in {"none", "gone", "refused"} => venue'[x] = venue[x]
      /\ \A x \in Ids : venue[x].st = "rest" => venue'[x].st \in {"rest", "gone"}
      /\ \A x \in Ids : venue'[x].st = "rest" => venue[x].st \in {"rest", "late"}
      /\ \A x \in Ids : venue'[x].st = "late" => venue[x].st = "late"
      /\ \A x \in Ids : venue'[x].st = "none" <=> venue[x].st = "none"
  BY <1>2 DEF VenueMoves
<1>4. TypeOK'
  <2>1. \A x \in Ids : cov'[x] <= venue'[x].filled
    BY <1>1, <1>2, <1>3 DEF TypeOK
  <2> QED
    BY <1>1, <1>2, <2>1 DEF TypeOK
<1>5. Tickets'
  BY <1>1, <1>2 DEF Tickets, Sending, Queued
<1>6. Claims'
  <2>1. \A x \in Ids : venue'[x].filled = Lots => venue'[x].st = "gone"
    BY <1>1, <1>2 DEF Claims, VenueMoves
  <2>2. hand.op = "place" => hand.id \in Ids
    BY <1>1, NothingSent DEF TypeOK
  <2> QED
    BY <1>1, <1>2, <1>3, <2>1, <2>2 DEF Claims
<1>7. SlotIsTrue'
  <2>1. slot.id \in Ids \cup {NoId} /\ (slot.next # NoId => slot.id \in Ids) /\ (slot.acked => slot.id \in Ids)
        /\ slot.filled \in Nat
    BY <1>1, SlotIdle DEF TypeOK, SlotOK, Slots
  <2>2. \A k \in 1 .. Len(fifo) : fifo[k].op = "replace" => fifo[k].old \in Ids
    BY <1>1 DEF TypeOK, CommandOK
  <2>3. slot'.id \in Ids => slot'.filled <= venue'[slot'.id].filled
    <3>1. slot.id \in Ids => /\ slot.filled <= venue[slot.id].filled /\ venue[slot.id].filled <= venue'[slot.id].filled
                              /\ venue[slot.id].filled \in Nat /\ venue'[slot.id].filled \in Nat
      BY <1>1, <1>2, <1>3 DEF SlotIsTrue
    <3> QED
      BY <1>2, <2>1, <3>1
  <2>4. slot'.acked => venue'[slot'.id].st \in {"rest", "gone"}
    BY <1>1, <1>2, <1>3, <2>1 DEF SlotIsTrue
  <2>5. \A k \in 1 .. Len(fifo') :
           /\ fifo'[k].op = "replace" => venue'[fifo'[k].old].st \in {"rest", "gone"}
           /\ Placing(fifo'[k]) /\ fifo'[k].id = slot'.next => fifo'[k].op = "replace" /\ fifo'[k].old = slot'.id
    BY <1>1, <1>2, <1>3, <2>2 DEF SlotIsTrue
  <2>6. slot'.next # NoId /\ (followup'.id = slot'.next \/ hand'.id = slot'.next \/ adm'[slot'.next] = "claimed") =>
           venue'[slot'.id].st = "gone" /\ venue'[slot'.id].filled < Lots
    BY <1>1, <1>2, <1>3, <2>1 DEF SlotIsTrue
  <2> QED
    BY <2>3, <2>4, <2>5, <2>6 DEF SlotIsTrue
<1>8. Evidence'
  <2>1. \A k \in 1 .. Len(events) : events[k].kind # "RateLimited" => events[k].id \in Ids
        /\ events[k].cum \in Nat
    <3>1. ASSUME NEW k \in 1 .. Len(events) PROVE events[k] \in Events
      BY <1>1 DEF TypeOK
    <3> QED
      BY <1>1, <3>1 DEF TypeOK, Events
  <2>2. ASSUME NEW k \in 1 .. Len(events), NEW e, e = events[k]
        PROVE  /\ e.kind = "PlaceReject" => adm'[e.id] = "cancelled" \/ venue'[e.id].st = "refused"
               /\ e.kind = "PlaceAck" => venue'[e.id].st \in {"rest", "gone"} /\ (slot'.id = e.id => ~slot'.acked)
               /\ e.kind = "CancelAck" =>
                    \/ Over(e.id)'
                    \/ /\ venue'[e.id].st # "none" /\ (slot'.id = e.id => ~slot'.acked)
                       /\ ~Told({"PlaceAck"}, e.id)'
                       /\ \/ e.id \in uncertain'
                          \/ \E j \in 1 .. k - 1 : events'[j].kind = "PlaceUnknown" /\ events'[j].id = e.id
               /\ e.kind = "Terminal" => venue'[e.id].st = "gone"
    <3>1. e.kind # "RateLimited" => e.id \in Ids
      BY <2>1, <2>2
    <3>2. /\ e.kind = "PlaceReject" => adm'[e.id] = "cancelled" \/ venue'[e.id].st = "refused"
          /\ e.kind = "PlaceAck" => venue'[e.id].st \in {"rest", "gone"} /\ (slot'.id = e.id => ~slot'.acked)
          /\ e.kind = "Terminal" => venue'[e.id].st = "gone"
      BY <1>1, <1>2, <1>3, <2>2, <3>1 DEF Evidence
    <3>3. ASSUME e.kind = "CancelAck"
          PROVE  \/ Over(e.id)'
                 \/ /\ venue'[e.id].st # "none" /\ (slot'.id = e.id => ~slot'.acked)
                    /\ ~Told({"PlaceAck"}, e.id)'
                    /\ \/ e.id \in uncertain'
                       \/ \E j \in 1 .. k - 1 : events'[j].kind = "PlaceUnknown" /\ events'[j].id = e.id
      <4>1. CASE Over(e.id)
        BY <1>2, <1>3, <3>1, <3>3, <4>1 DEF Over
      <4>2. CASE /\ venue[e.id].st # "none" /\ (slot.id = e.id => ~slot.acked)
                 /\ ~Told({"PlaceAck"}, e.id)
                 /\ \/ e.id \in uncertain
                    \/ \E j \in 1 .. k - 1 : events[j].kind = "PlaceUnknown" /\ events[j].id = e.id
        BY <1>2, <1>3, <3>1, <3>3, <4>2 DEF Told
      <4> QED
        BY <1>1, <2>2, <3>3, <4>1, <4>2 DEF Evidence
    <3> QED
      BY <3>2, <3>3
  <2>3. ASSUME NEW k \in 1 .. Len(events), events[k].kind \in {"Terminal", "Resting"}
        PROVE  events[k].cum <= venue'[events[k].id].filled
    <3>1. events[k].id \in Ids /\ events[k].cum \in Nat
      BY <2>1, <2>3
    <3>2. events[k].cum <= venue[events[k].id].filled
      BY <1>1, <2>3 DEF Evidence
    <3> QED
      BY <1>2, <1>3, <3>1, <3>2
  <2>4. \A k, j \in 1 .. Len(events) : events[k].kind = "PlaceAck" /\ events[j].kind = "PlaceAck" /\ events[j].id = events[k].id => j = k
    BY <1>1 DEF Evidence
  <2>5. \A x \in Ids : venue'[x].st = "late" => x \in uncertain' \/ Told({"PlaceUnknown"}, x)'
    BY <1>1, <1>2, <1>3 DEF Evidence, Told
  <2> QED
    BY <1>2, <2>2, <2>3, <2>4, <2>5 DEF Evidence
<1>9. Known'
  <2>1. \A x \in Ids : Out(x)' => Out(x)
    BY <1>2, <1>3 DEF Out, VenueMoves
  <2>2. uncertain \subseteq Ids
    BY <1>1 DEF TypeOK
  <2> QED
    BY <1>1, <1>2, <2>1, <2>2 DEF Known, Tracked
<1>10. Drained'
  <2>1. \A x \in Ids : venue[x].st = "late" => x \in uncertain \/ Told({"PlaceUnknown"}, x)
    BY <1>1 DEF Evidence
  <2>2. \A x \in Ids : Told({"PlaceUnknown"}, x)' <=> Told({"PlaceUnknown"}, x)
    BY <1>2 DEF Told
  <2>3. barrier' = "completed" /\ snap' = {} => \A x \in Ids : venue'[x].st = "rest" => x \in uncertain' \/ Told({"PlaceUnknown"}, x)'
    BY <1>1, <1>2, <1>3, <2>1, <2>2 DEF Drained
  <2>4. mode' = "done" => \A x \in Ids : venue'[x].st \notin {"rest", "late"}
    BY <1>1, <1>2, <1>3 DEF Drained
  <2> QED
    BY <1>1, <1>2, <2>3, <2>4 DEF Drained
<1> QED
  BY <1>4, <1>5, <1>6, <1>7, <1>8, <1>9, <1>10 DEF Sound

LEMMA SnapshotSound == ASSUME MakerOrdersAssumption, Sound, Snapshot PROVE Sound'
<1>1. /\ UNCHANGED <<slot, adm, cov, sweep, uncertain, mode, prio, fifo, followup, hand, barrier, events, venue, forgotten>>
      /\ snap' = {i \in Ids : venue[i].st = "rest"}
  BY DEF Snapshot, stratVars, laneVars, workVars
<1>2. TypeOK' /\ Tickets' /\ Claims'
  BY <1>1 DEF Sound, TypeOK, Tickets, Claims, Sending, Queued
<1>3. SlotIsTrue' /\ Known'
  BY <1>1 DEF Sound, SlotIsTrue, Known, Out, Tracked
<1>4. Evidence'
  BY <1>1 DEF Sound, Evidence, Over, Told
<1>5. Drained'
  <2>1. snap' = {} => \A x \in Ids : venue'[x].st # "rest"
    BY <1>1
  <2> QED
    BY <1>1, <2>1 DEF Sound, Drained
<1> QED
  BY <1>2, <1>3, <1>4, <1>5 DEF Sound

LEMMA FinishSound == ASSUME MakerOrdersAssumption, Sound, Finish PROVE Sound'
<1>1. /\ UNCHANGED <<slot, adm, cov, sweep, uncertain, prio, fifo, followup, hand, barrier, events, venue, snap, forgotten>>
      /\ mode' = "done" /\ mode = "drain" /\ barrier = "completed" /\ snap = {} /\ uncertain = {} /\ events = <<>>
      /\ slot.state = "Idle"
  BY DEF Finish, laneVars, workVars, Live
<1>2. TypeOK' /\ Tickets' /\ Claims'
  BY <1>1 DEF Sound, TypeOK, Tickets, Claims, Sending, Queued
<1>3. SlotIsTrue' /\ Known'
  BY <1>1 DEF Sound, SlotIsTrue, Known, Out, Tracked
<1>4. Evidence'
  BY <1>1 DEF Sound, Evidence, Over, Told
<1>5. slot = IdleSlot
  BY <1>1 DEF Sound, TypeOK, SlotOK
<1>6. \A x \in Ids : ~Told({"PlaceUnknown"}, x)
  <2>1. Len(events) = 0
    BY <1>1, EmptySeq
  <2> QED
    BY <2>1 DEF Told
<1>7. \A x \in Ids : venue[x].st \notin {"rest", "late"}
  <2>1. \A x \in Ids : venue[x].st # "late"
    BY <1>1, <1>6 DEF Sound, Evidence
  <2>2. \A x \in Ids : venue[x].st # "rest"
    BY <1>1, <1>6 DEF Sound, Drained
  <2> QED
    BY <2>1, <2>2
<1>8. Drained'
  BY <1>1, <1>5, <1>7 DEF Sound, Drained
<1> QED
  BY <1>2, <1>3, <1>4, <1>8 DEF Sound

-----------------------------------------------------------------------------
(* A new order: a fresh id, no outcome open and no barrier sent            *)

\* The command for a fresh order goes out, and the slot holds its ticket: the order is the slot's
\* only one, and the one before it is over, or it replaces the one the slot has.
Quotes(id) ==
    /\ adm[id] = "none" /\ mode = "run" /\ uncertain = {}
    /\ UNCHANGED <<cov, sweep, uncertain, mode, prio, followup, hand, barrier, events, venue, snap, forgotten>>
    /\ adm' \in [Ids -> Admissions] /\ adm'[id] = "queued"
    /\ \A x \in Ids : x # id =>
         adm'[x] = IF x = Ticket(slot) /\ adm[x] \in {"queued", "revoked"} THEN "cancelled" ELSE adm[x]
    /\ fifo' \in Seq(Commands) /\ Extends(fifo, fifo') /\ Len(fifo') = Len(fifo) + 1
    /\ CommandOK(fifo'[Len(fifo) + 1]) /\ Placing(fifo'[Len(fifo) + 1]) /\ fifo'[Len(fifo) + 1].id = id
    /\ SlotOK(slot') /\ Ticket(slot') = id
    /\ \/ /\ slot'.state = "PendingPlace" /\ slot'.id = id /\ slot'.next = NoId /\ ~slot'.acked /\ slot'.filled = 0
          /\ \A x \in {slot.id, slot.next} \cap Ids : ~Out(x)
          /\ fifo'[Len(fifo) + 1].op = "place"
       \/ /\ slot.state = "Open" /\ slot'.state = "PendingReplace"
          /\ slot'.id = slot.id /\ slot'.next = id /\ slot'.acked = slot.acked /\ slot'.filled = slot.filled
          /\ slot.id \in Ids /\ slot.next = NoId /\ slot.acked
          /\ fifo'[Len(fifo) + 1].op = "replace" /\ fifo'[Len(fifo) + 1].old = slot.id

LEMMA FreshIs ==
    ASSUME MakerOrdersAssumption, Sound, NEW id \in Ids, adm[id] = "none"
    PROVE  /\ venue[id].st = "none" /\ ~Sending(id) /\ ~Out(id) /\ id \notin {slot.id, slot.next}
<1>1. venue[id].st = "none" /\ ~(hand.op = "place" /\ hand.id = id) /\ id \notin {slot.id, slot.next}
  BY NoOrder DEF Sound, Claims, Tickets
<1> QED
  BY <1>1 DEF Sound, Tickets, Out

LEMMA QuotesSound == ASSUME MakerOrdersAssumption, Sound, NEW id \in Ids, Quotes(id) PROVE Sound'
<1>1. TypeOK /\ Tickets /\ Claims /\ SlotIsTrue /\ Evidence /\ Known /\ Drained
  BY DEF Sound
<1>2. /\ adm[id] = "none" /\ mode = "run" /\ uncertain = {}
      /\ UNCHANGED <<cov, sweep, uncertain, mode, prio, followup, hand, barrier, events, venue, snap, forgotten>>
      /\ adm' \in [Ids -> Admissions] /\ adm'[id] = "queued"
      /\ fifo' \in Seq(Commands) /\ SlotOK(slot') /\ Ticket(slot') = id
  BY DEF Quotes
<1>3. venue[id].st = "none" /\ ~Sending(id) /\ ~Out(id) /\ id \notin {slot.id, slot.next}
  BY <1>2, FreshIs
<1>4. /\ \A x \in Ids : adm[x] \in {"none", "claimed", "cancelled"} /\ x # id => adm'[x] = adm[x]
      /\ \A x \in Ids : adm[x] # "none" => adm'[x] # "none" /\ x # id
      /\ \A x \in Ids : adm[x] = "cancelled" => adm'[x] = "cancelled"
      /\ \A x \in Ids : adm'[x] = "claimed" <=> adm[x] = "claimed"
      /\ \A x \in Ids : adm[x] \in {"queued", "revoked"} => adm'[x] \in {adm[x], "cancelled"}
  BY <1>2 DEF Quotes
<1>5. /\ Len(fifo) \in Nat /\ Len(fifo') = Len(fifo) + 1 /\ \A k \in 1 .. Len(fifo) : fifo'[k] = fifo[k]
      /\ CommandOK(fifo'[Len(fifo) + 1]) /\ Placing(fifo'[Len(fifo) + 1]) /\ fifo'[Len(fifo) + 1].id = id
  BY DEF Quotes, Extends
<1>6. \A k \in 1 .. Len(fifo') : (k \in 1 .. Len(fifo) /\ fifo'[k] = fifo[k]) \/ k = Len(fifo) + 1
  BY <1>5
<1>7. \A k \in 1 .. Len(fifo) : CommandOK(fifo[k]) /\ (Placing(fifo[k]) => fifo[k].id \in Ids /\ fifo[k].id # id)
  BY <1>1, <1>3 DEF TypeOK, CommandOK, Placing, Sending, Queued
<1>8. \A x \in Ids : Queued(x)' => x = id \/ Queued(x)
  BY <1>5, <1>6 DEF Queued
<1>9. \A x \in Ids : Sending(x)' => x = id \/ Sending(x)
  BY <1>2, <1>8 DEF Sending
<1>10. TypeOK'
  <2>1. \A k \in 1 .. Len(fifo') : CommandOK(fifo'[k])
    BY <1>5, <1>6, <1>7
  <2>2. /\ \A k \in 1 .. Len(prio') : CommandOK(prio'[k]) /\ prio'[k].op = "cancel"
        /\ \A k \in 1 .. Len(events') : events'[k].kind # "RateLimited" => events'[k].id \in Ids
    BY <1>1, <1>2 DEF TypeOK
  <2> QED
    BY <1>1, <1>2, <2>1, <2>2 DEF TypeOK
<1>11. Tickets'
  <2>1. \A x \in Ids : adm'[x] \in {"queued", "revoked"} => x = Ticket(slot')
    BY <1>1, <1>2 DEF Tickets, Quotes
  <2>2. \A x \in {slot'.id, slot'.next} \ {NoId} : adm'[x] # "none"
    <3>1. slot'.id = id \/ (slot'.id = slot.id /\ slot.id \in Ids /\ adm[slot.id] # "none")
      BY <1>1, NoOrder DEF Tickets, Quotes
    <3>2. slot'.next = id \/ slot'.next = NoId
      BY DEF Quotes
    <3> QED
      BY <1>2, <1>4, <3>1, <3>2
  <2>3. \A x \in Ids : Sending(x)' => adm'[x] \in {"queued", "revoked", "cancelled"} \/ (hand'.op = "place" /\ hand'.id = x)
    BY <1>1, <1>2, <1>4, <1>9 DEF Tickets
  <2>4. \A j, k \in 1 .. Len(fifo') : Placing(fifo'[j]) /\ Placing(fifo'[k]) /\ fifo'[j].id = fifo'[k].id => j = k
    BY <1>1, <1>5, <1>6, <1>7 DEF Tickets
  <2>5. /\ \A x \in Ids : followup'.id = x => ~Queued(x)'
        /\ \A x \in Ids : hand'.id = x => ~Queued(x)' /\ followup'.id # x
    BY <1>1, <1>2, <1>3, <1>8 DEF Tickets, Sending
  <2>6. \A k \in 1 .. Len(prio') : adm'[prio'[k].id] \in {"cancelled", "claimed"}
    <3>1. \A k \in 1 .. Len(prio) : prio[k].id \in Ids
      BY <1>1 DEF TypeOK, CommandOK
    <3> QED
      BY <1>1, <1>2, <1>4, <3>1 DEF Tickets
  <2>7. \A k \in 1 .. Len(fifo') : fifo'[k].op = "cancel" => adm'[fifo'[k].id] \in {"cancelled", "claimed"}
    <3>1. \A k \in 1 .. Len(fifo) : fifo[k].op = "cancel" => fifo[k].id \in Ids
      BY <1>7 DEF CommandOK
    <3>2. fifo'[Len(fifo) + 1].op # "cancel"
      BY <1>5 DEF Placing
    <3> QED
      BY <1>1, <1>4, <1>6, <3>1, <3>2 DEF Tickets
  <2> QED
    BY <2>1, <2>2, <2>3, <2>4, <2>5, <2>6, <2>7 DEF Tickets
<1>12. Claims'
  <2>1. hand.op = "place" => hand.id \in Ids
    BY <1>1, NothingSent DEF TypeOK
  <2> QED
    BY <1>1, <1>2, <1>4, <2>1 DEF Claims
<1>13. SlotIsTrue'
  <2>0. slot.acked => slot.id \in Ids
    BY <1>1, SlotIdle DEF TypeOK, SlotOK
  <2>1. slot'.id \in Ids => slot'.filled <= venue'[slot'.id].filled
    <3>1. 0 <= venue[id].filled
      BY <1>1 DEF TypeOK, Orders
    <3> QED
      BY <1>1, <1>2, <3>1 DEF SlotIsTrue, Quotes
  <2>2. slot'.acked => venue'[slot'.id].st \in {"rest", "gone"}
    BY <1>1, <1>2 DEF SlotIsTrue, Quotes
  <2>3. \A k \in 1 .. Len(fifo') :
           /\ fifo'[k].op = "replace" => venue'[fifo'[k].old].st \in {"rest", "gone"}
           /\ Placing(fifo'[k]) /\ fifo'[k].id = slot'.next => fifo'[k].op = "replace" /\ fifo'[k].old = slot'.id
    <3>1. slot'.next = id \/ slot'.next = NoId
      BY DEF Quotes
    <3>2. \A k \in 1 .. Len(fifo) : Placing(fifo[k]) => fifo[k].id # slot'.next
      BY <1>7, <3>1, NoOrder
    <3>3. \A k \in 1 .. Len(fifo) : fifo[k].op = "replace" => venue[fifo[k].old].st \in {"rest", "gone"}
      BY <1>1 DEF SlotIsTrue
    <3>4. /\ fifo'[Len(fifo) + 1].op = "replace" => venue[fifo'[Len(fifo) + 1].old].st \in {"rest", "gone"}
          /\ fifo'[Len(fifo) + 1].id = slot'.next => fifo'[Len(fifo) + 1].op = "replace" /\ fifo'[Len(fifo) + 1].old = slot'.id
      BY <1>1, <1>5, NoOrder DEF SlotIsTrue, Quotes
    <3> QED
      BY <1>2, <1>6, <3>2, <3>3, <3>4
  <2>4. slot'.next # NoId /\ (followup'.id = slot'.next \/ hand'.id = slot'.next \/ adm'[slot'.next] = "claimed") =>
           venue'[slot'.id].st = "gone" /\ venue'[slot'.id].filled < Lots
    <3>1. slot'.next = id \/ slot'.next = NoId
      BY DEF Quotes
    <3> QED
      BY <1>2, <1>3, <3>1 DEF Sending
  <2> QED
    BY <2>1, <2>2, <2>3, <2>4 DEF SlotIsTrue
<1>14. Evidence'
  <2>1. \A x \in Ids : venue[x].st # "none" /\ (slot.id = x => ~slot.acked) => (slot'.id = x => ~slot'.acked)
    BY <1>3 DEF Quotes
  <2>2. ASSUME NEW k \in 1 .. Len(events), NEW e, e = events[k]
        PROVE  /\ e.kind = "PlaceReject" => adm'[e.id] = "cancelled" \/ venue'[e.id].st = "refused"
               /\ e.kind = "PlaceAck" => venue'[e.id].st \in {"rest", "gone"} /\ (slot'.id = e.id => ~slot'.acked)
               /\ e.kind = "CancelAck" =>
                    \/ Over(e.id)'
                    \/ /\ venue'[e.id].st # "none" /\ (slot'.id = e.id => ~slot'.acked)
                       /\ ~Told({"PlaceAck"}, e.id)'
                       /\ \/ e.id \in uncertain'
                          \/ \E j \in 1 .. k - 1 : events'[j].kind = "PlaceUnknown" /\ events'[j].id = e.id
               /\ e.kind = "Terminal" => venue'[e.id].st = "gone"
               /\ e.kind \in {"Terminal", "Resting"} => e.cum <= venue'[e.id].filled
    <3>1. e.kind # "RateLimited" => e.id \in Ids
      BY <1>1, <2>2 DEF TypeOK
    <3>2. /\ e.kind = "PlaceReject" => adm'[e.id] = "cancelled" \/ venue'[e.id].st = "refused"
          /\ e.kind = "PlaceAck" => venue'[e.id].st \in {"rest", "gone"} /\ (slot'.id = e.id => ~slot'.acked)
          /\ e.kind = "Terminal" => venue'[e.id].st = "gone"
          /\ e.kind \in {"Terminal", "Resting"} => e.cum <= venue'[e.id].filled
      BY <1>1, <1>2, <1>4, <2>1, <2>2, <3>1 DEF Evidence
    <3>3. ASSUME e.kind = "CancelAck"
          PROVE  \/ Over(e.id)'
                 \/ /\ venue'[e.id].st # "none" /\ (slot'.id = e.id => ~slot'.acked)
                    /\ ~Told({"PlaceAck"}, e.id)'
                    /\ \/ e.id \in uncertain'
                       \/ \E j \in 1 .. k - 1 : events'[j].kind = "PlaceUnknown" /\ events'[j].id = e.id
      <4>1. CASE Over(e.id)
        BY <1>2, <1>4, <3>1, <3>3, <4>1 DEF Over
      <4>2. CASE /\ venue[e.id].st # "none" /\ (slot.id = e.id => ~slot.acked)
                 /\ ~Told({"PlaceAck"}, e.id)
                 /\ \/ e.id \in uncertain
                    \/ \E j \in 1 .. k - 1 : events[j].kind = "PlaceUnknown" /\ events[j].id = e.id
        BY <1>2, <2>1, <3>1, <3>3, <4>2 DEF Told
      <4> QED
        BY <1>1, <2>2, <3>3, <4>1, <4>2 DEF Evidence
    <3> QED
      BY <3>2, <3>3
  <2>3. \A k, j \in 1 .. Len(events) : events[k].kind = "PlaceAck" /\ events[j].kind = "PlaceAck" /\ events[j].id = events[k].id => j = k
    BY <1>1 DEF Evidence
  <2>4. \A x \in Ids : venue'[x].st = "late" => x \in uncertain' \/ Told({"PlaceUnknown"}, x)'
    BY <1>1, <1>2 DEF Evidence, Told
  <2> QED
    BY <1>2, <2>2, <2>3, <2>4 DEF Evidence
<1>15. Known'
  <2>1. \A x \in Ids : Out(x)' <=> Out(x)
    BY <1>2 DEF Out
  <2>2. \A x \in Ids : Out(x) => x \in {slot'.id, slot'.next} \/ x \in forgotten
    <3>1. \A x \in Ids : Out(x) => x \in {slot.id, slot.next} \/ x \in forgotten
      BY <1>1, <1>2 DEF Known, Tracked
    <3> QED
      BY <3>1, NoOrder DEF Quotes
  <2> QED
    BY <1>1, <1>2, <2>1, <2>2 DEF Known, Tracked
<1>16. Drained'
  <2>1. \A k \in 1 .. Len(fifo') : fifo'[k].op # "barrier"
    BY <1>1, <1>2, <1>5, <1>6 DEF Drained, Placing
  <2>2. barrier # "completed"
    BY <1>1, <1>2 DEF Drained
  <2> QED
    BY <1>2, <2>1, <2>2 DEF Drained
<1> QED
  BY <1>10, <1>11, <1>12, <1>13, <1>14, <1>15, <1>16 DEF Sound

LEMMA PlaceQuotes == ASSUME MakerOrdersAssumption, Sound, Place PROVE \E id \in Ids : Quotes(id)
<1>1. /\ mode = "run" /\ uncertain = {} /\ (slot.state = "Idle" \/ slot.filled = Lots)
      /\ UNCHANGED <<cov, sweep, uncertain, mode, prio, followup, hand, barrier, events, venue, snap, forgotten>>
  BY DEF Place, GateOpen, Live, workVars
<1>2. PICK id \in Ids :
         /\ adm[id] = "none" /\ slot' = PlaceSent(id)
         /\ adm' = [Cancelled(adm, Ticket(slot)) EXCEPT ![id] = "queued"]
         /\ fifo' = Append(fifo, Command("place", id, NoId))
  BY DEF Place, Fresh
<1>3. /\ TypeOK /\ Claims /\ SlotIsTrue /\ SlotOK(slot) /\ adm \in [Ids -> Admissions] /\ fifo \in Seq(Commands)
      /\ Lots \in Nat
  BY DEF Sound, TypeOK, MakerOrdersAssumption
<1>4. /\ adm' \in [Ids -> Admissions] /\ adm'[id] = "queued"
      /\ \A x \in Ids : x # id =>
           adm'[x] = IF x = Ticket(slot) /\ adm[x] \in {"queued", "revoked"} THEN "cancelled" ELSE adm[x]
  <2> DEFINE a == Cancelled(adm, Ticket(slot))
  <2>1. /\ a \in [Ids -> Admissions]
        /\ \A x \in Ids : a[x] = IF x = Ticket(slot) /\ adm[x] \in {"queued", "revoked"} THEN "cancelled" ELSE adm[x]
    BY <1>3, CancelledIs
  <2>2. adm' = [a EXCEPT ![id] = "queued"]
    BY <1>2
  <2> HIDE DEF a
  <2> QED
    BY <2>1, <2>2 DEF Admissions
<1>5. /\ fifo' \in Seq(Commands) /\ Extends(fifo, fifo') /\ Len(fifo') = Len(fifo) + 1
      /\ CommandOK(fifo'[Len(fifo) + 1]) /\ Placing(fifo'[Len(fifo) + 1]) /\ fifo'[Len(fifo) + 1].id = id
      /\ fifo'[Len(fifo) + 1].op = "place"
  <2> DEFINE c == Command("place", id, NoId)
  <2>1. CommandOK(c) /\ c.op = "place" /\ c.id = id
    BY CommandIs
  <2>2. c \in Commands /\ fifo' = Append(fifo, c)
    BY <1>2, <2>1 DEF CommandOK
  <2> HIDE DEF c
  <2> QED
    BY <1>3, <2>1, <2>2, Appended DEF Placing
<1>6. /\ SlotOK(slot') /\ Ticket(slot') = id
      /\ slot'.state = "PendingPlace" /\ slot'.id = id /\ slot'.next = NoId /\ ~slot'.acked /\ slot'.filled = 0
  <2> DEFINE s == PlaceSent(id)
  <2>1. SlotOK(s) /\ s.state = "PendingPlace" /\ s.id = id /\ s.next = NoId /\ ~s.acked /\ s.filled = 0
    BY SlotPlaced
  <2>2. slot' = s
    BY <1>2
  <2> HIDE DEF s
  <2> QED
    BY <2>1, <2>2 DEF Ticket
<1>7. ASSUME NEW x \in {slot.id, slot.next} \cap Ids PROVE ~Out(x)
  <2>1. slot.filled = Lots /\ slot.id \in Ids
    BY <1>1, <1>3, <1>7, SlotFields, NoOrder
  <2>2. CASE x = slot.id
    <3>1. Lots <= venue[x].filled /\ venue[x].filled \in 0 .. Lots
      BY <1>3, <2>1, <2>2 DEF SlotIsTrue, TypeOK, Orders
    <3>2. venue[x].st = "gone"
      BY <1>3, <3>1 DEF Claims
    <3> QED
      BY <1>3, <3>2 DEF Claims, Out
  <2>3. CASE x = slot.next
    <3>1. Out(x) => adm[x] = "claimed"
      BY <1>3 DEF Claims, Out
    <3>2. Lots <= venue[slot.id].filled /\ venue[slot.id].filled \in 0 .. Lots
      BY <1>3, <2>1 DEF SlotIsTrue, TypeOK, Orders
    <3>3. adm[x] # "claimed"
      BY <1>3, <2>3, <3>2, NoOrder DEF SlotIsTrue
    <3> QED
      BY <3>1, <3>3
  <2> QED
    BY <1>7, <2>2, <2>3
<1>8. Quotes(id)
  BY <1>1, <1>2, <1>4, <1>5, <1>6, <1>7 DEF Quotes
<1> QED
  BY <1>8

LEMMA ReplaceQuotes == ASSUME MakerOrdersAssumption, Sound, Replace PROVE \E id \in Ids : Quotes(id)
<1>1. /\ mode = "run" /\ uncertain = {} /\ slot.state = "Open"
      /\ UNCHANGED <<cov, sweep, uncertain, mode, prio, followup, hand, barrier, events, venue, snap, forgotten>>
  BY DEF Replace, GateOpen, workVars
<1>2. PICK id \in Ids :
         /\ adm[id] = "none" /\ slot' = ReplaceSent(slot, id)
         /\ adm' = [Cancelled(adm, Ticket(slot)) EXCEPT ![id] = "queued"]
         /\ fifo' = Append(fifo, Command("replace", id, slot.id))
  BY DEF Replace, Fresh
<1>3. /\ TypeOK /\ SlotOK(slot) /\ adm \in [Ids -> Admissions] /\ fifo \in Seq(Commands)
      /\ slot.id \in Ids /\ slot.next = NoId /\ slot.acked /\ id # slot.id
  <2>1. TypeOK /\ SlotOK(slot) /\ adm \in [Ids -> Admissions] /\ fifo \in Seq(Commands)
    BY DEF Sound, TypeOK
  <2>2. slot.id \in Ids /\ slot.next = NoId /\ slot.acked
    BY <1>1, <2>1 DEF SlotOK
  <2>3. id # slot.id
    BY <1>2, FreshIs
  <2> QED
    BY <2>1, <2>2, <2>3
<1>4. /\ adm' \in [Ids -> Admissions] /\ adm'[id] = "queued"
      /\ \A x \in Ids : x # id =>
           adm'[x] = IF x = Ticket(slot) /\ adm[x] \in {"queued", "revoked"} THEN "cancelled" ELSE adm[x]
  <2> DEFINE a == Cancelled(adm, Ticket(slot))
  <2>1. /\ a \in [Ids -> Admissions]
        /\ \A x \in Ids : a[x] = IF x = Ticket(slot) /\ adm[x] \in {"queued", "revoked"} THEN "cancelled" ELSE adm[x]
    BY <1>3, CancelledIs
  <2>2. adm' = [a EXCEPT ![id] = "queued"]
    BY <1>2
  <2> HIDE DEF a
  <2> QED
    BY <2>1, <2>2 DEF Admissions
<1>5. /\ fifo' \in Seq(Commands) /\ Extends(fifo, fifo') /\ Len(fifo') = Len(fifo) + 1
      /\ CommandOK(fifo'[Len(fifo) + 1]) /\ Placing(fifo'[Len(fifo) + 1]) /\ fifo'[Len(fifo) + 1].id = id
      /\ fifo'[Len(fifo) + 1].op = "replace" /\ fifo'[Len(fifo) + 1].old = slot.id
  <2> DEFINE c == Command("replace", id, slot.id)
  <2>1. CommandOK(c) /\ c.op = "replace" /\ c.id = id /\ c.old = slot.id
    BY <1>3, CommandIs
  <2>2. c \in Commands /\ fifo' = Append(fifo, c)
    BY <1>2, <2>1 DEF CommandOK
  <2> HIDE DEF c
  <2> QED
    BY <1>3, <2>1, <2>2, Appended DEF Placing
<1>6. /\ SlotOK(slot') /\ Ticket(slot') = id
      /\ slot'.state = "PendingReplace" /\ slot'.id = slot.id /\ slot'.next = id
      /\ slot'.acked = slot.acked /\ slot'.filled = slot.filled
  <2> DEFINE s == ReplaceSent(slot, id)
  <2>1. SlotOK(s) /\ s.state = "PendingReplace" /\ s.id = slot.id /\ s.next = id /\ s.acked = slot.acked /\ s.filled = slot.filled
    BY <1>1, <1>3, SlotReplaced
  <2>2. slot' = s /\ id # NoId
    BY <1>2, NoOrder
  <2> HIDE DEF s
  <2> QED
    BY <2>1, <2>2 DEF Ticket
<1>8. Quotes(id)
  BY <1>1, <1>2, <1>3, <1>4, <1>5, <1>6 DEF Quotes
<1> QED
  BY <1>8

LEMMA InitSound == ASSUME MakerOrdersAssumption, Init PROVE Sound
<1>1. /\ slot = IdleSlot /\ adm = [i \in Ids |-> "none"] /\ cov = [i \in Ids |-> 0]
      /\ sweep = FALSE /\ uncertain = {} /\ mode = "run"
      /\ prio = <<>> /\ fifo = <<>> /\ followup = NoCommand /\ hand = NoCommand
      /\ barrier = "none" /\ events = <<>> /\ forgotten = {}
      /\ venue = [i \in Ids |-> [st |-> "none", filled |-> 0]]
  BY DEF Init
<1>2. /\ Len(prio) = 0 /\ Len(fifo) = 0 /\ Len(events) = 0
      /\ prio \in Seq(Commands) /\ fifo \in Seq(Commands) /\ events \in Seq(Events)
  BY <1>1, EmptySeq
<1>3. /\ SlotOK(slot) /\ slot.id = NoId /\ slot.next = NoId /\ ~slot.acked /\ slot.filled = 0
      /\ NoId \notin Ids /\ 0 \in 0 .. Lots /\ Lots # 0
  BY <1>1, SlotIdle, NoOrder DEF MakerOrdersAssumption
<1>4. venue \in [Ids -> Orders] /\ \A x \in Ids : venue[x].st = "none" /\ venue[x].filled = 0 /\ adm[x] = "none"
  BY <1>1, <1>3 DEF Orders
<1>5. TypeOK
  <2>1. adm \in [Ids -> Admissions] /\ cov \in [Ids -> 0 .. Lots] /\ \A id \in Ids : cov[id] <= venue[id].filled
    BY <1>1, <1>3, <1>4 DEF Admissions
  <2>2. /\ \A k \in 1 .. Len(prio) : CommandOK(prio[k]) /\ prio[k].op = "cancel"
        /\ \A k \in 1 .. Len(fifo) : CommandOK(fifo[k])
        /\ \A k \in 1 .. Len(events) : events[k].kind # "RateLimited" => events[k].id \in Ids
    BY <1>2
  <2> QED
    BY <1>1, <1>2, <1>3, <1>4, <2>1, <2>2 DEF TypeOK
<1>6. \A x \in Ids : ~Sending(x) /\ ~Out(x)
  BY <1>1, <1>2, <1>3, <1>4, NothingSent DEF Sending, Queued, Out
<1>7. Tickets
  BY <1>1, <1>2, <1>3, <1>4, <1>6, NothingSent DEF Tickets
<1>8. Claims /\ SlotIsTrue
  BY <1>1, <1>2, <1>3, <1>4, NothingSent DEF Claims, SlotIsTrue
<1>9. Evidence /\ Known /\ Drained
  BY <1>1, <1>2, <1>4, <1>6 DEF Evidence, Known, Drained
<1> QED
  BY <1>5, <1>7, <1>8, <1>9 DEF Sound

\* Every step keeps the invariant.
LEMMA SoundKept == ASSUME MakerOrdersAssumption, Sound, [Next]_vars PROVE Sound'
<1>1. ASSUME \/ CancelQuote \/ GateCloses \/ Fill \/ ExecEvent \/ Tick \/ Quiesce \/ SendStop PROVE Sound'
  BY <1>1, StrategyLearns, LearnsSound
<1>2. ASSUME \/ CheckPlace \/ RefusesPlace \/ DoCancel \/ DoReplace \/ DoCancelAll \/ DoBarrier \/ RefuseUnsent
             \/ DeadmanFires \/ Backfill \/ UNCHANGED vars
      PROVE  Sound'
  <2>1. Works
    BY <1>2, CheckPlaceWorks, RefusesPlaceWorks, DoCancelWorks, DoReplaceWorks, DoCancelAllWorks, DoBarrierWorks,
       RefuseUnsentWorks, DeadmanWorks, BackfillWorks, StutterWorks
  <2> QED
    BY <2>1, WorksSound
<1>3. CASE ClaimPlace
  BY <1>2, <1>3, ClaimSplits, ClaimsPlaceSound
<1>4. CASE AnswerPlace
  BY <1>4, AnswerPlaceSound
<1>5. CASE Place \/ Replace
  <2>1. PICK id \in Ids : Quotes(id)
    BY <1>5, PlaceQuotes, ReplaceQuotes
  <2> QED
    BY <2>1, QuotesSound
<1>6. CASE VenueFill \/ LateArrival
  BY <1>6, VenueFillMoves, LateArrivalMoves, VenueMovesSound
<1>7. CASE Snapshot \/ Finish
  BY <1>7, SnapshotSound, FinishSound
<1> QED
  BY <1>1, <1>2, <1>3, <1>4, <1>5, <1>6, <1>7 DEF Next

-----------------------------------------------------------------------------
(* A slot that waits is answered: what the strategy's steps, but the ones  *)
(* that send a new order, do to what is awaited.                           *)

\* The lane r is the lane q with a cancel of everything, or a barrier, behind it.
Behind(q, r) ==
    /\ Extends(q, r)
    /\ \A k \in 1 .. Len(r) : k \in 1 .. Len(q) \/ r[k].op \in {"barrier", "cancelAll"}

SameLanes == prio' = prio /\ Behind(fifo, fifo')

\* The step takes no answer the slot waits for.
Ignores ==
    \/ events' = events
    \/ /\ events # <<>> /\ events' = Tail(events)
       /\ Head(events).id = slot.id =>
            Head(events).kind \notin IF slot.state = "PendingPlace" THEN PlaceAnswers ELSE CancelAnswers

Stays == ~sweep /\ slot'.state = slot.state /\ slot'.id = slot.id /\ slot'.next = slot.next /\ SameLanes /\ Ignores

Opens ==
    /\ ~sweep /\ slot.state = "PendingPlace" /\ slot'.state = "Open"
    /\ slot'.id = slot.id /\ slot'.next = slot.next /\ SameLanes

Cancels == slot'.state = "PendingCancel" /\ slot'.id = slot.id /\ Cancelling(slot.id)'

Promotes ==
    /\ ~sweep /\ slot.state = "PendingReplace" /\ slot'.state = "PendingPlace"
    /\ slot'.id = slot.next /\ slot'.next = NoId /\ SameLanes
    /\ events # <<>> /\ events' = Tail(events)
    /\ Head(events).kind = "CancelAck" /\ Head(events).id = slot.id

Turns == sweep' \/ slot' = IdleSlot \/ Stays \/ Opens \/ Cancels \/ Promotes

\* The lanes only grow, and what is to be sent stays to be sent.
LEMMA LanesGrow ==
    ASSUME TypeOK, Learns
    PROVE  \A x : /\ Cancelling(x) => Cancelling(x)'
                  /\ Queued(x) => Queued(x)'
                  /\ Sending(x) => Sending(x)'
<1>1. /\ Len(prio) \in Nat /\ Len(prio') \in Nat /\ Len(fifo) \in Nat /\ Len(fifo') \in Nat
      /\ Len(prio) <= Len(prio') /\ Len(fifo) <= Len(fifo')
      /\ \A k \in 1 .. Len(prio) : prio'[k] = prio[k]
      /\ \A k \in 1 .. Len(fifo) : fifo'[k] = fifo[k]
  BY LanesLeft
<1>2. /\ \A k \in 1 .. Len(prio) : k \in 1 .. Len(prio') /\ prio'[k] = prio[k]
      /\ \A k \in 1 .. Len(fifo) : k \in 1 .. Len(fifo') /\ fifo'[k] = fifo[k]
  BY <1>1
<1>3. hand' = hand /\ followup' = followup
  BY DEF Learns
<1>4. \A x : Cancelling(x) => Cancelling(x)'
  BY <1>2 DEF Cancelling
<1>5. \A x : Queued(x) => Queued(x)'
  BY <1>2 DEF Queued
<1>6. \A x : Sending(x) => Sending(x)'
  BY <1>3, <1>5 DEF Sending
<1> QED
  BY <1>4, <1>5, <1>6

\* No order is taken down that was not.
LEMMA NothingCancelled ==
    ASSUME TypeOK, Learns, SameLanes
    PROVE  /\ \A x : Cancelling(x)' => Cancelling(x)
           /\ \A k \in 1 .. Len(fifo') : fifo'[k].op = "replace" => k \in 1 .. Len(fifo) /\ fifo'[k] = fifo[k]
<1>1. \A k \in 1 .. Len(fifo') : fifo'[k].op \notin {"barrier", "cancelAll"} => k \in 1 .. Len(fifo) /\ fifo'[k] = fifo[k]
  BY DEF SameLanes, Behind, Extends
<1>2. prio' = prio
  BY DEF SameLanes
<1>3. \A x : Cancelling(x)' => Cancelling(x)
  BY <1>1, <1>2 DEF Cancelling
<1> QED
  BY <1>1, <1>3

\* The answer the slot waits for stays, and so does what follows a cancel.
LEMMA AnswersStay ==
    ASSUME TypeOK, Learns, Ignores, NEW x, x = slot.id, NEW kinds,
           kinds = IF slot.state = "PendingPlace" THEN PlaceAnswers ELSE CancelAnswers
    PROVE  Told(kinds, x) => Told(kinds, x)'
<1>1. /\ Len(events) \in Nat /\ Len(events') \in Nat
      /\ \/ events' = events
         \/ /\ Len(events) = Len(events') + 1 /\ events[1] = Head(events)
            /\ \A k \in 1 .. Len(events') : events'[k] = events[k + 1]
  BY AnswersLeft
<1>2. CASE events' = events
  BY <1>2 DEF Told
<1>3. CASE /\ events' # events /\ Len(events) = Len(events') + 1 /\ events[1] = Head(events)
           /\ \A k \in 1 .. Len(events') : events'[k] = events[k + 1]
  <2>1. events[1].id = x => events[1].kind \notin kinds
    BY <1>3 DEF Ignores
  <2>2. ASSUME NEW k \in 1 .. Len(events), k # 1
        PROVE  k - 1 \in 1 .. Len(events') /\ events'[k - 1] = events[k]
    <3>1. k - 1 \in 1 .. Len(events') /\ (k - 1) + 1 = k
      BY <1>1, <1>3, <2>2
    <3> QED
      BY <1>3, <3>1
  <2>3. ASSUME NEW k \in 1 .. Len(events), events[k].kind \in kinds, events[k].id = x PROVE Told(kinds, x)'
    <3>1. k - 1 \in 1 .. Len(events') /\ events'[k - 1] = events[k]
      BY <2>1, <2>2, <2>3
    <3> QED
      BY <2>3, <3>1 DEF Told
  <2> QED
    BY <2>3 DEF Told
<1> QED
  BY <1>1, <1>2, <1>3

\* What the slot's replacement is promised stays promised.
LEMMA PromiseStays ==
    ASSUME TypeOK, Learns, slot'.id = slot.id, slot'.next = slot.next, Promised
    PROVE  Promised'
<1> SUFFICES ASSUME NEW k \in 1 .. Len(events'), events'[k].kind = "CancelAck", events'[k].id = slot'.id
             PROVE  \/ Sending(slot.next)'
                    \/ \E j \in 1 .. Len(events') : j > k /\ events'[j].kind \in PlaceAnswers /\ events'[j].id = slot'.next
  BY DEF Promised
<1> DEFINE n == slot.next
<1>1. /\ Len(events) \in Nat /\ Len(events') \in Nat
      /\ \/ events' = events
         \/ /\ Len(events) = Len(events') + 1
            /\ \A i \in 1 .. Len(events') : events'[i] = events[i + 1]
  BY AnswersLeft
<1>2. Sending(n) => Sending(slot.next)'
  <2>1. PICK x : x = slot.next
    OBVIOUS
  <2>2. Sending(x) => Sending(x)'
    BY LanesGrow
  <2> QED
    BY <2>1, <2>2 DEF Sending, Queued
<1>3. CASE events' = events
  <2>1. \/ Sending(n)
        \/ \E j \in 1 .. Len(events) : j > k /\ events[j].kind \in PlaceAnswers /\ events[j].id = slot.next
    BY <1>3 DEF Promised
  <2> QED
    BY <1>2, <1>3, <2>1
<1>4. CASE /\ Len(events) = Len(events') + 1
           /\ \A i \in 1 .. Len(events') : events'[i] = events[i + 1]
  <2>1. k + 1 \in 1 .. Len(events) /\ events'[k] = events[k + 1]
    BY <1>1, <1>4
  <2>2. \/ Sending(n)
        \/ \E j \in 1 .. Len(events) : j > k + 1 /\ events[j].kind \in PlaceAnswers /\ events[j].id = slot.next
    BY <2>1 DEF Promised
  <2>3. ASSUME NEW j \in 1 .. Len(events), j > k + 1, events[j].kind \in PlaceAnswers, events[j].id = slot.next
        PROVE  \E i \in 1 .. Len(events') : i > k /\ events'[i].kind \in PlaceAnswers /\ events'[i].id = slot'.next
    <3>1. j - 1 \in 1 .. Len(events') /\ (j - 1) + 1 = j /\ j - 1 > k
      BY <1>1, <1>4, <2>3
    <3>2. events'[j - 1] = events[j]
      BY <1>4, <3>1
    <3> QED
      BY <2>3, <3>1, <3>2
  <2> QED
    BY <1>2, <2>2, <2>3
<1> QED
  BY <1>1, <1>3, <1>4

LEMMA UncancelledStays ==
    ASSUME TypeOK, Learns, SameLanes, slot'.id = slot.id, slot'.next = slot.next, Uncancelled
    PROVE  Uncancelled'
<1>1. ASSUME NEW x \in {slot'.id, slot'.next} \ {NoId} PROVE ~Cancelling(x)'
  BY <1>1, NothingCancelled DEF Uncancelled
<1>2. ASSUME NEW x \in {slot'.id, slot'.next} \ {NoId}, NEW k \in 1 .. Len(fifo'), fifo'[k].op = "replace", fifo'[k].old = x
      PROVE  fifo'[k].id = slot'.next
  BY <1>2, NothingCancelled DEF Uncancelled
<1> QED
  BY <1>1, <1>2 DEF Uncancelled

LEMMA StaysAwaited == ASSUME MakerOrdersAssumption, TypeOK, Awaited, Learns, Stays PROVE Awaited'
<1>1. ~sweep /\ slot'.state = slot.state /\ slot'.id = slot.id /\ slot'.next = slot.next /\ SameLanes /\ Ignores
  BY DEF Stays
<1>2. PICK x : x = slot.id /\ x = slot'.id
  BY <1>1
<1>3. PICK y : y = slot.next /\ y = slot'.next
  BY <1>1
<1>4. /\ Cancelling(x) => Cancelling(x)'
      /\ Sending(x) => Sending(x)'
      /\ Queued(y) => Queued(y)'
  BY LanesGrow
<1>5. Uncancelled => Uncancelled'
  BY <1>1, UncancelledStays
<1>6. Promised => Promised'
  BY <1>1, PromiseStays
<1>7. /\ slot.state = "PendingPlace" => (Told(PlaceAnswers, x) => Told(PlaceAnswers, x)')
      /\ slot.state # "PendingPlace" => (Told(CancelAnswers, x) => Told(CancelAnswers, x)')
  BY <1>1, <1>2, AnswersStay
<1>8. /\ Sending(x)' => Sending(slot.id)'
      /\ Cancelling(x)' => Cancelling(slot.id)'
      /\ Queued(y)' => Queued(slot.next)'
      /\ Told(PlaceAnswers, x)' => Told(PlaceAnswers, slot.id)'
      /\ Told(CancelAnswers, x)' => Told(CancelAnswers, slot.id)'
  BY <1>2, <1>3 DEF Sending, Cancelling, Queued, Told, PlaceAnswers, CancelAnswers
<1>9. CASE slot.state = "Idle"
  BY <1>1, <1>9 DEF Awaited
<1>10. CASE slot.state = "Open"
  BY <1>1, <1>5, <1>10 DEF Awaited
<1>11. CASE slot.state = "PendingPlace"
  BY <1>1, <1>2, <1>4, <1>5, <1>7, <1>8, <1>11 DEF Awaited
<1>12. CASE slot.state = "PendingCancel"
  BY <1>1, <1>2, <1>4, <1>7, <1>8, <1>12 DEF Awaited
<1>13. CASE slot.state = "PendingReplace"
  BY <1>1, <1>2, <1>3, <1>4, <1>5, <1>6, <1>7, <1>8, <1>13 DEF Awaited
<1> QED
  BY <1>1, <1>9, <1>10, <1>11, <1>12, <1>13 DEF Awaited

LEMMA PromotesAwaited == ASSUME MakerOrdersAssumption, TypeOK, SlotIsTrue, Awaited, Learns, Promotes PROVE Awaited'
<1>1. /\ ~sweep /\ slot.state = "PendingReplace" /\ slot'.state = "PendingPlace"
      /\ slot'.id = slot.next /\ slot'.next = NoId /\ SameLanes
      /\ events # <<>> /\ events' = Tail(events)
      /\ Head(events).kind = "CancelAck" /\ Head(events).id = slot.id
  BY DEF Promotes
<1>2. Uncancelled /\ Promised
  BY <1>1 DEF Awaited
<1>3. slot.next # NoId /\ slot.next \in Ids /\ slot.next # slot.id
  BY <1>1, SlotFields DEF TypeOK
<1>4. PICK y : y = slot.next /\ y = slot'.id
  BY <1>1
<1>5. /\ Len(events) = Len(events') + 1 /\ Len(events') \in Nat /\ events[1] = Head(events)
      /\ \A k \in 1 .. Len(events') : events'[k] = events[k + 1]
  BY <1>1, Popped DEF TypeOK, Pops
<1>6. \/ Sending(y)
      \/ \E j \in 1 .. Len(events) : j > 1 /\ events[j].kind \in PlaceAnswers /\ events[j].id = y
  BY <1>1, <1>2, <1>4, <1>5 DEF Promised
<1>7. Sending(y) => Sending(y)'
  BY LanesGrow
<1>8. ASSUME NEW j \in 1 .. Len(events), j > 1, events[j].kind \in PlaceAnswers, events[j].id = y
      PROVE  Told(PlaceAnswers, y)'
  <2>1. j - 1 \in 1 .. Len(events') /\ (j - 1) + 1 = j
    BY <1>5, <1>8
  <2>2. events'[j - 1] = events[j]
    BY <1>5, <2>1
  <2> QED
    BY <1>8, <2>1, <2>2 DEF Told, PlaceAnswers
<1>9. Sending(slot.id)' \/ Told(PlaceAnswers, slot.id)'
  BY <1>4, <1>6, <1>7, <1>8 DEF Sending, Queued, Told, PlaceAnswers
<1>10. ~Cancelling(y)'
  BY <1>2, <1>1, <1>3, <1>4, NothingCancelled DEF Uncancelled
<1>11. ASSUME NEW k \in 1 .. Len(fifo'), fifo'[k].op = "replace", fifo'[k].old = y PROVE FALSE
  <2>1. k \in 1 .. Len(fifo) /\ fifo'[k] = fifo[k]
    BY <1>1, <1>11, NothingCancelled
  <2>2. fifo[k].id = slot.next
    BY <1>2, <1>3, <1>4, <1>11, <2>1 DEF Uncancelled
  <2>3. fifo[k].old = slot.id
    BY <1>11, <2>1, <2>2 DEF SlotIsTrue, Placing
  <2> QED
    BY <1>3, <1>4, <1>11, <2>1, <2>3
<1>12. Uncancelled'
  BY <1>1, <1>4, <1>10, <1>11 DEF Uncancelled
<1> QED
  BY <1>1, <1>9, <1>12 DEF Awaited

LEMMA TurnsAwaited == ASSUME MakerOrdersAssumption, TypeOK, SlotIsTrue, Awaited, Learns, Turns PROVE Awaited'
<1>1. CASE sweep'
  BY <1>1 DEF Awaited
<1>2. CASE slot' = IdleSlot
  BY <1>2, SlotIdle DEF Awaited
<1>3. CASE Opens
  <2>1. Uncancelled
    BY <1>3 DEF Opens, Awaited
  <2>2. Uncancelled'
    BY <1>3, <2>1, UncancelledStays DEF Opens
  <2> QED
    BY <1>3, <2>2 DEF Opens, Awaited
<1>4. CASE Cancels
  BY <1>4 DEF Cancels, Awaited
<1> QED
  BY <1>1, <1>2, <1>3, <1>4, StaysAwaited, PromotesAwaited DEF Turns

\* Each step of the strategy is one of these.
LEMMA LanesSame == ASSUME TypeOK, UNCHANGED <<prio, fifo>> PROVE SameLanes
<1>1. fifo \in Seq(Commands)
  BY DEF TypeOK
<1>2. Extends(fifo, fifo')
  BY <1>1, Same
<1> QED
  BY <1>2 DEF SameLanes, Behind

LEMMA PullTurns ==
    ASSUME MakerOrdersAssumption, TypeOK, NEW s, SlotOK(s), PullQuote(s), Ignores,
           (s.state = slot.state /\ s.id = slot.id /\ s.next = slot.next) \/ s = IdleSlot
    PROVE  Turns
<1>1. CASE (sweep \/ ~Live(s)) /\ slot' = s /\ Calm
  BY <1>1 DEF Turns, Calm, Live, SlotOK
<1>2. CASE ~sweep /\ s.state = "PendingReplace" /\ slot' = [s EXCEPT !.after = TRUE] /\ Calm /\ UNCHANGED prio
  <2>1. slot'.state = s.state /\ slot'.id = s.id /\ slot'.next = s.next
    BY <1>2, SlotMarked
  <2>2. s.state = slot.state /\ s.id = slot.id /\ s.next = slot.next
    BY <1>2, SlotIdle
  <2>3. SameLanes
    BY <1>2, LanesSame DEF Calm
  <2> QED
    BY <1>2, <2>1, <2>2, <2>3 DEF Turns, Stays
<1>3. CASE ~sweep /\ s.state = "PendingCancel" /\ slot' = s /\ Calm /\ UNCHANGED prio
  <2>1. s.state = slot.state /\ s.id = slot.id /\ s.next = slot.next
    BY <1>3, SlotIdle
  <2>2. SameLanes
    BY <1>3, LanesSame DEF Calm
  <2> QED
    BY <1>3, <2>1, <2>2 DEF Turns, Stays
<1>4. CASE /\ s.state \in {"PendingPlace", "Open", "PendingCancel"} /\ slot' = CancelSent(s)
           /\ \E n \in {0, 1} : Dispatch(s, n)
  <2>1. slot'.state = "PendingCancel" /\ slot'.id = s.id /\ s.id \in Ids
    BY <1>4, SlotCancelled, SlotIdle DEF SlotOK
  <2>2. s.id = slot.id
    BY <1>4, SlotIdle
  <2> DEFINE c == Command("cancel", s.id, NoId)
  <2>3. c.op = "cancel" /\ c.id = s.id /\ c \in Commands
    BY <2>1, CommandIs DEF CommandOK
  <2>4. prio' = Append(prio, c) \/ fifo' = Append(fifo, c)
    BY <1>4 DEF Dispatch
  <2> HIDE DEF c
  <2>5. prio \in Seq(Commands) /\ fifo \in Seq(Commands)
    BY DEF TypeOK
  <2>6. CASE prio' = Append(prio, c)
    <3>1. Len(prio) + 1 \in 1 .. Len(prio') /\ prio'[Len(prio) + 1] = c
      <4>1. Len(prio) \in Nat /\ Len(prio') = Len(prio) + 1 /\ prio'[Len(prio) + 1] = c
        BY <2>3, <2>5, <2>6, Appended, LenProperties
      <4> QED
        BY <4>1
    <3> QED
      BY <2>1, <2>2, <2>3, <3>1 DEF Turns, Cancels, Cancelling
  <2>7. CASE fifo' = Append(fifo, c)
    <3>1. Len(fifo) + 1 \in 1 .. Len(fifo') /\ fifo'[Len(fifo) + 1] = c
      <4>1. Len(fifo) \in Nat /\ Len(fifo') = Len(fifo) + 1 /\ fifo'[Len(fifo) + 1] = c
        BY <2>3, <2>5, <2>7, Appended, LenProperties
      <4> QED
        BY <4>1
    <3> QED
      BY <2>1, <2>2, <2>3, <3>1 DEF Turns, Cancels, Cancelling
  <2> QED
    BY <2>4, <2>6, <2>7
<1>5. CASE FreezeAndSweep(1)
  BY <1>5 DEF FreezeAndSweep, Sweep, Turns
<1> QED
  BY <1>1, <1>2, <1>3, <1>4, <1>5 DEF PullQuote

LEMMA KeptTurns ==
    ASSUME TypeOK, slot' = slot, SameLanes, Ignores, sweep' = sweep PROVE Turns
BY DEF Turns, Stays

LEMMA CancelQuoteTurns == ASSUME MakerOrdersAssumption, Sound, CancelQuote PROVE Turns
BY PullTurns DEF CancelQuote, Sound, TypeOK, Ignores

LEMMA QuiesceTurns == ASSUME MakerOrdersAssumption, Sound, Quiesce PROVE Turns
BY PullTurns DEF Quiesce, Sound, TypeOK, Ignores

LEMMA GateClosesTurns == ASSUME MakerOrdersAssumption, Sound, GateCloses PROVE Turns
<1>1. TypeOK /\ UNCHANGED <<slot, prio, events>>
  BY DEF GateCloses, Sound
<1>2. CASE Sweep(0)
  BY <1>2 DEF Sweep, Turns
<1>3. CASE UNCHANGED <<sweep, fifo>>
  BY <1>1, <1>3, LanesSame, KeptTurns DEF Ignores
<1> QED
  BY <1>2, <1>3 DEF GateCloses

LEMMA SendStopTurns == ASSUME MakerOrdersAssumption, Sound, SendStop PROVE Turns
<1> DEFINE b == Command("barrier", NoId, NoId)
           a == Command("cancelAll", NoId, NoId)
<1>1. TypeOK /\ UNCHANGED <<slot, prio, events, sweep>> /\ fifo \in Seq(Commands)
  BY DEF SendStop, Sound, TypeOK, stratVars
<1>2. /\ a \in Commands /\ b \in Commands /\ a.op = "cancelAll" /\ b.op = "barrier"
  BY CommandIs DEF CommandOK
<1>3. fifo' = fifo \o <<b>> \/ fifo' = fifo \o <<a>> \o <<b>>
  BY DEF SendStop
<1> HIDE DEF a, b
<1>4. fifo \o <<b>> = Append(fifo, b) /\ fifo \o <<a>> \o <<b>> = Append(Append(fifo, a), b) /\ Append(fifo, a) \in Seq(Commands)
  BY <1>1, <1>2, AppendProperties, AppendIsConcat
<1>5. /\ Extends(fifo, Append(fifo, b))
      /\ \A k \in 1 .. Len(Append(fifo, b)) : k \in 1 .. Len(fifo) \/ Append(fifo, b)[k] = b
  BY <1>1, <1>2, Appended
<1> DEFINE f == Append(fifo, a)
           g == Append(f, b)
<1>6. Extends(fifo, f) /\ \A k \in 1 .. Len(f) : k \in 1 .. Len(fifo) \/ f[k] = a
  BY <1>1, <1>2, Appended
<1>7. f \in Seq(Commands)
  BY <1>4
<1> HIDE DEF f
<1>8. Extends(f, g) /\ \A k \in 1 .. Len(g) : k \in 1 .. Len(f) \/ g[k] = b
  BY <1>2, <1>7, Appended
<1> HIDE DEF g
<1>9. Behind(fifo, g)
  BY <1>2, <1>6, <1>8 DEF Behind, Extends
<1>10. Behind(fifo, Append(fifo, b))
  BY <1>2, <1>5 DEF Behind
<1>11. SameLanes
  BY <1>1, <1>3, <1>4, <1>9, <1>10 DEF SameLanes, f, g
<1> QED
  BY <1>1, <1>11, KeptTurns DEF Ignores

\* What a fill leaves of the slot keeps what it waits for.
LEMMA FilledWaits ==
    ASSUME MakerOrdersAssumption, TypeOK, SlotIsTrue, NEW id \in Ids, NEW c \in 0 .. Lots, c <= venue[id].filled
    PROVE  LET s == FillProgress(slot, id, c)
           IN  /\ SlotOK(s)
               /\ (s.state = slot.state /\ s.id = slot.id /\ s.next = slot.next) \/ s = IdleSlot
<1> DEFINE s == FillProgress(slot, id, c)
<1>1. SlotOK(slot) /\ venue[id].filled \in 0 .. Lots
  BY DEF TypeOK, Orders
<1>2. slot.id = id => slot.filled <= venue[id].filled
  BY DEF SlotIsTrue
<1>3. /\ SlotOK(s)
      /\ \/ s.state = slot.state /\ s.id = slot.id /\ s.next = slot.next
         \/ s = IdleSlot
  BY <1>1, <1>2, SlotFilled
<1> QED
  BY <1>3

LEMMA FillTurns == ASSUME MakerOrdersAssumption, Sound, Fill PROVE Turns
<1>1. TypeOK /\ SlotIsTrue /\ events' = events
  BY DEF Sound, Fill
<1>2. PICK id \in Ids : \E c \in 1 .. venue[id].filled :
         IF c > cov[id] THEN PullQuote(FillProgress(slot, id, c)) ELSE Calm /\ UNCHANGED <<slot, prio>>
  BY DEF Fill
<1>3. PICK c \in 1 .. venue[id].filled :
         IF c > cov[id] THEN PullQuote(FillProgress(slot, id, c)) ELSE Calm /\ UNCHANGED <<slot, prio>>
  BY <1>2
<1>4. venue[id].filled \in 0 .. Lots /\ c \in 0 .. Lots /\ c <= venue[id].filled
  BY <1>1 DEF TypeOK, Orders, MakerOrdersAssumption
<1>5. CASE PullQuote(FillProgress(slot, id, c))
  <2> DEFINE s == FillProgress(slot, id, c)
  <2>1. SlotOK(s) /\ ((s.state = slot.state /\ s.id = slot.id /\ s.next = slot.next) \/ s = IdleSlot)
    BY <1>1, <1>4, FilledWaits
  <2>2. PullQuote(s)
    BY <1>5
  <2> HIDE DEF s
  <2> QED
    BY <1>1, <2>1, <2>2, PullTurns DEF Ignores
<1>6. CASE Calm /\ UNCHANGED <<slot, prio>>
  BY <1>1, <1>6, LanesSame, KeptTurns DEF Calm, Ignores
<1> QED
  BY <1>3, <1>5, <1>6

LEMMA TickTurns == ASSUME MakerOrdersAssumption, Sound, Tick PROVE Turns
<1>1. TypeOK /\ UNCHANGED <<prio, events>>
  BY DEF Sound, Tick
<1>2. CASE Sweep(0)
  BY <1>2 DEF Sweep, Turns
<1>3. CASE slot' = IdleSlot
  BY <1>3 DEF Turns
<1>4. CASE ~(sweep /\ Live(slot)) /\ UNCHANGED <<slot, fifo>>
  <2>1. CASE sweep
    <3>1. slot = IdleSlot
      BY <1>1, <1>4, <2>1 DEF Live, TypeOK, SlotOK
    <3> QED
      BY <1>4, <3>1 DEF Turns
  <2>2. CASE ~sweep
    BY <1>1, <1>4, <2>2, LanesSame DEF Turns, Stays, Ignores
  <2> QED
    BY <2>1, <2>2
<1> QED
  BY <1>2, <1>3, <1>4 DEF Tick

\* Each answer.
LEMMA ExecEventTurns == ASSUME MakerOrdersAssumption, Sound, ExecEvent PROVE Turns
<1> DEFINE e == Head(events)
<1>1. /\ TypeOK /\ Evidence /\ SlotIsTrue /\ SlotOK(slot) /\ prio \in Seq(Commands)
      /\ events # <<>> /\ events' = Tail(events) /\ events[1] = e /\ 1 \in 1 .. Len(events)
      /\ e \in Events /\ (e.kind # "RateLimited" => e.id \in Ids /\ e.id # NoId)
  BY AnswerTaken, NoOrder
<1>2. CASE e.kind = "PlaceAck" /\ OnPlaceAck(e.id)
  <2>1. CASE slot.id # e.id
    <3>1. slot' = slot /\ sweep' = sweep /\ SameLanes
      BY <1>1, <1>2, <2>1, LanesSame DEF OnPlaceAck, Calm
    <3> QED
      BY <1>1, <2>1, <3>1, KeptTurns DEF Ignores
  <2>2. CASE slot.id = e.id
    <3>1. ~slot.acked /\ slot.state \in {"PendingPlace", "PendingCancel"}
      BY <1>1, <1>2, <2>2, SlotIdle DEF Evidence, SlotOK, Slots
    <3> DEFINE s == Acked(slot)
    <3>2. /\ SlotOK(s) /\ s.id = slot.id /\ s.next = slot.next
          /\ s.state = IF slot.state = "PendingPlace" THEN "Open" ELSE slot.state
      BY <1>1, <3>1, SlotAcked
    <3>3. \/ slot' = s /\ Calm /\ UNCHANGED prio
          \/ slot' = CancelSent(s) /\ prio' = Append(prio, Command("cancel", e.id, NoId))
          \/ FreezeAndSweep(1)
      BY <1>2, <2>2 DEF OnPlaceAck
    <3> HIDE DEF s
    <3>4. CASE slot' = s /\ Calm /\ UNCHANGED prio
      <4>1. SameLanes /\ sweep' = sweep
        BY <1>1, <3>4, LanesSame DEF Calm
      <4>2. CASE slot.state = "PendingPlace"
        BY <3>2, <3>4, <4>1, <4>2 DEF Turns, Opens
      <4>3. CASE slot.state = "PendingCancel"
        <5>1. Ignores
          BY <1>1, <1>2, <4>3 DEF Ignores, CancelAnswers
        <5> QED
          BY <3>2, <3>4, <4>1, <4>3, <5>1 DEF Turns, Stays
      <4> QED
        BY <3>1, <4>2, <4>3
    <3>5. CASE slot' = CancelSent(s) /\ prio' = Append(prio, Command("cancel", e.id, NoId))
      <4>1. slot'.state = "PendingCancel" /\ slot'.id = s.id
        BY <3>1, <3>2, <3>5, SlotCancelled
      <4> DEFINE c == Command("cancel", e.id, NoId)
      <4>2. c.id = e.id /\ c \in Commands
        BY <1>1, <1>2, CommandIs DEF CommandOK
      <4>3. prio' = Append(prio, c)
        BY <3>5
      <4> HIDE DEF c
      <4>4. Len(prio) + 1 \in 1 .. Len(prio') /\ prio'[Len(prio) + 1] = c
        <5>1. Len(prio) \in Nat /\ Len(prio') = Len(prio) + 1 /\ prio'[Len(prio) + 1] = c
          BY <1>1, <4>2, <4>3, Appended, LenProperties
        <5> QED
          BY <5>1
      <4> QED
        BY <2>2, <3>2, <4>1, <4>2, <4>4 DEF Turns, Cancels, Cancelling
    <3>6. CASE FreezeAndSweep(1)
      BY <3>6 DEF FreezeAndSweep, Sweep, Turns
    <3> QED
      BY <3>3, <3>4, <3>5, <3>6
  <2> QED
    BY <2>1, <2>2
<1>3. CASE e.kind = "PlaceReject" /\ OnClosed(e.id)
  <2>1. CASE slot.id = e.id
    BY <1>3, <2>1 DEF OnClosed, Turns
  <2>2. CASE slot.id # e.id
    <3>1. slot' = slot /\ sweep' = sweep /\ SameLanes
      BY <1>1, <1>3, <2>2, LanesSame DEF OnClosed, Calm
    <3> QED
      BY <1>1, <2>2, <3>1, KeptTurns DEF Ignores
  <2> QED
    BY <2>1, <2>2
<1>4. CASE e.kind = "CancelAck" /\ OnCancelAck(e.id)
  <2>1. sweep' = sweep /\ SameLanes
    BY <1>1, <1>4, LanesSame DEF OnCancelAck, Calm
  <2>2. CASE slot.id # e.id
    BY <1>1, <1>4, <2>1, <2>2, KeptTurns DEF Ignores, OnCancelAck
  <2>3. CASE slot.id = e.id /\ slot.state = "PendingReplace"
    <3>1. slot' = CancelAcked(slot)
      BY <1>4, <2>3 DEF OnCancelAck
    <3>2. slot'.state = "PendingPlace" /\ slot'.id = slot.next /\ slot'.next = NoId
      BY <1>1, <2>3, <3>1, SlotPromoted
    <3> QED
      BY <1>1, <1>4, <2>1, <2>3, <3>2 DEF Turns, Promotes
  <2>4. CASE slot.id = e.id /\ slot.state # "PendingReplace"
    <3>1. slot' = CancelAcked(slot)
      BY <1>4, <2>4 DEF OnCancelAck
    <3> QED
      BY <1>1, <2>4, <3>1, SlotPromoted DEF Turns
  <2> QED
    BY <2>2, <2>3, <2>4
<1>5. CASE e.kind \in {"PlaceUnknown", "CancelReject"} /\ OnUnknown(e.id)
  BY <1>5 DEF OnUnknown, FreezeAndSweep, Sweep, Turns
<1>6. CASE e.kind = "RateLimited" /\ OnRateLimited
  BY <1>6 DEF OnRateLimited, Turns
<1>7. CASE e.kind \in {"Terminal", "Resting"} /\ OnProgress(e)
  <2>1. Ignores
    BY <1>1, <1>7 DEF Ignores, PlaceAnswers, CancelAnswers
  <2>2. e.cum <= venue[e.id].filled /\ e.cum \in 0 .. Lots /\ e.id \in Ids
    BY <1>1, <1>7 DEF Evidence, Events
  <2>3. CASE PullQuote(FillProgress(slot, e.id, e.cum))
    <3> DEFINE s == FillProgress(slot, e.id, e.cum)
    <3>1. SlotOK(s) /\ ((s.state = slot.state /\ s.id = slot.id /\ s.next = slot.next) \/ s = IdleSlot)
      BY <1>1, <2>2, FilledWaits
    <3>2. PullQuote(s)
      BY <2>3
    <3> HIDE DEF s
    <3> QED
      BY <1>1, <2>1, <3>1, <3>2, PullTurns
  <2>4. CASE FreezeAndSweep(1)
    BY <2>4 DEF FreezeAndSweep, Sweep, Turns
  <2>5. CASE Calm /\ UNCHANGED <<slot, prio>>
    BY <1>1, <2>1, <2>5, LanesSame, KeptTurns DEF Calm
  <2> QED
    BY <1>7, <2>3, <2>4, <2>5 DEF OnProgress
<1> QED
  BY <1>2, <1>3, <1>4, <1>5, <1>6, <1>7 DEF ExecEvent

LEMMA StrategyAwaited ==
    ASSUME MakerOrdersAssumption, Sound, Awaited,
           CancelQuote \/ GateCloses \/ Fill \/ ExecEvent \/ Tick \/ Quiesce \/ SendStop
    PROVE  Awaited'
<1>1. Turns
  BY CancelQuoteTurns, GateClosesTurns, FillTurns, ExecEventTurns, TickTurns, QuiesceTurns, SendStopTurns
<1>2. Learns
  BY StrategyLearns
<1> QED
  BY <1>1, <1>2, TurnsAwaited DEF Sound

-----------------------------------------------------------------------------
(* The worker's side: a command that is taken is carried on or answered,   *)
(* and only the cancel of an order, or its replacement, says that it was   *)
(* cancelled.                                                              *)

\* The step tells of the order.
Tells(kinds, x) == \E k \in 1 .. Len(events') : k > Len(events) /\ events'[k].kind \in kinds /\ events'[k].id = x

Replies ==
    /\ slot' = slot /\ sweep' = sweep
    /\ Shrinks(prio, prio') /\ Shrinks(fifo, fifo') /\ Extends(events, events')
    /\ \A x \in Ids : Sending(x) => Sending(x)' \/ Tells(PlaceAnswers, x)
    /\ \A x \in Ids : Cancelling(x) => Cancelling(x)' \/ Tells(CancelAnswers, x)
    /\ \A k \in 1 .. Len(fifo) : fifo[k].op = "replace" =>
         (\E j \in 1 .. Len(fifo') : fifo'[j] = fifo[k]) \/ Tells(CancelAnswers, fifo[k].old)
    /\ \A k \in 1 .. Len(events') : k > Len(events) /\ events'[k].kind = "CancelAck" =>
         \/ Cancelling(events'[k].id)
         \/ \E j \in 1 .. Len(fifo) :
              /\ fifo[j].op = "replace" /\ fifo[j].old = events'[k].id
              /\ \A y \in Ids : y = fifo[j].id =>
                   \/ Sending(y)'
                   \/ \E i \in 1 .. Len(events') : i > k /\ events'[i].kind \in PlaceAnswers /\ events'[i].id = y

\* What is told is heard.
LEMMA Heard ==
    ASSUME Extends(events, events'), NEW kinds, NEW x
    PROVE  /\ Tells(kinds, x) => Told(kinds, x)'
           /\ Told(kinds, x) => Told(kinds, x)'
<1>1. \A k \in 1 .. Len(events) : k \in 1 .. Len(events') /\ events'[k] = events[k]
  BY DEF Extends
<1> QED
  BY <1>1 DEF Tells, Told

LEMMA ShrinkCancels ==
    ASSUME TypeOK, Shrinks(prio, prio'), Shrinks(fifo, fifo')
    PROVE  /\ \A x : Cancelling(x)' => Cancelling(x)
           /\ \A k \in 1 .. Len(fifo') : \E j \in 1 .. Len(fifo) : fifo'[k] = fifo[j]
<1>1. /\ \A k \in 1 .. Len(fifo') : \E j \in 1 .. Len(fifo) : fifo'[k] = fifo[j]
      /\ \A k \in 1 .. Len(prio') : \E j \in 1 .. Len(prio) : prio'[k] = prio[j]
  BY ShrunkWas DEF TypeOK
<1>2. \A x : Cancelling(x)' => Cancelling(x)
  BY <1>1 DEF Cancelling
<1> QED
  BY <1>1, <1>2

LEMMA RepliesUncancelled ==
    ASSUME TypeOK, slot' = slot, Shrinks(prio, prio'), Shrinks(fifo, fifo'), Uncancelled
    PROVE  Uncancelled'
<1>1. ASSUME NEW x \in {slot'.id, slot'.next} \ {NoId} PROVE ~Cancelling(x)'
  BY <1>1, ShrinkCancels DEF Uncancelled
<1>2. ASSUME NEW x \in {slot'.id, slot'.next} \ {NoId}, NEW k \in 1 .. Len(fifo'), fifo'[k].op = "replace", fifo'[k].old = x
      PROVE  fifo'[k].id = slot'.next
  <2>1. \E j \in 1 .. Len(fifo) : fifo'[k] = fifo[j]
    BY ShrinkCancels
  <2> QED
    BY <1>2, <2>1 DEF Uncancelled
<1> QED
  BY <1>1, <1>2 DEF Uncancelled

\* What the replacement is promised is given or stays promised, and a cancel of the slot's order is
\* acknowledged with the promise.
LEMMA RepliesPromised ==
    ASSUME MakerOrdersAssumption, TypeOK, slot.state = "PendingReplace", Replies, Uncancelled, Promised
    PROVE  Promised'
<1> SUFFICES ASSUME NEW k \in 1 .. Len(events'), events'[k].kind = "CancelAck", events'[k].id = slot'.id
             PROVE  \/ Sending(slot.next)'
                    \/ \E j \in 1 .. Len(events') : j > k /\ events'[j].kind \in PlaceAnswers /\ events'[j].id = slot'.next
  BY DEF Promised
<1>1. /\ slot' = slot /\ Extends(events, events') /\ Len(events) \in Nat /\ Len(events') \in Nat /\ Len(events) <= Len(events')
      /\ \A i \in 1 .. Len(events) : i \in 1 .. Len(events') /\ events'[i] = events[i]
  BY DEF Replies, Extends
<1>2. slot.next \in Ids /\ slot.id \in Ids /\ slot.next # NoId /\ slot.id # NoId
  BY SlotFields, NoOrder DEF TypeOK
<1>3. PICK y \in Ids : y = slot.next /\ y = slot'.next
  BY <1>1, <1>2
<1>4. Sending(y)' => Sending(slot.next)'
  BY <1>3 DEF Sending, Queued
<1>5. CASE k \in 1 .. Len(events)
  <2>1. \/ Sending(y)
        \/ \E j \in 1 .. Len(events) : j > k /\ events[j].kind \in PlaceAnswers /\ events[j].id = y
    BY <1>1, <1>3, <1>5 DEF Promised
  <2>2. CASE Sending(y)
    <3>1. Sending(y)' \/ Tells(PlaceAnswers, y)
      BY <2>2 DEF Replies
    <3>2. Tells(PlaceAnswers, y) =>
            \E j \in 1 .. Len(events') : j > k /\ events'[j].kind \in PlaceAnswers /\ events'[j].id = slot'.next
      BY <1>1, <1>3, <1>5 DEF Tells
    <3> QED
      BY <1>4, <3>1, <3>2
  <2>3. ASSUME NEW j \in 1 .. Len(events), j > k, events[j].kind \in PlaceAnswers, events[j].id = y
        PROVE  \E i \in 1 .. Len(events') : i > k /\ events'[i].kind \in PlaceAnswers /\ events'[i].id = slot'.next
    BY <1>1, <1>3, <2>3
  <2> QED
    BY <2>1, <2>2, <2>3
<1>6. CASE k \notin 1 .. Len(events)
  <2>1. k > Len(events)
    BY <1>1, <1>6
  <2>2. ~Cancelling(events'[k].id)
    BY <1>1, <1>2 DEF Uncancelled
  <2>3. PICK j \in 1 .. Len(fifo) :
              /\ fifo[j].op = "replace" /\ fifo[j].old = slot.id
              /\ \A z \in Ids : z = fifo[j].id =>
                   \/ Sending(z)'
                   \/ \E i \in 1 .. Len(events') : i > k /\ events'[i].kind \in PlaceAnswers /\ events'[i].id = z
    BY <1>1, <2>1, <2>2 DEF Replies
  <2>4. fifo[j].id = y
    BY <1>2, <1>3, <2>3 DEF Uncancelled
  <2>5. \/ Sending(y)'
        \/ \E i \in 1 .. Len(events') : i > k /\ events'[i].kind \in PlaceAnswers /\ events'[i].id = y
    BY <2>3, <2>4
  <2> QED
    BY <1>3, <1>4, <2>5
<1> QED
  BY <1>5, <1>6

LEMMA RepliesAwaited ==
    ASSUME MakerOrdersAssumption, TypeOK, SlotIsTrue, Awaited, Replies PROVE Awaited'
<1>1. slot' = slot /\ sweep' = sweep /\ Shrinks(prio, prio') /\ Shrinks(fifo, fifo') /\ Extends(events, events')
  BY DEF Replies
<1>2. Uncancelled => Uncancelled'
  BY <1>1, RepliesUncancelled
<1>3. PICK x : x = slot.id /\ x = slot'.id
  BY <1>1
<1>4. PICK y : y = slot.next /\ y = slot'.next
  BY <1>1
<1>5. /\ Sending(x)' => Sending(slot.id)'
      /\ Cancelling(x)' => Cancelling(slot.id)'
      /\ Queued(y)' => Queued(slot.next)'
      /\ Told(PlaceAnswers, x)' => Told(PlaceAnswers, slot.id)'
      /\ Told(CancelAnswers, x)' => Told(CancelAnswers, slot.id)'
  BY <1>3, <1>4 DEF Sending, Cancelling, Queued, Told, PlaceAnswers, CancelAnswers
<1>6. /\ Tells(PlaceAnswers, x) \/ Told(PlaceAnswers, x) => Told(PlaceAnswers, x)'
      /\ Tells(CancelAnswers, x) \/ Told(CancelAnswers, x) => Told(CancelAnswers, x)'
  BY <1>1, Heard
<1>7. slot.state # "Idle" => x \in Ids
  BY <1>3, SlotFields DEF TypeOK
<1>8. CASE sweep \/ slot.state = "Idle"
  BY <1>1, <1>8 DEF Awaited
<1>9. CASE slot.state = "Open" /\ Uncancelled
  BY <1>1, <1>2, <1>9 DEF Awaited
<1>10. CASE slot.state = "PendingPlace" /\ Uncancelled /\ (Sending(x) \/ Told(PlaceAnswers, x))
  <2>1. Sending(x) => Sending(x)' \/ Tells(PlaceAnswers, x)
    BY <1>7, <1>10 DEF Replies
  <2> QED
    BY <1>1, <1>2, <1>5, <1>6, <1>10, <2>1 DEF Awaited
<1>11. CASE slot.state = "PendingCancel" /\ (Cancelling(x) \/ Told(CancelAnswers, x))
  <2>1. Cancelling(x) => Cancelling(x)' \/ Tells(CancelAnswers, x)
    BY <1>7, <1>11 DEF Replies
  <2> QED
    BY <1>1, <1>5, <1>6, <1>11, <2>1 DEF Awaited
<1>12. CASE slot.state = "PendingReplace" /\ Uncancelled /\ Promised /\ (Queued(y) \/ Told(CancelAnswers, x))
  <2>1. Promised'
    BY <1>12, RepliesPromised
  <2>2. ASSUME Queued(y) PROVE Queued(y)' \/ Tells(CancelAnswers, x)
    <3>1. PICK k \in 1 .. Len(fifo) : Placing(fifo[k]) /\ fifo[k].id = y
      BY <2>2 DEF Queued
    <3>2. fifo[k].op = "replace" /\ fifo[k].old = x
      BY <1>3, <1>4, <3>1 DEF SlotIsTrue
    <3>3. (\E j \in 1 .. Len(fifo') : fifo'[j] = fifo[k]) \/ Tells(CancelAnswers, fifo[k].old)
      BY <3>2 DEF Replies
    <3> QED
      BY <3>1, <3>2, <3>3 DEF Queued
  <2> QED
    BY <1>1, <1>2, <1>5, <1>6, <1>12, <2>1, <2>2 DEF Awaited
<1> QED
  BY <1>3, <1>4, <1>8, <1>9, <1>10, <1>11, <1>12 DEF Awaited

\* What is said.
In(e, es) == \E i \in 1 .. Len(es) : es[i] = e

NoAcks(es) == es \in Seq(Events) /\ \A i \in 1 .. Len(es) : es[i].kind # "CancelAck"

\* The step acknowledges no cancel.
Silent == \A k \in 1 .. Len(events') : k > Len(events) => events'[k].kind # "CancelAck"

LEMMA SaidIn ==
    ASSUME TypeOK, NEW es \in Seq(Events), Say(es)
    PROVE  /\ Extends(events, events')
           /\ \A kinds : \A e : In(e, es) /\ e.kind \in kinds => Tells(kinds, e.id)
           /\ NoAcks(es) => Silent
           /\ \A k \in 1 .. Len(events') : k > Len(events) => In(events'[k], es)
<1>1. events \in Seq(Events) /\ events' = events \o es
  BY DEF TypeOK, Say
<1>2. /\ Extends(events, events') /\ Len(events) \in Nat /\ Len(es) \in Nat
      /\ \A k \in 1 .. Len(events') : k \in 1 .. Len(events) \/ (k - Len(events) \in 1 .. Len(es) /\ events'[k] = es[k - Len(events)])
      /\ \A k \in 1 .. Len(es) : Len(events) + k \in 1 .. Len(events') /\ events'[Len(events) + k] = es[k]
  BY <1>1, Joined
<1>3. ASSUME NEW kinds, NEW i \in 1 .. Len(es), es[i].kind \in kinds PROVE Tells(kinds, es[i].id)
  <2>1. Len(events) + i \in 1 .. Len(events') /\ events'[Len(events) + i] = es[i] /\ Len(events) + i > Len(events)
    BY <1>2
  <2> QED
    BY <1>3, <2>1 DEF Tells
<1>4. ASSUME NEW k \in 1 .. Len(events'), k > Len(events) PROVE In(events'[k], es)
  <2>1. k - Len(events) \in 1 .. Len(es) /\ events'[k] = es[k - Len(events)]
    BY <1>2, <1>4
  <2> QED
    BY <2>1 DEF In
<1>5. NoAcks(es) => Silent
  BY <1>4 DEF NoAcks, Silent, In
<1> QED
  BY <1>2, <1>3, <1>4, <1>5 DEF In

LEMMA InOne == ASSUME NEW e \in Events PROVE <<e>> \in Seq(Events) /\ In(e, <<e>>) /\ (e.kind # "CancelAck" => NoAcks(<<e>>))
<1>1. <<e>> \in Seq(Events) /\ Len(<<e>>) = 1 /\ <<e>>[1] = e
  OBVIOUS
<1> QED
  BY <1>1 DEF In, NoAcks

LEMMA InNone == <<>> \in Seq(Events) /\ NoAcks(<<>>)
<1>1. <<>> \in Seq(Events) /\ Len(<<>>) = 0
  BY EmptySeq
<1> QED
  BY <1>1 DEF NoAcks

LEMMA InBoth ==
    ASSUME NEW a \in Seq(Events), NEW b \in Seq(Events)
    PROVE  /\ a \o b \in Seq(Events)
           /\ \A e : In(e, a) \/ In(e, b) => In(e, a \o b)
           /\ NoAcks(a) /\ NoAcks(b) => NoAcks(a \o b)
<1> DEFINE c == a \o b
<1>1. /\ c \in Seq(Events) /\ Extends(a, c)
      /\ \A k \in 1 .. Len(c) : k \in 1 .. Len(a) \/ (k - Len(a) \in 1 .. Len(b) /\ c[k] = b[k - Len(a)])
      /\ \A k \in 1 .. Len(b) : Len(a) + k \in 1 .. Len(c) /\ c[Len(a) + k] = b[k]
  BY Joined
<1> HIDE DEF c
<1>2. \A k \in 1 .. Len(a) : k \in 1 .. Len(c) /\ c[k] = a[k]
  BY <1>1 DEF Extends
<1>3. ASSUME NEW e, In(e, a) \/ In(e, b) PROVE In(e, c)
  BY <1>1, <1>2, <1>3 DEF In
<1>4. ASSUME NoAcks(a), NoAcks(b), NEW k \in 1 .. Len(c) PROVE c[k].kind # "CancelAck"
  <2>1. CASE k \in 1 .. Len(a)
    BY <1>2, <1>4, <2>1 DEF NoAcks
  <2>2. CASE k - Len(a) \in 1 .. Len(b) /\ c[k] = b[k - Len(a)]
    BY <1>4, <2>2 DEF NoAcks
  <2> QED
    BY <1>1, <2>1, <2>2
<1>5. NoAcks(a) /\ NoAcks(b) => NoAcks(c)
  BY <1>1, <1>4 DEF NoAcks
<1> QED
  BY <1>1, <1>3, <1>5 DEF c

LEMMA InLimited ==
    ASSUME MakerOrdersAssumption, NEW es \in Seq(Events)
    PROVE  /\ Limited(es) \in Seq(Events)
           /\ \A e : In(e, es) => In(e, Limited(es))
           /\ NoAcks(es) => NoAcks(Limited(es))
<1> DEFINE f == Event("RateLimited", NoId)
<1>1. f \in Events /\ f.kind = "RateLimited"
  BY EventIs
<1> HIDE DEF f
<1>2. <<f>> \in Seq(Events) /\ NoAcks(<<f>>)
  BY <1>1, InOne
<1> DEFINE b == <<f>>
<1> HIDE DEF b
<1>3. /\ es \o b \in Seq(Events)
      /\ \A e : In(e, es) \/ In(e, b) => In(e, es \o b)
      /\ NoAcks(es) /\ NoAcks(b) => NoAcks(es \o b)
  BY <1>2, InBoth DEF b
<1> QED
  BY <1>2, <1>3 DEF Limited, b, f

\* A place that is answered unsent is told of: its ticket was not claimed.
LEMMA RejectSays ==
    ASSUME MakerOrdersAssumption, TypeOK, NEW id \in Ids, adm[id] \in {"queued", "revoked", "cancelled"},
           NEW before \in Seq(Events), NEW after \in Seq(Events), RejectUnsent(id, before, after)
    PROVE  /\ Extends(events, events') /\ Tells(PlaceAnswers, id)
           /\ \A kinds : \A e : In(e, before) /\ e.kind \in kinds => Tells(kinds, e.id)
           /\ NoAcks(before) /\ NoAcks(after) => Silent
<1> DEFINE e == Event("PlaceReject", id)
<1>1. e \in Events /\ e.kind = "PlaceReject" /\ e.id = id
  BY EventIs
<1>2. adm'[id] = "cancelled"
  BY CancelledIs DEF RejectUnsent, TypeOK
<1>3. Say(before \o <<e>> \o after)
  BY <1>2 DEF RejectUnsent
<1> HIDE DEF e
<1> DEFINE b == <<e>>
<1>4. b \in Seq(Events) /\ In(e, b) /\ NoAcks(b)
  BY <1>1, InOne
<1> HIDE DEF b
<1> DEFINE c == before \o b
<1>5. /\ c \in Seq(Events)
      /\ \A f : In(f, before) \/ In(f, b) => In(f, c)
      /\ NoAcks(before) /\ NoAcks(b) => NoAcks(c)
  BY <1>4, InBoth
<1> HIDE DEF c
<1> DEFINE d == c \o after
<1>6. /\ d \in Seq(Events)
      /\ \A f : In(f, c) \/ In(f, after) => In(f, d)
      /\ NoAcks(c) /\ NoAcks(after) => NoAcks(d)
  BY <1>5, InBoth
<1>7. Say(d)
  BY <1>3 DEF d, c, b
<1> HIDE DEF d
<1>8. /\ Extends(events, events')
      /\ \A kinds : \A f : In(f, d) /\ f.kind \in kinds => Tells(kinds, f.id)
      /\ NoAcks(d) => Silent
  BY <1>6, <1>7, SaidIn
<1>9. Tells(PlaceAnswers, id)
  BY <1>1, <1>4, <1>5, <1>6, <1>8 DEF PlaceAnswers
<1> QED
  BY <1>4, <1>5, <1>6, <1>8, <1>9

\* What is left when a command was taken.
LEMMA TakenLeaves ==
    ASSUME MakerOrdersAssumption, TypeOK, TakeNext
    PROVE  /\ Shrinks(prio, prio') /\ Shrinks(fifo, fifo')
           /\ \A x : Cancelling(x) => Cancelling(x)' \/ (NextCommand.op = "cancel" /\ NextCommand.id = x)
           /\ \A x \in Ids : Sending(x) => Queued(x)' \/ followup'.id = x \/ (Placing(NextCommand) /\ NextCommand.id = x)
           /\ \A k \in 1 .. Len(fifo) : (\E j \in 1 .. Len(fifo') : fifo'[j] = fifo[k]) \/ fifo[k] = NextCommand
<1>1. /\ hand = NoCommand /\ Shrinks(prio, prio') /\ Shrinks(fifo, fifo')
      /\ \/ /\ prio # <<>> /\ NextCommand = Head(prio) /\ followup' = followup /\ fifo' = fifo /\ NextCommand.op = "cancel"
         \/ /\ prio = <<>> /\ NextCommand = followup /\ fifo' = fifo /\ NextCommand.op = "place"
         \/ /\ prio = <<>> /\ followup = NoCommand /\ NextCommand = Head(fifo)
  BY Taken
<1>2. prio \in Seq(Commands) /\ fifo \in Seq(Commands)
  BY DEF TypeOK
<1>3. prio = <<>> => prio' = prio
  BY DEF TakeNext
<1>4. ASSUME NEW q \in Seq(Commands), NEW r, Shrinks(q, r), NEW k \in 1 .. Len(q)
      PROVE  (\E j \in 1 .. Len(r) : r[j] = q[k]) \/ (q # <<>> /\ q[k] = Head(q))
  <2>1. CASE r = q
    BY <2>1
  <2>2. CASE /\ q # <<>> /\ Len(q) \in Nat /\ Len(r) \in Nat /\ Len(q) = Len(r) + 1 /\ q[1] = Head(q)
             /\ \A i \in 1 .. Len(r) : r[i] = q[i + 1]
    <3>1. CASE k = 1
      BY <2>2, <3>1
    <3>2. CASE k # 1
      <4>1. k - 1 \in 1 .. Len(r) /\ (k - 1) + 1 = k
        BY <2>2, <3>2
      <4> QED
        BY <2>2, <4>1
    <3> QED
      BY <3>1, <3>2
  <2> QED
    BY <1>4, <2>1, <2>2, Shrunk
<1>5. \A k \in 1 .. Len(prio) : (\E j \in 1 .. Len(prio') : prio'[j] = prio[k]) \/ prio[k] = NextCommand
  <2> TAKE k \in 1 .. Len(prio)
  <2>1. (\E j \in 1 .. Len(prio') : prio'[j] = prio[k]) \/ (prio # <<>> /\ prio[k] = Head(prio))
    BY <1>1, <1>2, <1>4
  <2>2. CASE prio = <<>>
    BY <1>3, <2>2
  <2> QED
    BY <1>1, <2>1, <2>2
<1>6. \A k \in 1 .. Len(fifo) : (\E j \in 1 .. Len(fifo') : fifo'[j] = fifo[k]) \/ fifo[k] = NextCommand
  <2> TAKE k \in 1 .. Len(fifo)
  <2>1. (\E j \in 1 .. Len(fifo') : fifo'[j] = fifo[k]) \/ (fifo # <<>> /\ fifo[k] = Head(fifo))
    BY <1>1, <1>2, <1>4
  <2>2. CASE fifo' = fifo
    BY <2>2
  <2> QED
    BY <1>1, <2>1, <2>2
<1>7. \A k \in 1 .. Len(prio) : prio[k].op = "cancel"
  BY DEF TypeOK
<1>8. \A x : Cancelling(x) => Cancelling(x)' \/ (NextCommand.op = "cancel" /\ NextCommand.id = x)
  <2> TAKE x
  <2>1. ASSUME NEW k \in 1 .. Len(prio), prio[k].id = x PROVE Cancelling(x)' \/ (NextCommand.op = "cancel" /\ NextCommand.id = x)
    BY <1>5, <1>7, <2>1 DEF Cancelling
  <2>2. ASSUME NEW k \in 1 .. Len(fifo), fifo[k].op = "cancel", fifo[k].id = x
        PROVE  Cancelling(x)' \/ (NextCommand.op = "cancel" /\ NextCommand.id = x)
    BY <1>6, <2>2 DEF Cancelling
  <2> QED
    BY <2>1, <2>2 DEF Cancelling
<1>9. \A x \in Ids : Sending(x) => Queued(x)' \/ followup'.id = x \/ (Placing(NextCommand) /\ NextCommand.id = x)
  <2> TAKE x \in Ids
  <2>1. Queued(x) => Queued(x)' \/ (Placing(NextCommand) /\ NextCommand.id = x)
    BY <1>6 DEF Queued
  <2>2. followup.id = x => followup'.id = x \/ (Placing(NextCommand) /\ NextCommand.id = x)
    BY <1>1, NothingSent DEF Placing
  <2>3. hand.id # x
    BY <1>1, NothingSent
  <2> QED
    BY <2>1, <2>2, <2>3 DEF Sending
<1> QED
  BY <1>1, <1>6, <1>8, <1>9

\* A command that is taken is answered.
LEMMA TakenReplies ==
    ASSUME MakerOrdersAssumption, TypeOK, TakeNext, slot' = slot, sweep' = sweep, Extends(events, events'),
           NEW x, x = NextCommand.id, Placing(NextCommand) => Sending(x)' \/ Tells(PlaceAnswers, x),
           NextCommand.op = "cancel" => Tells(CancelAnswers, x),
           NEW o, o = NextCommand.old, NextCommand.op = "replace" => Tells(CancelAnswers, o),
           \A k \in 1 .. Len(events') : k > Len(events) /\ events'[k].kind = "CancelAck" => Cancelling(events'[k].id)
    PROVE  Replies
<1>1. \A y \in Ids : Sending(y) => Sending(y)' \/ Tells(PlaceAnswers, y)
  BY TakenLeaves DEF Sending
<1>2. \A y \in Ids : Cancelling(y) => Cancelling(y)' \/ Tells(CancelAnswers, y)
  BY TakenLeaves
<1>3. \A k \in 1 .. Len(fifo) : fifo[k].op = "replace" =>
        (\E j \in 1 .. Len(fifo') : fifo'[j] = fifo[k]) \/ Tells(CancelAnswers, fifo[k].old)
  BY TakenLeaves
<1> QED
  BY <1>1, <1>2, <1>3, TakenLeaves DEF Replies

\* The command that is taken was in a lane, or follows one that was.
LEMMA TakenCancel ==
    ASSUME MakerOrdersAssumption, TypeOK, TakeNext, NextCommand.op = "cancel"
    PROVE  Cancelling(NextCommand.id)
<1>1. \/ NextCommand = prio[1] /\ 1 \in 1 .. Len(prio)
      \/ NextCommand = fifo[1] /\ 1 \in 1 .. Len(fifo)
  BY Taken
<1> QED
  BY <1>1 DEF Cancelling

\* A place that is taken had its ticket unclaimed.
LEMMA TakenTicket ==
    ASSUME MakerOrdersAssumption, TypeOK, Tickets, TakeNext, Placing(NextCommand)
    PROVE  NextCommand.id \in Ids /\ adm[NextCommand.id] \in {"queued", "revoked", "cancelled"}
<1>1. NextCommand.id \in Ids /\ hand = NoCommand
  BY Taken DEF CommandOK, Placing
<1>2. Queued(NextCommand.id) \/ followup.id = NextCommand.id
  BY Taken DEF Queued, Placing
<1> QED
  BY <1>1, <1>2, NothingSent DEF Tickets, Sending

\* A step of the worker that takes no command from a lane.
LEMMA KeptReplies ==
    ASSUME TypeOK, UNCHANGED <<slot, sweep, prio, fifo, followup>>, Extends(events, events'), Silent,
           NEW id, id = hand.id, id = hand'.id \/ Tells(PlaceAnswers, id) \/ id \notin Ids
    PROVE  Replies
<1>1. Shrinks(prio, prio') /\ Shrinks(fifo, fifo')
  BY DEF Shrinks
<1>2. \A x \in Ids : Sending(x) => Sending(x)' \/ Tells(PlaceAnswers, x)
  BY DEF Sending, Queued
<1>3. \A x : Cancelling(x) => Cancelling(x)'
  BY DEF Cancelling
<1> QED
  BY <1>1, <1>2, <1>3 DEF Replies, Silent

LEMMA NothingSaid == ASSUME TypeOK, events' = events PROVE Extends(events, events') /\ Silent
<1>1. Extends(events, events) /\ Len(events) \in Nat
  BY Same DEF TypeOK
<1> QED
  BY <1>1 DEF Silent

\* The venue, the reconciler's reads and the end of the drain take nothing from the lanes.
LEMMA IdleReplies ==
    ASSUME MakerOrdersAssumption, Sound,
           VenueFill \/ LateArrival \/ DeadmanFires \/ Snapshot \/ Finish \/ UNCHANGED vars
    PROVE  Replies
<1>1. TypeOK /\ UNCHANGED <<slot, sweep, prio, fifo, followup, hand, events>>
  BY DEF Sound, VenueFill, LateArrival, DeadmanFires, Snapshot, Finish, stratVars, laneVars, workVars, vars
<1> QED
  BY <1>1, NothingSaid, KeptReplies

LEMMA BackfillReplies == ASSUME MakerOrdersAssumption, Sound, Backfill PROVE Replies
<1>1. /\ TypeOK
      /\ UNCHANGED <<slot, sweep, uncertain, hand, followup, prio, fifo, venue>>
  BY DEF Sound, Backfill, stratVars, laneVars, workVars
<1>2. PICK id \in uncertain : Say(<<[kind |-> IF venue[id].st = "gone" THEN "Terminal" ELSE "Resting",
                                   id |-> id, cum |-> venue[id].filled]>>)
  BY DEF Backfill
<1> DEFINE kind == IF venue[id].st = "gone" THEN "Terminal" ELSE "Resting"
           e == [kind |-> kind, id |-> id, cum |-> venue[id].filled]
<1>3. id \in Ids /\ venue[id].filled \in 0 .. Lots
  BY <1>1 DEF TypeOK, Orders
<1>4. kind \in {"Terminal", "Resting"}
  OBVIOUS
<1> HIDE DEF kind
<1>5. e.kind = kind /\ e \in Events
  BY <1>3, <1>4 DEF Events
<1>6. Say(<<e>>)
  BY <1>2 DEF kind
<1> HIDE DEF e
<1>7. Extends(events, events') /\ Silent
  <2> DEFINE es == <<e>>
  <2>1. es \in Seq(Events) /\ NoAcks(es)
    BY <1>4, <1>5, InOne
  <2>2. Say(es)
    BY <1>6
  <2> HIDE DEF es
  <2> QED
    BY <1>1, <2>1, <2>2, SaidIn
<1> QED
  BY <1>1, <1>7, KeptReplies

\* A place that is looked at is in hand, or answered.
LEMMA CheckPlaceReplies == ASSUME MakerOrdersAssumption, Sound, CheckPlace PROVE Replies
<1>1. /\ TypeOK /\ Tickets /\ TakeNext /\ NextCommand.op = "place" /\ Placing(NextCommand)
      /\ UNCHANGED <<slot, sweep>>
  BY DEF Sound, CheckPlace, Placing
<1>2. PICK id \in Ids : id = NextCommand.id /\ adm[id] \in {"queued", "revoked", "cancelled"}
  BY <1>1, TakenTicket
<1>3. CASE RejectUnsent(id, <<>>, <<>>)
  <2>1. Extends(events, events') /\ Tells(PlaceAnswers, id) /\ Silent
    BY <1>1, <1>2, <1>3, InNone, RejectSays
  <2> QED
    BY <1>1, <1>2, <2>1, TakenReplies DEF Silent
<1>4. CASE hand' = [NextCommand EXCEPT !.op = "checked"] /\ UNCHANGED events
  <2>1. hand'.id = id
    <3>1. NextCommand = Command(NextCommand.op, NextCommand.id, NextCommand.old)
      BY <1>1, Taken DEF CommandOK, Commands, Command
    <3> QED
      BY <1>2, <1>4, <3>1, Reworded
  <2>2. Sending(id)'
    BY <2>1 DEF Sending
  <2>3. Extends(events, events') /\ Silent
    BY <1>1, <1>4, NothingSaid
  <2> QED
    BY <1>1, <1>2, <2>2, <2>3, TakenReplies DEF Silent
<1> QED
  BY <1>2, <1>3, <1>4 DEF CheckPlace

LEMMA RefusesPlaceReplies == ASSUME MakerOrdersAssumption, Sound, RefusesPlace PROVE Replies
<1>1. /\ TypeOK /\ Tickets /\ hand.op = "checked" /\ hand' = NoCommand
      /\ UNCHANGED <<slot, sweep, prio, fifo, followup>>
  BY DEF Sound, RefusesPlace, ClaimPlace, laneVars
<1>2. hand # NoCommand /\ hand.id \in Ids /\ hand = Command(hand.op, hand.id, hand.old)
  BY <1>1, NothingSent DEF TypeOK
<1>3. RejectUnsent(hand.id, <<>>, <<>>)
  <2>1. [hand EXCEPT !.op = "place"] # NoCommand
    BY <1>2, NothingSent, Reworded
  <2> QED
    BY <1>1, <2>1 DEF RefusesPlace, ClaimPlace
<1>4. PICK id \in Ids : id = hand.id
  BY <1>2
<1>5. adm[id] \in {"queued", "revoked", "cancelled"}
  BY <1>1, <1>4 DEF Tickets, Sending
<1>6. Extends(events, events') /\ Tells(PlaceAnswers, id) /\ Silent
  BY <1>1, <1>3, <1>4, <1>5, InNone, RejectSays
<1> QED
  BY <1>1, <1>4, <1>6, KeptReplies

LEMMA ClaimsPlaceReplies == ASSUME MakerOrdersAssumption, Sound, ClaimsPlace PROVE Replies
<1>1. TypeOK /\ UNCHANGED <<slot, sweep, prio, fifo, followup, events>> /\ hand.op = "checked"
  BY DEF Sound, ClaimsPlace
<1>2. hand' = [hand EXCEPT !.op = "place"] /\ hand = Command(hand.op, hand.id, hand.old)
  BY <1>1, NothingSent DEF TypeOK, ClaimsPlace
<1>3. hand'.id = hand.id
  BY <1>2, Reworded
<1> QED
  BY <1>1, <1>3, NothingSaid, KeptReplies

\* A place that was sent is answered.
LEMMA AnswerPlaceReplies == ASSUME MakerOrdersAssumption, Sound, AnswerPlace PROVE Replies
<1>1. /\ TypeOK /\ hand.op = "place" /\ UNCHANGED <<slot, sweep, prio, fifo, followup>>
  BY DEF Sound, AnswerPlace, stratVars, laneVars
<1>2. PICK id \in Ids : id = hand.id
  BY <1>1, NothingSent DEF TypeOK
<1>3. \E kind \in PlaceAnswers : Say(<<Event(kind, id)>>) \/ Say(Limited(<<Event(kind, id)>>))
  BY <1>2 DEF AnswerPlace, PlaceAnswers
<1>4. PICK kind \in PlaceAnswers : Say(<<Event(kind, id)>>) \/ Say(Limited(<<Event(kind, id)>>))
  BY <1>3
<1> DEFINE e == Event(kind, id)
<1>5. e \in Events /\ e.kind = kind /\ e.id = id
  BY EventIs DEF PlaceAnswers
<1> HIDE DEF e
<1> DEFINE es == <<e>>
<1>6. es \in Seq(Events) /\ In(e, es) /\ NoAcks(es)
  BY <1>5, InOne DEF PlaceAnswers
<1>7. Say(es) \/ Say(Limited(es))
  BY <1>4 DEF es, e
<1> HIDE DEF es
<1>8. Limited(es) \in Seq(Events) /\ In(e, Limited(es)) /\ NoAcks(Limited(es))
  BY <1>6, InLimited
<1>9. Extends(events, events') /\ Tells(PlaceAnswers, id) /\ Silent
  <2>1. CASE Say(es)
    BY <1>1, <1>5, <1>6, <2>1, SaidIn
  <2>2. CASE Say(Limited(es))
    BY <1>1, <1>5, <1>8, <2>2, SaidIn
  <2> QED
    BY <1>7, <2>1, <2>2
<1> QED
  BY <1>1, <1>2, <1>9, KeptReplies

\* A cancel that was taken is answered.
LEMMA DoCancelReplies == ASSUME MakerOrdersAssumption, Sound, DoCancel PROVE Replies
<1>1. /\ TypeOK /\ TakeNext /\ NextCommand.op = "cancel" /\ UNCHANGED <<slot, sweep>>
  BY DEF Sound, DoCancel, stratVars
<1>2. PICK id \in Ids : id = NextCommand.id
  BY <1>1, Taken DEF CommandOK
<1>3. \E kind \in CancelAnswers : Say(<<Event(kind, id)>>) \/ (kind = "CancelReject" /\ Say(Limited(<<Event(kind, id)>>)))
  BY <1>2 DEF DoCancel, CancelAnswers
<1>4. PICK kind \in CancelAnswers : Say(<<Event(kind, id)>>) \/ (kind = "CancelReject" /\ Say(Limited(<<Event(kind, id)>>)))
  BY <1>3
<1> DEFINE e == Event(kind, id)
<1>5. e \in Events /\ e.kind = kind /\ e.id = id
  BY EventIs DEF CancelAnswers
<1> HIDE DEF e
<1> DEFINE es == <<e>>
<1>6. es \in Seq(Events) /\ In(e, es) /\ (kind # "CancelAck" => NoAcks(es)) /\ \A f : In(f, es) => f = e
  BY <1>5, InOne DEF In
<1>7. Say(es) \/ (kind = "CancelReject" /\ Say(Limited(es)))
  BY <1>4 DEF es, e
<1> HIDE DEF es
<1>8. Limited(es) \in Seq(Events) /\ In(e, Limited(es)) /\ (NoAcks(es) => NoAcks(Limited(es)))
  BY <1>6, InLimited
<1>9. Cancelling(id)
  BY <1>1, <1>2, TakenCancel
<1>10. /\ Extends(events, events') /\ Tells(CancelAnswers, id)
       /\ \A k \in 1 .. Len(events') : k > Len(events) /\ events'[k].kind = "CancelAck" => Cancelling(events'[k].id)
  <2>1. CASE Say(es)
    <3>1. /\ Extends(events, events') /\ Tells(CancelAnswers, id)
          /\ \A k \in 1 .. Len(events') : k > Len(events) => In(events'[k], es)
      BY <1>1, <1>5, <1>6, <2>1, SaidIn
    <3> QED
      BY <1>5, <1>6, <1>9, <3>1
  <2>2. CASE kind = "CancelReject" /\ Say(Limited(es))
    <3>1. Extends(events, events') /\ Tells(CancelAnswers, id) /\ Silent
      BY <1>1, <1>5, <1>6, <1>8, <2>2, SaidIn
    <3> QED
      BY <3>1 DEF Silent
  <2> QED
    BY <1>7, <2>1, <2>2
<1>11. ~Placing(NextCommand)
  BY <1>1 DEF Placing
<1> QED
  BY <1>1, <1>2, <1>10, <1>11, TakenReplies

LEMMA DoCancelAllReplies == ASSUME MakerOrdersAssumption, Sound, DoCancelAll PROVE Replies
<1>1. /\ TypeOK /\ TakeNext /\ NextCommand.op = "cancelAll" /\ ~Placing(NextCommand) /\ UNCHANGED <<slot, sweep>>
      /\ events' = events \/ Say(Limited(<<>>))
  BY DEF Sound, DoCancelAll, stratVars, Placing
<1>2. Limited(<<>>) \in Seq(Events) /\ NoAcks(Limited(<<>>))
  BY InNone, InLimited
<1>3. Extends(events, events') /\ Silent
  BY <1>1, <1>2, NothingSaid, SaidIn
<1> QED
  BY <1>1, <1>3, TakenReplies DEF Silent

LEMMA DoBarrierReplies == ASSUME MakerOrdersAssumption, Sound, DoBarrier PROVE Replies
<1>1. TypeOK /\ TakeNext /\ NextCommand.op = "barrier" /\ ~Placing(NextCommand) /\ UNCHANGED <<slot, sweep, events>>
  BY DEF Sound, DoBarrier, stratVars, Placing
<1>2. Extends(events, events') /\ Silent
  BY <1>1, NothingSaid
<1> QED
  BY <1>1, <1>2, TakenReplies DEF Silent

\* A command that is answered unsent.
LEMMA RefuseUnsentReplies == ASSUME MakerOrdersAssumption, Sound, RefuseUnsent PROVE Replies
<1>1. TypeOK /\ Tickets /\ TakeNext /\ UNCHANGED <<slot, sweep>>
  BY DEF Sound, RefuseUnsent
<1>2. PICK c : c = NextCommand
  OBVIOUS
<1>3. CommandOK(c)
  BY <1>1, <1>2, Taken
<1>4. Limited(<<>>) \in Seq(Events) /\ NoAcks(Limited(<<>>)) /\ <<>> \in Seq(Events) /\ NoAcks(<<>>)
  BY InNone, InLimited
<1>5. Placing(c) => c.id \in Ids /\ adm[c.id] \in {"queued", "revoked", "cancelled"}
  BY <1>1, <1>2, TakenTicket
<1>6. CASE c.op = "place"
  <2>1. RejectUnsent(c.id, <<>>, Limited(<<>>)) /\ c.id \in Ids
    BY <1>2, <1>3, <1>6 DEF RefuseUnsent, CommandOK
  <2>2. Extends(events, events') /\ Tells(PlaceAnswers, c.id) /\ Silent
    BY <1>1, <1>4, <1>5, <1>6, <2>1, RejectSays DEF Placing
  <2> QED
    BY <1>1, <1>2, <1>6, <2>2, TakenReplies DEF Silent
<1>7. CASE c.op = "cancel"
  <2> DEFINE e == Event("CancelReject", c.id)
             es == <<e>>
  <2>1. Say(Limited(es)) /\ c.id \in Ids
    BY <1>2, <1>3, <1>7 DEF RefuseUnsent, CommandOK
  <2>2. e \in Events /\ e.kind = "CancelReject" /\ e.id = c.id
    BY <2>1, EventIs
  <2>3. es \in Seq(Events) /\ In(e, es) /\ NoAcks(es)
    BY <2>2, InOne
  <2> HIDE DEF e, es
  <2>4. Limited(es) \in Seq(Events) /\ In(e, Limited(es)) /\ NoAcks(Limited(es))
    BY <2>3, InLimited
  <2>5. Extends(events, events') /\ Tells(CancelAnswers, c.id) /\ Silent
    BY <1>1, <2>1, <2>2, <2>4, SaidIn DEF CancelAnswers
  <2>6. ~Placing(NextCommand) /\ NextCommand.op = "cancel"
    BY <1>2, <1>7 DEF Placing
  <2> QED
    BY <1>1, <1>2, <2>5, <2>6, TakenReplies DEF Silent
<1>8. CASE c.op = "replace"
  <2> DEFINE e == Event("CancelReject", c.old)
             es == <<e>>
  <2>1. RejectUnsent(c.id, es, Limited(<<>>)) /\ c.id \in Ids /\ c.old \in Ids
    BY <1>2, <1>3, <1>8 DEF RefuseUnsent, CommandOK
  <2>2. e \in Events /\ e.kind = "CancelReject" /\ e.id = c.old
    BY <2>1, EventIs
  <2>3. es \in Seq(Events) /\ In(e, es) /\ NoAcks(es)
    BY <2>2, InOne
  <2> HIDE DEF e, es
  <2>4. /\ Extends(events, events') /\ Tells(PlaceAnswers, c.id) /\ Silent
        /\ \A kinds : \A f : In(f, es) /\ f.kind \in kinds => Tells(kinds, f.id)
    BY <1>1, <1>4, <1>5, <1>8, <2>1, <2>3, RejectSays DEF Placing
  <2>5. Tells(CancelAnswers, c.old)
    BY <2>2, <2>3, <2>4 DEF CancelAnswers
  <2> QED
    BY <1>1, <1>2, <1>8, <2>4, <2>5, TakenReplies DEF Silent
<1>9. CASE c.op \notin {"place", "cancel", "replace"}
  <2>1. Say(Limited(<<>>))
    BY <1>2, <1>9 DEF RefuseUnsent
  <2>2. Extends(events, events') /\ Silent
    BY <1>1, <1>4, <2>1, SaidIn
  <2>3. ~Placing(NextCommand) /\ NextCommand.op \notin {"cancel", "replace"}
    BY <1>2, <1>9 DEF Placing
  <2> QED
    BY <1>1, <2>2, <2>3, TakenReplies DEF Silent
<1> QED
  BY <1>6, <1>7, <1>8, <1>9

\* A place that is answered unsent behind another answer: first the one, then the other.
LEMMA RejectBehind ==
    ASSUME MakerOrdersAssumption, TypeOK, NEW id \in Ids, adm[id] \in {"queued", "revoked", "cancelled"},
           NEW a \in Events, RejectUnsent(id, <<a>>, <<>>)
    PROVE  /\ Extends(events, events') /\ Len(events) \in Nat
           /\ Len(events') = Len(events) + 2 /\ events'[Len(events) + 1] = a
           /\ events'[Len(events) + 2].kind = "PlaceReject" /\ events'[Len(events) + 2].id = id
<1> DEFINE e == Event("PlaceReject", id)
<1>1. e \in Events /\ e.kind = "PlaceReject" /\ e.id = id
  BY EventIs
<1>2. adm'[id] = "cancelled"
  BY CancelledIs DEF RejectUnsent, TypeOK
<1>3. Say(<<a>> \o <<e>> \o <<>>)
  BY <1>2 DEF RejectUnsent
<1> HIDE DEF e
<1>0. ASSUME NEW x \in Events PROVE <<x>> \in Seq(Events) /\ Len(<<x>>) = 1 /\ <<x>>[1] = x
  OBVIOUS
<1>4. PICK p \in Seq(Events) : p = <<a>> /\ Len(p) = 1 /\ p[1] = a
  BY <1>0
<1>5. PICK q \in Seq(Events) : q = <<e>> /\ Len(q) = 1 /\ q[1] = e
  BY <1>0, <1>1
<1>6. PICK z \in Seq(Events) : z = <<>> /\ Len(z) = 0
  BY EmptySeq
<1> DEFINE c == p \o q
<1>7. /\ c \in Seq(Events) /\ Len(c) = 2
      /\ \A k \in 1 .. Len(p) : c[k] = p[k]
      /\ \A k \in 1 .. Len(q) : Len(p) + k \in 1 .. Len(c) /\ c[Len(p) + k] = q[k]
  BY <1>4, <1>5, Joined DEF Extends
<1>8. c[1] = a /\ c[2] = e
  <2>1. 1 \in 1 .. Len(p) /\ 1 \in 1 .. Len(q) /\ Len(p) + 1 = 2
    BY <1>4, <1>5
  <2>2. c[1] = p[1] /\ c[Len(p) + 1] = q[1]
    BY <1>7, <2>1
  <2> QED
    BY <1>4, <1>5, <2>1, <2>2
<1>9. Say(c \o z)
  BY <1>3, <1>4, <1>5, <1>6
<1> HIDE DEF c
<1> DEFINE d == c \o z
<1>10. /\ d \in Seq(Events) /\ Len(d) = 2
       /\ \A k \in 1 .. Len(c) : d[k] = c[k]
  BY <1>6, <1>7, Joined DEF Extends
<1>11. d[1] = a /\ d[2] = e
  BY <1>7, <1>8, <1>10
<1>12. events \in Seq(Events) /\ events' = events \o d /\ d \in Seq(Events)
  BY <1>9, <1>10 DEF TypeOK, Say
<1> HIDE DEF d
<1>13. /\ Extends(events, events') /\ Len(events) \in Nat /\ Len(events') = Len(events) + Len(d)
       /\ \A k \in 1 .. Len(d) : events'[Len(events) + k] = d[k]
  BY <1>12, Joined
<1>14. events'[Len(events) + 1] = d[1] /\ events'[Len(events) + 2] = d[2]
  BY <1>10, <1>13
<1> QED
  BY <1>1, <1>10, <1>11, <1>13, <1>14

\* A replace that was taken is answered: its cancel, and what becomes of its place.
LEMMA DoReplaceReplies == ASSUME MakerOrdersAssumption, Sound, DoReplace PROVE Replies
<1>1. /\ TypeOK /\ Tickets /\ SlotIsTrue /\ NextCommand.op = "replace" /\ UNCHANGED <<slot, sweep, prio, hand>>
      /\ hand = NoCommand /\ prio = <<>> /\ followup = NoCommand /\ fifo' = Tail(fifo)
  BY DEF Sound, DoReplace
<1>2. fifo # <<>> /\ NextCommand = Head(fifo)
  BY <1>1, NothingSent DEF NextCommand
<1>3. /\ Head(fifo) = fifo[1] /\ 1 \in 1 .. Len(fifo) /\ CommandOK(Head(fifo)) /\ Head(fifo).op = "replace"
      /\ Len(fifo) \in Nat /\ Len(fifo') \in Nat /\ Len(fifo) = Len(fifo') + 1
      /\ \A k \in 1 .. Len(fifo') : k + 1 \in 1 .. Len(fifo) /\ fifo'[k] = fifo[k + 1]
  BY <1>1, <1>2, FirstOfLane
<1>4. \A k \in 1 .. Len(fifo) : (\E j \in 1 .. Len(fifo') : fifo'[j] = fifo[k]) \/ k = 1
  <2> TAKE k \in 1 .. Len(fifo)
  <2>1. k # 1 => k - 1 \in 1 .. Len(fifo') /\ (k - 1) + 1 = k
    BY <1>3
  <2> QED
    BY <1>3, <2>1
<1>5. PICK old \in Ids, new \in Ids : old = fifo[1].old /\ new = fifo[1].id
  BY <1>3 DEF CommandOK
<1>6. Shrinks(prio, prio') /\ Shrinks(fifo, fifo')
  BY <1>1, <1>2 DEF Shrinks
<1>7. \E kind \in CancelAnswers :
        \/ followup' = Command("place", new, NoId) /\ Say(<<Event(kind, old)>>)
        \/ RejectUnsent(new, <<Event(kind, old)>>, <<>>) /\ UNCHANGED followup
  BY <1>2, <1>3, <1>5 DEF DoReplace, CancelAnswers
<1>8. PICK kind \in CancelAnswers :
        \/ followup' = Command("place", new, NoId) /\ Say(<<Event(kind, old)>>)
        \/ RejectUnsent(new, <<Event(kind, old)>>, <<>>) /\ UNCHANGED followup
  BY <1>7
<1> DEFINE e == Event(kind, old)
<1>9. e \in Events /\ e.kind = kind /\ e.id = old
  BY EventIs DEF CancelAnswers
<1> HIDE DEF e
<1>10. adm[new] \in {"queued", "revoked", "cancelled"}
  <2>1. Sending(new)
    BY <1>3, <1>5 DEF Sending, Queued, Placing
  <2> QED
    BY <1>1, <2>1, NothingSent DEF Tickets
<1>11. /\ Extends(events, events') /\ Tells(CancelAnswers, old)
       /\ Sending(new)' \/ Tells(PlaceAnswers, new)
       /\ \A k \in 1 .. Len(events') : k > Len(events) /\ events'[k].kind = "CancelAck" =>
            /\ events'[k].id = old
            /\ \/ Sending(new)'
               \/ \E i \in 1 .. Len(events') : i > k /\ events'[i].kind \in PlaceAnswers /\ events'[i].id = new
  <2>1. CASE followup' = Command("place", new, NoId) /\ Say(<<e>>)
    <3>1. Sending(new)'
      BY <2>1 DEF Sending, Command
    <3> DEFINE es == <<e>>
    <3>2. es \in Seq(Events) /\ In(e, es) /\ \A f : In(f, es) => f = e
      BY <1>9, InOne DEF In
    <3>3. Say(es)
      BY <2>1
    <3> HIDE DEF es
    <3>4. /\ Extends(events, events') /\ Tells(CancelAnswers, old)
          /\ \A k \in 1 .. Len(events') : k > Len(events) => In(events'[k], es)
      BY <1>1, <1>9, <3>2, <3>3, SaidIn
    <3> QED
      BY <1>9, <3>1, <3>2, <3>4
  <2>2. CASE RejectUnsent(new, <<e>>, <<>>)
    <3>1. /\ Extends(events, events') /\ Len(events) \in Nat
          /\ Len(events') = Len(events) + 2 /\ events'[Len(events) + 1] = e
          /\ events'[Len(events) + 2].kind = "PlaceReject" /\ events'[Len(events) + 2].id = new
      BY <1>1, <1>9, <1>10, <2>2, RejectBehind
    <3>2. PICK m : m = Len(events) + 2 /\ m \in 1 .. Len(events') /\ m > Len(events)
      BY <3>1
    <3>3. PICK l : l = Len(events) + 1 /\ l \in 1 .. Len(events') /\ l > Len(events) /\ m > l
      BY <3>1, <3>2
    <3>4. events'[m].kind \in PlaceAnswers /\ events'[m].kind # "CancelAck" /\ events'[m].id = new
          /\ events'[l].kind \in CancelAnswers /\ events'[l].id = old
      BY <1>9, <3>1, <3>2, <3>3 DEF PlaceAnswers
    <3>5. Tells(PlaceAnswers, new) /\ Tells(CancelAnswers, old)
      BY <3>2, <3>3, <3>4 DEF Tells
    <3>6. ASSUME NEW k \in 1 .. Len(events'), k > Len(events) PROVE k = l \/ k = m
      BY <3>1, <3>2, <3>3, <3>6
    <3> QED
      BY <3>1, <3>2, <3>3, <3>4, <3>5, <3>6
  <2> QED
    BY <1>8, <2>1, <2>2 DEF e
<1>12. \A x \in Ids : Sending(x) => Sending(x)' \/ Tells(PlaceAnswers, x)
  <2> SUFFICES ASSUME NEW x \in Ids, Sending(x) PROVE Sending(x)' \/ Tells(PlaceAnswers, x)
    OBVIOUS
  <2>1. Queued(x)
    BY <1>1, NothingSent DEF Sending
  <2>2. Queued(x)' \/ x = new
    BY <1>4, <1>5, <2>1 DEF Queued
  <2> QED
    BY <1>11, <2>2 DEF Sending
<1>13. \A x \in Ids : Cancelling(x) => Cancelling(x)'
  BY <1>1, <1>3, <1>4 DEF Cancelling
<1>14. \A k \in 1 .. Len(fifo) : fifo[k].op = "replace" =>
         (\E j \in 1 .. Len(fifo') : fifo'[j] = fifo[k]) \/ Tells(CancelAnswers, fifo[k].old)
  BY <1>4, <1>5, <1>11
<1>15. \A k \in 1 .. Len(events') : k > Len(events) /\ events'[k].kind = "CancelAck" =>
         \E j \in 1 .. Len(fifo) :
              /\ fifo[j].op = "replace" /\ fifo[j].old = events'[k].id
              /\ \A y \in Ids : y = fifo[j].id =>
                   \/ Sending(y)'
                   \/ \E i \in 1 .. Len(events') : i > k /\ events'[i].kind \in PlaceAnswers /\ events'[i].id = y
  <2> TAKE k \in 1 .. Len(events')
  <2> HAVE k > Len(events) /\ events'[k].kind = "CancelAck"
  <2>1. fifo[1].op = "replace" /\ fifo[1].old = events'[k].id /\ 1 \in 1 .. Len(fifo)
    BY <1>3, <1>5, <1>11
  <2>2. \A y \in Ids : y = fifo[1].id =>
                   \/ Sending(y)'
                   \/ \E i \in 1 .. Len(events') : i > k /\ events'[i].kind \in PlaceAnswers /\ events'[i].id = y
    BY <1>5, <1>11 DEF Sending, Queued
  <2> QED
    BY <2>1, <2>2
<1> QED
  BY <1>1, <1>6, <1>11, <1>12, <1>13, <1>14, <1>15 DEF Replies

-----------------------------------------------------------------------------
(* A new order waits for its place: it is queued, and nothing takes it     *)
(* down.                                                                   *)
LEMMA QuotesAwaited == ASSUME MakerOrdersAssumption, Sound, Awaited, NEW id \in Ids, Quotes(id) PROVE Awaited'
<1>1. TypeOK /\ Tickets /\ SlotIsTrue /\ NoId \notin Ids
  BY NoOrder DEF Sound
<1>2. adm[id] = "none" /\ UNCHANGED <<sweep, prio, events>>
  BY DEF Quotes
<1>3. venue[id].st = "none"
  BY <1>2, FreshIs
<1>4. /\ Len(fifo) \in Nat /\ Len(fifo') = Len(fifo) + 1 /\ \A k \in 1 .. Len(fifo) : fifo'[k] = fifo[k]
      /\ Placing(fifo'[Len(fifo) + 1]) /\ fifo'[Len(fifo) + 1].id = id
  BY DEF Quotes, Extends
<1>5. PICK n : n = Len(fifo) + 1 /\ n \in 1 .. Len(fifo')
  BY <1>4
<1>6. \A k \in 1 .. Len(fifo') : (k \in 1 .. Len(fifo) /\ fifo'[k] = fifo[k]) \/ k = n
  BY <1>4, <1>5
<1>7. Placing(fifo'[n]) /\ fifo'[n].id = id
  BY <1>4, <1>5
<1>8. \A x : Cancelling(x)' => Cancelling(x)
  <2> SUFFICES ASSUME NEW x, Cancelling(x)' PROVE Cancelling(x)
    OBVIOUS
  <2>1. CASE \E k \in 1 .. Len(prio') : prio'[k].id = x
    BY <1>2, <2>1 DEF Cancelling
  <2>2. CASE \E k \in 1 .. Len(fifo') : fifo'[k].op = "cancel" /\ fifo'[k].id = x
    BY <1>6, <1>7, <2>2 DEF Cancelling, Placing
  <2> QED
    BY <2>1, <2>2 DEF Cancelling
<1>9. ~Cancelling(id)'
  <2>1. ~Cancelling(id)
    BY <1>1, <1>2 DEF Cancelling, Tickets
  <2> QED
    BY <1>8, <2>1
<1>10. \A k \in 1 .. Len(fifo) : ~(fifo[k].op = "replace" /\ fifo[k].old = id)
  BY <1>1, <1>3 DEF SlotIsTrue
<1>11. Queued(id)' /\ Sending(id)'
  BY <1>5, <1>7 DEF Queued, Sending
<1>12. CASE sweep
  BY <1>2, <1>12 DEF Awaited
<1>13. CASE slot'.state = "PendingPlace" /\ slot'.id = id /\ slot'.next = NoId /\ fifo'[n].op = "place"
  <2>1. Uncancelled'
    <3>1. ASSUME NEW x \in {slot'.id, slot'.next} \ {NoId} PROVE ~Cancelling(x)'
      BY <1>9, <1>13, <3>1
    <3>2. ASSUME NEW x \in {slot'.id, slot'.next} \ {NoId}, NEW k \in 1 .. Len(fifo'), fifo'[k].op = "replace", fifo'[k].old = x
          PROVE  fifo'[k].id = slot'.next
      BY <1>6, <1>10, <1>13, <3>2
    <3> QED
      BY <3>1, <3>2 DEF Uncancelled
  <2>2. PICK y : y = slot'.id /\ y = id
    BY <1>13
  <2>3. Sending(y)' => Sending(slot.id)'
    BY <2>2 DEF Sending, Queued
  <2> QED
    BY <1>11, <1>13, <2>1, <2>2, <2>3 DEF Awaited
<1>14. CASE /\ ~sweep /\ slot.state = "Open" /\ slot'.state = "PendingReplace"
            /\ slot'.id = slot.id /\ slot'.next = id /\ slot.id \in Ids /\ slot.next = NoId
            /\ fifo'[n].op = "replace" /\ fifo'[n].old = slot.id
  <2>1. Uncancelled
    BY <1>14 DEF Awaited
  <2>2. ~Cancelling(slot.id) /\ \A k \in 1 .. Len(fifo) : fifo[k].op = "replace" /\ fifo[k].old = slot.id => fifo[k].id = NoId
    BY <1>1, <1>14, <2>1 DEF Uncancelled
  <2>3. \A k \in 1 .. Len(fifo) : ~(fifo[k].op = "replace" /\ fifo[k].old = slot.id)
    BY <1>1, <2>2 DEF TypeOK, CommandOK
  <2>4. Uncancelled'
    <3>1. ASSUME NEW x \in {slot'.id, slot'.next} \ {NoId} PROVE ~Cancelling(x)'
      BY <1>8, <1>9, <1>14, <2>2, <3>1
    <3>2. ASSUME NEW x \in {slot'.id, slot'.next} \ {NoId}, NEW k \in 1 .. Len(fifo'), fifo'[k].op = "replace", fifo'[k].old = x
          PROVE  fifo'[k].id = slot'.next
      BY <1>6, <1>7, <1>10, <1>14, <2>3, <3>2
    <3> QED
      BY <3>1, <3>2 DEF Uncancelled
  <2>5. PICK y : y = slot'.next /\ y = id
    BY <1>14
  <2>6. (Sending(y)' => Sending(slot.next)') /\ (Queued(y)' => Queued(slot.next)')
    BY <2>5 DEF Sending, Queued
  <2>7. Sending(slot.next)' /\ Queued(slot.next)'
    BY <1>11, <2>5, <2>6
  <2>8. Promised'
    BY <2>7 DEF Promised
  <2> QED
    BY <1>14, <2>4, <2>7, <2>8 DEF Awaited
<1> QED
  BY <1>5, <1>12, <1>13, <1>14 DEF Quotes

LEMMA InitAwaited == ASSUME MakerOrdersAssumption, Init PROVE Awaited
<1>1. slot = IdleSlot
  BY DEF Init
<1> QED
  BY <1>1, SlotIdle DEF Awaited, IdleSlot

\* Every step keeps what is awaited on its way.
LEMMA AwaitedKept == ASSUME MakerOrdersAssumption, Sound, Awaited, [Next]_vars PROVE Awaited'
<1>1. CASE \/ CancelQuote \/ GateCloses \/ Fill \/ ExecEvent \/ Tick \/ Quiesce \/ SendStop
  BY <1>1, StrategyAwaited
<1>2. ASSUME \/ CheckPlace \/ RefusesPlace \/ ClaimsPlace \/ AnswerPlace \/ DoCancel \/ DoReplace \/ DoCancelAll \/ DoBarrier
             \/ RefuseUnsent \/ VenueFill \/ LateArrival \/ DeadmanFires \/ Snapshot \/ Finish \/ Backfill \/ UNCHANGED vars
      PROVE  Awaited'
  <2>1. Replies
    BY <1>2, CheckPlaceReplies, RefusesPlaceReplies, ClaimsPlaceReplies, AnswerPlaceReplies, DoCancelReplies,
       DoReplaceReplies, DoCancelAllReplies, DoBarrierReplies, RefuseUnsentReplies, BackfillReplies, IdleReplies
  <2> QED
    BY <2>1, RepliesAwaited DEF Sound
<1>3. CASE ClaimPlace
  BY <1>2, <1>3, ClaimSplits
<1>4. CASE Place \/ Replace
  <2>1. PICK id \in Ids : Quotes(id)
    BY <1>4, PlaceQuotes, ReplaceQuotes
  <2> QED
    BY <2>1, QuotesAwaited
<1> QED
  BY <1>1, <1>2, <1>3, <1>4 DEF Next

-----------------------------------------------------------------------------
(* The theorems                                                            *)

LEMMA InvIs == IInv <=> Sound /\ Awaited
BY DEF IInv, Sound

\* The inductive invariant holds throughout: tickets, commands, answers, the slot and the venue agree,
\* and a slot that waits has its answer on the way.
THEOREM InvHolds == ASSUME MakerOrdersAssumption PROVE Spec => []IInv
<1>1. Init => IInv
  BY InitSound, InitAwaited, InvIs
<1>2. IInv /\ [Next]_vars => IInv'
  <2> SUFFICES ASSUME IInv, [Next]_vars PROVE IInv'
    OBVIOUS
  <2>1. Sound' /\ Awaited'
    BY InvIs, SoundKept, AwaitedKept
  <2> QED
    BY <2>1 DEF IInv, Sound
<1> QED
  BY <1>1, <1>2, PTL DEF Spec

\* No order rests at the venue unknown to the strategy, but one in flight or not yet in the snapshot
\* when a sweep cleared its slot.
THEOREM NoGhostHolds == ASSUME MakerOrdersAssumption PROVE Spec => []NoGhost
<1>1. IInv => NoGhost
  BY DEF IInv, Known, NoGhost, Resting, Out
<1> QED
  BY <1>1, InvHolds, PTL

LEMMA InvOneResting == IInv => OneResting
BY DEF IInv, Known, OneResting, Resting, Out

\* A waiting slot waits for something that is in a lane, in the worker's hands or among the answers.
LEMMA InvQuietIsSettled == ASSUME MakerOrdersAssumption PROVE IInv => QuietIsSettled
<1> SUFFICES ASSUME IInv, prio = <<>>, fifo = <<>>, followup = NoCommand, hand = NoCommand, events = <<>>, ~sweep
             PROVE  slot.state \in {"Idle", "Open"}
  BY DEF QuietIsSettled
<1>1. SlotOK(slot) /\ Awaited
  BY DEF IInv, TypeOK
<1>2. Len(prio) = 0 /\ Len(fifo) = 0 /\ Len(events) = 0
  BY EmptySeq
<1>3. \A x : ~Cancelling(x) /\ ~Queued(x) /\ ~Told(PlaceAnswers, x) /\ ~Told(CancelAnswers, x)
  BY <1>2 DEF Cancelling, Queued, Told
<1>4. slot.state # "Idle" => ~Sending(slot.id)
  BY <1>1, <1>3, NothingSent DEF SlotOK, Sending
<1> QED
  BY <1>1, <1>3, <1>4 DEF Awaited

LEMMA InvDrainedIsFlat == ASSUME MakerOrdersAssumption PROVE IInv => DrainedIsFlat
<1> SUFFICES ASSUME IInv, mode = "done", NEW id \in Ids PROVE venue[id].st \notin {"rest", "late"} /\ adm[id] # "queued"
  BY DEF DrainedIsFlat
<1>1. slot = IdleSlot /\ venue[id].st \notin {"rest", "late"}
  BY DEF IInv, Drained
<1>2. Ticket(slot) = NoId
  BY <1>1, SlotIdle DEF Ticket
<1>3. adm[id] # "queued"
  BY <1>2, NoOrder DEF IInv, Tickets
<1> QED
  BY <1>1, <1>3

\* Two orders of one side never rest together, no slot is left waiting for an answer that will not
\* come, and a drain that ended left no order at the venue and none on its way.
THEOREM SettlesHolds == ASSUME MakerOrdersAssumption PROVE Spec => []Settles
<1>1. IInv => Settles
  BY InvOneResting, InvQuietIsSettled, InvDrainedIsFlat DEF Settles
<1> QED
  BY <1>1, InvHolds, PTL
=============================================================================
