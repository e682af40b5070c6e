-------------------------- MODULE TakerSessionSafety --------------------------
(***************************************************************************)
(* IInv (TakerSession.tla) is inductive for every value of the constants;  *)
(* from it follow the barrier of the session marker, that one submission   *)
(* at most is in flight, that executions come one at a time, that a loss   *)
(* at the limit stops them, and that evidence on disk only grows.          *)
(***************************************************************************)
EXTENDS TakerSession, SequenceTheorems, TLAPS

USE TakerSessionAssumption DEF restVars, venueVars, ledgerVars, diskVars, flags, workVars

-----------------------------------------------------------------------------
(* Submissions                                                             *)

\* One order per venue asked, and only of the two venues.
LEMMA AskedTypes ==
    ASSUME NEW want \in [Venues -> Int]
    PROVE  Asked(want) \in Seq(Venues) /\ Len(Asked(want)) \in Nat
<1> DEFINE a == IF want["aster"] # 0 THEN <<"aster">> ELSE <<>>
           l == IF want["lighter"] # 0 THEN <<"lighter">> ELSE <<>>
<1>1. a \in Seq(Venues) /\ l \in Seq(Venues)
  <2>1. <<>> \in Seq(Venues) /\ <<"aster">> \in Seq(Venues) /\ <<"lighter">> \in Seq(Venues)
    BY DEF Venues
  <2> QED BY <2>1
<1>2. Asked(want) = a \o l
  BY DEF Asked
<1> HIDE DEF a, l
<1> QED BY <1>1, <1>2, ConcatProperties

\* A submission appends orders of its execution, which are the new batch.
LEMMA SubmitAppends ==
    ASSUME TypeOK, exec' \in 1..MaxExecutions,
           NEW kind \in {"leg", "retry", "close"}, NEW want \in [Venues -> Int],
           Submit(kind, want)
    PROVE  /\ orders' \in Seq(Order) /\ Len(orders') <= MaxOrders
           /\ DOMAIN orders \subseteq DOMAIN orders'
           /\ \A i \in DOMAIN orders : orders'[i] = orders[i]
           /\ \A i \in DOMAIN orders' \ DOMAIN orders : orders'[i].exec = exec' /\ i \in batch'
           /\ batch' \subseteq DOMAIN orders' /\ batch' \subseteq 1..MaxOrders
<1> DEFINE sent == Asked(want)
<1>1. PICK refused \in SUBSET {v \in Venues : want[v] # 0} :
        /\ Len(orders) + Len(sent) <= MaxOrders
        /\ orders' = orders \o [i \in 1..Len(sent) |-> NewOrder(sent[i], kind, want, refused)]
        /\ batch' = Len(orders) + 1 .. Len(orders) + Len(sent)
  BY DEF Submit
<1>2. sent \in Seq(Venues) /\ Len(sent) \in Nat
  BY AskedTypes
<1> DEFINE new == [i \in 1..Len(sent) |-> NewOrder(sent[i], kind, want, refused)]
<1>3. \A i \in 1..Len(sent) : NewOrder(sent[i], kind, want, refused) \in Order
  <2> SUFFICES ASSUME NEW i \in 1..Len(sent)
               PROVE  NewOrder(sent[i], kind, want, refused) \in Order
    OBVIOUS
  <2>1. sent[i] \in Venues
    BY <1>2
  <2> QED BY <2>1 DEF NewOrder, Order
<1>4. new \in Seq(Order) /\ Len(new) = Len(sent)
  <2> HIDE DEF sent
  <2> QED BY <1>2, <1>3
<1>5. orders \in Seq(Order)
  BY DEF TypeOK
<1>6. orders' = orders \o new
  BY <1>1
<1> HIDE DEF new
<1>7. /\ orders' \in Seq(Order) /\ Len(orders') = Len(orders) + Len(sent)
      /\ \A i \in 1..Len(orders) : orders'[i] = orders[i]
      /\ \A i \in 1..Len(sent) : orders'[Len(orders) + i] = new[i]
  <2> HIDE DEF sent
  <2>1. /\ orders \o new \in Seq(Order)
        /\ Len(orders \o new) = Len(orders) + Len(new)
        /\ \A i \in 1..Len(orders) + Len(new) :
              (orders \o new)[i] = IF i <= Len(orders) THEN orders[i] ELSE new[i - Len(orders)]
    BY <1>4, <1>5, ConcatProperties
  <2>2. Len(orders) \in Nat /\ Len(sent) \in Nat
    BY <1>2, <1>5
  <2> QED BY <1>4, <1>6, <2>1, <2>2
<1>8. DOMAIN orders = 1..Len(orders) /\ DOMAIN orders' = 1..(Len(orders) + Len(sent))
  BY <1>5, <1>7
<1>9. ASSUME NEW i \in DOMAIN orders' \ DOMAIN orders
      PROVE  orders'[i].exec = exec' /\ i \in batch'
  <2>1. i \in Len(orders) + 1 .. Len(orders) + Len(sent)
    BY <1>2, <1>5, <1>8, <1>9
  <2>2. i - Len(orders) \in 1..Len(sent) /\ i = Len(orders) + (i - Len(orders))
    BY <1>2, <1>5, <2>1
  <2>3. orders'[i] = new[i - Len(orders)]
    BY <1>7, <2>2
  <2> QED BY <1>1, <2>1, <2>2, <2>3 DEF new, NewOrder
<1>10. /\ Len(orders') <= MaxOrders /\ batch' \subseteq DOMAIN orders'
       /\ batch' \subseteq 1..MaxOrders
  <2> HIDE DEF sent
  <2>1. Len(orders) \in Nat
    BY <1>5
  <2> QED BY <1>1, <1>2, <1>7, <1>8, <2>1
<1>11. DOMAIN orders \subseteq DOMAIN orders' /\ \A i \in DOMAIN orders : orders'[i] = orders[i]
  <2> HIDE DEF sent
  <2>1. Len(orders) \in Nat
    BY <1>5
  <2> QED BY <1>2, <1>7, <1>8, <2>1
<1> QED BY <1>7, <1>9, <1>10, <1>11

-----------------------------------------------------------------------------
(* Types                                                                   *)

\* The evidence of submissions is a marker.
LEMMA MergedTypes ==
    ASSUME TypeOK, marker.there, NEW named \in SUBSET (1..MaxOrders), NEW complete \in BOOLEAN
    PROVE  Merged(named, complete) \in [there : {TRUE}, evidence : Evidence]
<1> DEFINE old == marker.evidence
<1>1. CASE old.there
  <2>1. marker \in [there : {TRUE}, evidence : Evidence]
    <3>1. CASE marker = Armed
      BY <1>1, <3>1 DEF Armed, NoEvidence
    <3>2. CASE marker = NoMarker
      BY <3>2 DEF NoMarker
    <3> QED BY <3>1, <3>2 DEF TypeOK
  <2>2. old \in Evidence
    BY <2>1
  <2> QED BY <1>1, <2>2 DEF Merged, Evidence
<1>2. CASE ~old.there
  BY <1>2 DEF Merged, Evidence, TypeOK
<1> QED BY <1>1, <1>2

\* What a submission filled is an integer at every venue.
LEMMA FilledTypes ==
    ASSUME TypeOK, Numbered, NEW base \in [Venues -> Int]
    PROVE  Filled(base) \in [Venues -> Int]
<1>1. ASSUME NEW v \in Venues, \E i \in batch : orders[i].venue = v
      PROVE  orders[CHOOSE i \in batch : orders[i].venue = v].got \in Int
  <2> DEFINE first == CHOOSE i \in batch : orders[i].venue = v
  <2>1. first \in batch
    BY <1>1
  <2>2. first \in DOMAIN orders /\ orders \in Seq(Order)
    BY <2>1 DEF Numbered, TypeOK
  <2>3. orders[first] \in Order
    BY <2>2
  <2> QED BY <2>3 DEF Order
<1>2. ASSUME NEW v \in Venues
      PROVE  base[v] + (IF \E i \in batch : orders[i].venue = v
                        THEN orders[CHOOSE i \in batch : orders[i].venue = v].got ELSE 0) \in Int
  <2>1. base[v] \in Int
    OBVIOUS
  <2>2. CASE \E i \in batch : orders[i].venue = v
    BY <1>1, <2>1, <2>2
  <2>3. CASE ~\E i \in batch : orders[i].venue = v
    BY <2>1, <2>3
  <2> QED BY <2>2, <2>3
<1> QED BY <1>2 DEF Filled

\* What a close asks of each venue is an integer.
LEMMA CloseQtysTyped ==
    ASSUME shown \in [Venues -> Int]
    PROVE  CloseQtys \in [Venues -> Int]
<1> DEFINE net == Abs(Net(shown))
           onAster == Lesser(net, Residual("aster"))
           onLighter == Lesser(net - onAster, Residual("lighter"))
<1>1. \A v \in Venues : Residual(v) \in Int
  BY DEF Residual, Abs
<1>2. net \in Int
  BY DEF Net, Abs, Venues
<1>3. onAster \in Int /\ onLighter \in Int
  BY <1>1, <1>2 DEF Lesser, Venues
<1>4. CloseQtys = [v \in Venues |-> IF Net(shown) > 0
                                    THEN -([aster |-> onAster, lighter |-> onLighter][v])
                                    ELSE [aster |-> onAster, lighter |-> onLighter][v]]
  BY DEF CloseQtys
<1> HIDE DEF onAster, onLighter
<1> QED BY <1>3, <1>4 DEF Venues

\* TypeOK in four parts, for the steps below.
OrdersTyped == orders \in Seq(Order) /\ Len(orders) <= MaxOrders
BooksTyped ==
    /\ pos \in [Venues -> Int] /\ shown \in [Venues -> Int]
    /\ pre \in [Venues -> Int] /\ expected \in [Venues -> Int]
MarkerTyped == marker \in {NoMarker, Armed} \cup [there : {TRUE}, evidence : Evidence]
RestTyped ==
    /\ retired \subseteq 1..MaxExecutions /\ booked \subseteq 1..MaxExecutions
    /\ pnl \in Int /\ cum \in Int /\ breaker \in BOOLEAN
    /\ pc \in PCs /\ armed \in BOOLEAN /\ unresolved \in BOOLEAN
    /\ exec \in 0..MaxExecutions
    /\ batch \subseteq 1..MaxOrders /\ known \subseteq 1..MaxOrders
    /\ closes \in 0..MaxCloses
    /\ outside \in 0..MaxOutside /\ retried \in BOOLEAN /\ estimate \in BOOLEAN

LEMMA TypeParts ==
    /\ TypeOK => OrdersTyped /\ BooksTyped /\ MarkerTyped /\ RestTyped
    /\ OrdersTyped' /\ BooksTyped' /\ MarkerTyped' /\ RestTyped' => TypeOK'
  BY DEF TypeOK, OrdersTyped, BooksTyped, MarkerTyped, RestTyped

\* The executions keep the types.
LEMMA ExecutionTyped ==
    ASSUME TypeOK, Numbered, Flagged, Execution
    PROVE  TypeOK'
<1> USE TypeParts
<1>1. CASE Execute
  <2>1. Leg \in [Venues -> Int]
    BY DEF Leg, Venues
  <2>2. exec' \in 1..MaxExecutions
    BY <1>1 DEF Execute, Begin, RestTyped
  <2>3. orders' \in Seq(Order) /\ Len(orders') <= MaxOrders /\ batch' \subseteq 1..MaxOrders
    BY <1>1, <2>1, <2>2, SubmitAppends DEF Execute, Begin
  <2>4. BooksTyped' /\ MarkerTyped'
    BY <1>1 DEF Execute, BooksTyped, MarkerTyped
  <2>5. RestTyped'
    <3>1. exec' \in 0..MaxExecutions /\ known' = {} /\ retried' = FALSE /\ pc' \in PCs
      BY <1>1, <2>2 DEF Execute, PCs
    <3>2. UNCHANGED <<ledgerVars, diskVars, flags, closes, estimate, outside>>
      BY <1>1 DEF Execute
    <3> QED BY <2>3, <3>1, <3>2 DEF RestTyped
  <2> QED BY <2>3, <2>4, <2>5 DEF OrdersTyped
<1>2. CASE Retry
  <2>1. Missing \in [Venues -> Int]
    BY DEF Missing, Leg, Venues, BooksTyped
  <2>2. PICK v \in Venues : exec' = exec /\ Submit("retry", [w \in Venues |-> IF w = v THEN Missing[v] ELSE 0])
    BY <1>2 DEF Retry
  <2>3. [w \in Venues |-> IF w = v THEN Missing[v] ELSE 0] \in [Venues -> Int]
    BY <2>1
  <2>4. exec' \in 1..MaxExecutions
    BY <1>2, <2>2 DEF Retry, Settled, Numbered, RestTyped
  <2>5. orders' \in Seq(Order) /\ Len(orders') <= MaxOrders /\ batch' \subseteq 1..MaxOrders
    BY <2>2, <2>3, <2>4, SubmitAppends
  <2>6. BooksTyped' /\ MarkerTyped'
    BY <1>2 DEF Retry, BooksTyped, MarkerTyped
  <2>7. RestTyped'
    <3>1. exec' \in 0..MaxExecutions /\ retried' = TRUE /\ pc' \in PCs
      BY <1>2, <2>4 DEF Retry, PCs
    <3>2. UNCHANGED <<ledgerVars, diskVars, flags, known, closes, estimate, outside>>
      BY <1>2 DEF Retry
    <3> QED BY <2>5, <3>1, <3>2 DEF RestTyped
  <2> QED BY <2>5, <2>6, <2>7 DEF OrdersTyped
<1>3. CASE RecordOrders \/ LegsUnresolved \/ RetryUnresolved
  <2>1. marker' = marker \/ \E named \in SUBSET (1..MaxOrders), complete \in BOOLEAN :
                                 marker' = Merged(named, complete)
    BY <1>3 DEF RecordOrders, LegsUnresolved, RetryUnresolved, RecordUnresolved, RecordFails,
        RestTyped
  <2>2. marker.there
    BY <1>3 DEF RecordOrders, LegsUnresolved, RetryUnresolved, Flagged
  <2>3. MarkerTyped'
    BY <2>1, <2>2, MergedTypes DEF MarkerTyped
  <2>4. OrdersTyped' /\ BooksTyped'
    BY <1>3 DEF RecordOrders, LegsUnresolved, RetryUnresolved, OrdersTyped, BooksTyped
  <2>5. RestTyped'
    BY <1>3 DEF RecordOrders, LegsUnresolved, RetryUnresolved, RecordUnresolved, RecordFails,
        RestTyped, PCs
  <2> QED BY <2>3, <2>4, <2>5
<1>4. CASE LegsTerminal
  <2>1. expected' \in [Venues -> Int]
    BY <1>4, FilledTypes DEF LegsTerminal, BooksTyped
  <2>2. OrdersTyped' /\ BooksTyped' /\ MarkerTyped'
    BY <1>4, <2>1 DEF LegsTerminal, OrdersTyped, BooksTyped, MarkerTyped
  <2>3. RestTyped'
    BY <1>4 DEF LegsTerminal, RestTyped, PCs
  <2> QED BY <2>2, <2>3
<1>5. CASE Hedged \/ SettleTimeout \/ NoRetry \/ RetryTerminal \/ RetryVerified \/ RetryUnverified
           \/ JournalFails \/ Account \/ AccountingUnavailable
  <2>1. OrdersTyped' /\ BooksTyped' /\ MarkerTyped'
    BY <1>5 DEF Hedged, SettleTimeout, NoRetry, RetryTerminal, RetryVerified, RetryUnverified,
        JournalFails, Account, AccountingUnavailable, ToRecovery, OrdersTyped, BooksTyped, MarkerTyped
  <2>2. RestTyped'
    <3>1. CASE Hedged \/ RetryVerified \/ JournalFails
      BY <1>5, <3>1 DEF Hedged, RetryVerified, JournalFails, RestTyped, PCs
    <3>2. CASE SettleTimeout \/ NoRetry \/ RetryUnverified \/ AccountingUnavailable
      BY <1>5, <3>2 DEF SettleTimeout, NoRetry, RetryUnverified, AccountingUnavailable, ToRecovery,
          RestTyped, PCs
    <3>3. CASE RetryTerminal \/ Account
      BY <1>5, <3>3 DEF RetryTerminal, Account, RestTyped, PCs
    <3> QED BY <1>5, <3>1, <3>2, <3>3
  <2> QED BY <2>1, <2>2
<1>6. CASE Skip
  <2>1. MarkerTyped' /\ OrdersTyped' /\ BooksTyped'
    BY <1>6 DEF Skip, Resolved, ResolveFails, MarkerTyped, OrdersTyped, BooksTyped
  <2>2. RestTyped'
    BY <1>6 DEF Skip, Resolved, ResolveFails, RestTyped, PCs
  <2> QED BY <2>1, <2>2
<1> QED BY <1>1, <1>2, <1>3, <1>4, <1>5, <1>6 DEF Execution

\* The recoveries keep the types.
LEMMA RecoveryTyped ==
    ASSUME TypeOK, Numbered, Flagged, Recovery
    PROVE  TypeOK'
<1> USE TypeParts
<1>1. CASE Close
  <2>1. exec' = exec /\ Submit("close", CloseQtys)
    BY <1>1 DEF Close
  <2>2. CloseQtys \in [Venues -> Int]
    BY CloseQtysTyped DEF BooksTyped
  <2>3. exec' \in 1..MaxExecutions
    BY <1>1, <2>1 DEF Close, Numbered, RestTyped
  <2>4. orders' \in Seq(Order) /\ Len(orders') <= MaxOrders /\ batch' \subseteq 1..MaxOrders
    BY <2>1, <2>2, <2>3, SubmitAppends
  <2>5. BooksTyped' /\ MarkerTyped'
    BY <1>1 DEF Close, BooksTyped, MarkerTyped
  <2>6. RestTyped'
    <3>1. exec' \in 0..MaxExecutions /\ closes' \in 0..MaxCloses /\ pc' \in PCs
      BY <1>1, <2>3 DEF Close, MoreCloses, PCs, RestTyped
    <3>2. UNCHANGED <<ledgerVars, diskVars, flags, known, retried, estimate, outside>>
      BY <1>1 DEF Close
    <3> QED BY <2>4, <3>1, <3>2 DEF RestTyped
  <2> QED BY <2>4, <2>5, <2>6 DEF OrdersTyped
<1>2. CASE RecordClose \/ CloseInFlight \/ RecoveryFails
  <2>1. marker' = marker \/ \E named \in SUBSET (1..MaxOrders), complete \in BOOLEAN :
                                 marker' = Merged(named, complete)
    BY <1>2 DEF RecordClose, CloseInFlight, RecoveryFails, RecordUnresolved, RecordFails, RestTyped
  <2>2. marker.there
    BY <1>2 DEF RecordClose, CloseInFlight, RecoveryFails, Flagged
  <2>3. MarkerTyped'
    BY <2>1, <2>2, MergedTypes DEF MarkerTyped
  <2>4. OrdersTyped' /\ BooksTyped'
    BY <1>2 DEF RecordClose, CloseInFlight, RecoveryFails, OrdersTyped, BooksTyped
  <2>5. RestTyped'
    BY <1>2 DEF RecordClose, CloseInFlight, RecoveryFails, RecordUnresolved, RecordFails,
        RestTyped, PCs
  <2> QED BY <2>3, <2>4, <2>5
<1>3. CASE CloseTerminal
  <2>1. expected' \in [Venues -> Int]
    BY <1>3, FilledTypes DEF CloseTerminal, BooksTyped
  <2>2. OrdersTyped' /\ BooksTyped' /\ MarkerTyped'
    BY <1>3, <2>1 DEF CloseTerminal, OrdersTyped, BooksTyped, MarkerTyped
  <2>3. RestTyped'
    BY <1>3 DEF CloseTerminal, RestTyped, PCs
  <2> QED BY <2>2, <2>3
<1>4. CASE Flatten \/ Recovered \/ RecoveryUnjournaled \/ CloseSettled
  <2>1. OrdersTyped' /\ BooksTyped' /\ MarkerTyped'
    BY <1>4 DEF Flatten, Recovered, RecoveryUnjournaled, CloseSettled, OrdersTyped, BooksTyped,
        MarkerTyped
  <2>2. RestTyped'
    <3>1. CASE Flatten
      <4>1. exec' \in 0..MaxExecutions /\ known' = {} /\ closes' = 0 /\ pc' = "recover"
        BY <3>1 DEF Flatten, RestTyped
      <4>2. UNCHANGED <<ledgerVars, diskVars, flags, batch, retried, estimate, outside>>
        BY <3>1 DEF Flatten
      <4> QED BY <4>1, <4>2 DEF RestTyped, PCs
    <3>2. CASE Recovered \/ RecoveryUnjournaled \/ CloseSettled
      BY <3>2 DEF Recovered, RecoveryUnjournaled, CloseSettled, RestTyped, PCs
    <3> QED BY <1>4, <3>1, <3>2
  <2> QED BY <2>1, <2>2
<1> QED BY <1>1, <1>2, <1>3, <1>4 DEF Recovery

\* So do the accounting, the life of the engine and the venues.
LEMMA OthersTyped ==
    ASSUME TypeOK, Numbered, Accounting \/ Life \/ VenueStep
    PROVE  TypeOK'
<1> USE TypeParts
<1>1. CASE AppendRow \/ AppendFails \/ Latch
  <2>1. OrdersTyped' /\ BooksTyped' /\ MarkerTyped'
    BY <1>1 DEF AppendRow, AppendFails, Latch, OrdersTyped, BooksTyped, MarkerTyped
  <2>2. \A net \in Results : net \in Int
    BY DEF Results
  <2>3. pnl' \in Int /\ cum' \in Int
    BY <1>1, <2>2 DEF AppendRow, AppendFails, Latch, Row, RestTyped
  <2>4. booked' = booked \/ (pc = "book" /\ booked' = booked \cup {exec})
    BY <1>1 DEF AppendRow, AppendFails, Latch, Row
  <2>5. booked' \subseteq 1..MaxExecutions
    BY <2>4 DEF Numbered, RestTyped
  <2>6. pc' \in PCs /\ breaker' \in BOOLEAN
    BY <1>1 DEF AppendRow, AppendFails, Latch, PCs, RestTyped
  <2> QED BY <1>1, <2>1, <2>3, <2>5, <2>6 DEF AppendRow, AppendFails, Latch, RestTyped
<1>2. CASE Release
  <2>1. MarkerTyped' /\ OrdersTyped' /\ BooksTyped'
    BY <1>2 DEF Release, Resolved, ResolveFails, MarkerTyped, OrdersTyped, BooksTyped
  <2>2. pc' \in PCs /\ unresolved' \in BOOLEAN
    BY <1>2 DEF Release, Resolved, ResolveFails, PCs
  <2> QED BY <1>2, <2>1, <2>2 DEF Release, RestTyped
<1>3. CASE Life
  <2>1. OrdersTyped' /\ BooksTyped' /\ MarkerTyped'
    BY <1>3 DEF Life, Start, Arm, Stop, Retire, Keep, Crash, Halted, ResolveSession, ResetBreaker,
        OrdersTyped, BooksTyped, MarkerTyped
  <2>2. ResolveSession => RestTyped'
    BY DEF ResolveSession, RestTyped
  <2>3. Start \/ Arm \/ Stop \/ Retire \/ Keep \/ Crash \/ ResetBreaker => RestTyped'
    BY DEF Start, Arm, Stop, Retire, Keep, Crash, Halted, ResetBreaker, RestTyped, PCs
  <2>4. RestTyped'
    BY <1>3, <2>2, <2>3, Zenon DEF Life
  <2> QED BY <2>1, <2>4
<1>4. ASSUME NEW i \in DOMAIN orders, Fill(i) PROVE TypeOK'
  <2>1. PICK part \in 0..Fillable(i) :
          LET got == IF orders[i].want < 0 THEN -part ELSE part
          IN  /\ orders' = [orders EXCEPT ![i].st = "done", ![i].got = got]
              /\ pos' = [pos EXCEPT ![orders[i].venue] = @ + got]
    BY <1>4 DEF Fill
  <2>2. orders \in Seq(Order) /\ orders[i] \in Order
    BY DEF OrdersTyped
  <2>3. part \in Int /\ orders[i].venue \in Venues
    BY <2>2 DEF Order
  <2> DEFINE got == IF orders[i].want < 0 THEN -part ELSE part
             filled == [orders[i] EXCEPT !.st = "done", !.got = got]
  <2>4. got \in Int
    BY <2>3
  <2>5. filled \in Order
    BY <2>2, <2>4 DEF Order
  <2>6. orders' = [orders EXCEPT ![i] = filled]
    BY <2>1, <2>2
  <2>7. OrdersTyped'
    <3> HIDE DEF filled
    <3> QED BY <2>2, <2>5, <2>6, ExceptSeq DEF OrdersTyped
  <2>8. pos' = [pos EXCEPT ![orders[i].venue] = @ + got]
    BY <2>1
  <2>9. BooksTyped'
    <3> HIDE DEF got
    <3> QED BY <1>4, <2>3, <2>4, <2>8 DEF Fill, BooksTyped
  <2>10. MarkerTyped' /\ RestTyped'
    BY <1>4 DEF Fill, MarkerTyped, RestTyped
  <2> QED BY <2>7, <2>9, <2>10
<1>5. ASSUME NEW v \in Venues, CatchUp(v) \/ OutsideFill(v) PROVE TypeOK'
  <2>1. BooksTyped'
    BY <1>5 DEF CatchUp, OutsideFill, BooksTyped
  <2>2. OrdersTyped' /\ MarkerTyped' /\ RestTyped'
    <3>1. outside' \in 0..MaxOutside
      BY <1>5 DEF CatchUp, OutsideFill, RestTyped
    <3>2. UNCHANGED <<orders, ledgerVars, diskVars, pc, flags, workVars>>
      BY <1>5 DEF CatchUp, OutsideFill
    <3> QED BY <3>1, <3>2 DEF OrdersTyped, MarkerTyped, RestTyped
  <2> QED BY <2>1, <2>2
<1> QED BY <1>1, <1>2, <1>3, <1>4, <1>5 DEF Accounting, VenueStep

-----------------------------------------------------------------------------
(* IInv is inductive                                                       *)

\* What an execution's end leaves: with nothing in flight, its row or its
\* emptiness closes it, and a batch that has ended leaves nothing in flight.
LEMMA Ends ==
    ASSUME IInv
    PROVE  /\ NothingLive /\ (exec \in booked \/ NoFill) => AllClosed
           /\ Terminal => NothingLive
           /\ AllClosed => NothingLive
<1>1. NothingLive /\ (exec \in booked \/ NoFill) => AllClosed
  BY DEF IInv, Accounted, OthersClosed, AllClosed, NothingLive, Closed, NoFill
<1>2. Terminal => NothingLive
  BY DEF IInv, OneBatch, Terminal, NothingLive
<1>3. AllClosed => NothingLive
  <2> SUFFICES ASSUME AllClosed, NEW i \in DOMAIN orders, Live(i)
               PROVE  orders[i].exec \in retired
    BY DEF NothingLive
  <2>1. orders[i] \in Order /\ orders[i].exec <= exec /\ exec \in Nat
    BY DEF IInv, TypeOK, Numbered
  <2>2. orders[i].exec \in 1..exec
    BY <2>1 DEF Order
  <2> QED BY <2>2 DEF AllClosed, Closed
<1> QED BY <1>1, <1>2, <1>3

Unmoved == UNCHANGED <<orders, exec, booked, retired, batch>>

\* A step that touches no order, row or number keeps what they say.
LEMMA Steady ==
    ASSUME Unmoved
    PROVE  /\ (NothingLive' <=> NothingLive) /\ (OthersClosed' <=> OthersClosed)
           /\ (AllClosed' <=> AllClosed) /\ (OneBatch' <=> OneBatch)
           /\ ((\A i \in DOMAIN orders : orders[i].exec <= exec)'
                  <=> \A i \in DOMAIN orders : orders[i].exec <= exec)
  BY DEF Unmoved, NothingLive, OthersClosed, AllClosed, OneBatch, Closed, Live

\* IInv without its types.
Facts == Numbered /\ Flagged /\ Waited /\ Accounted /\ Counted /\ Barrier /\ OneBatch

\* The steps of an execution that send nothing.
LEMMA ExecutionSteady ==
    ASSUME IInv, Execution, ~Execute, ~Retry
    PROVE  Facts'
<1>1. CASE RecordOrders \/ LegsUnresolved \/ RetryUnresolved \/ JournalFails
  <2>1. Unmoved /\ UNCHANGED <<pnl, cum, armed>> /\ unresolved' = TRUE /\ marker'.there /\ armed
        /\ pc' \in {"resolving", "draining"} /\ exec >= 1
    BY <1>1 DEF RecordOrders, LegsUnresolved, RetryUnresolved, JournalFails, RecordUnresolved,
        RecordFails, Merged, Unmoved, IInv, Flagged, Numbered
  <2>2. cum = pnl /\ ~LossReached(cum)
    BY <1>1 DEF RecordOrders, LegsUnresolved, RetryUnresolved, JournalFails, IInv, Counted
  <2> QED BY <2>1, <2>2, Steady DEF Facts, IInv, Numbered, Flagged, Waited, Accounted, Counted,
      Barrier, Unmoved, LossReached
<1>2. CASE LegsTerminal \/ RetryTerminal
  <2>1. /\ Unmoved /\ UNCHANGED <<pnl, cum, armed, unresolved, marker>> /\ NothingLive
        /\ pc \in {"resolving", "retrying"} /\ pc' \in {"settling", "verifying"}
    BY <1>2, Ends DEF LegsTerminal, RetryTerminal, Unmoved
  <2> QED BY <2>1, Steady DEF Facts, IInv, Numbered, Flagged, Waited, Accounted, Counted,
      Barrier, Unmoved, LossReached
<1>3. CASE Hedged \/ SettleTimeout \/ NoRetry \/ RetryVerified \/ RetryUnverified \/ Account
           \/ AccountingUnavailable
  <2>1. /\ Unmoved /\ UNCHANGED <<pnl, cum, armed, unresolved, marker>>
        /\ pc \in {"settling", "verifying", "economics"} /\ pc' \in {"economics", "recover", "book"}
    BY <1>3 DEF Hedged, SettleTimeout, NoRetry, RetryVerified, RetryUnverified, Account,
        AccountingUnavailable, ToRecovery, Settled, Unmoved
  <2> QED BY <2>1, Steady DEF Facts, IInv, Numbered, Flagged, Waited, Accounted, Counted,
      Barrier, Unmoved, LossReached
<1>4. CASE Skip
  <2>1. /\ Unmoved /\ UNCHANGED <<pnl, cum, armed>> /\ armed /\ pc = "economics" /\ marker'.there
        /\ AllClosed
        /\ (unresolved' = FALSE /\ pc' = "scan") \/ (unresolved' = TRUE /\ pc' = "draining")
    BY <1>4, Ends DEF Skip, Resolved, ResolveFails, Armed, Unmoved, IInv, Waited, Flagged
  <2> QED BY <2>1, Steady, Ends DEF Facts, IInv, Numbered, Flagged, Waited, Accounted, Counted,
      Barrier, Unmoved, LossReached
<1> QED BY <1>1, <1>2, <1>3, <1>4 DEF Execution

\* The steps of a recovery that begin and send nothing.
LEMMA RecoverySteady ==
    ASSUME IInv, Recovery, ~Flatten, ~Close
    PROVE  Facts'
<1>1. CASE RecordClose \/ CloseInFlight \/ RecoveryFails
  <2>1. Unmoved /\ UNCHANGED <<pnl, cum, armed>> /\ unresolved' = TRUE /\ marker'.there /\ armed
        /\ pc' \in {"closeResolving", "draining"} /\ exec >= 1
    BY <1>1 DEF RecordClose, CloseInFlight, RecoveryFails, RecordUnresolved,
        RecordFails, Merged, Unmoved, IInv, Flagged, Numbered
  <2>2. cum = pnl /\ ~LossReached(cum)
    BY <1>1 DEF RecordClose, CloseInFlight, RecoveryFails, IInv, Counted
  <2> QED BY <2>1, <2>2, Steady DEF Facts, IInv, Numbered, Flagged, Waited, Accounted, Counted,
      Barrier, Unmoved, LossReached
<1>2. CASE CloseTerminal
  <2>1. /\ Unmoved /\ UNCHANGED <<pnl, cum, armed, unresolved, marker>> /\ NothingLive
        /\ pc = "closeResolving" /\ pc' = "closeSettling"
    BY <1>2, Ends DEF CloseTerminal, Unmoved
  <2> QED BY <2>1, Steady DEF Facts, IInv, Numbered, Flagged, Waited, Accounted, Counted,
      Barrier, Unmoved, LossReached
<1>3. CASE CloseSettled
  <2>1. /\ Unmoved /\ UNCHANGED <<pnl, cum, armed, unresolved, marker>>
        /\ pc = "closeSettling" /\ pc' = "recover"
    BY <1>3 DEF CloseSettled, Unmoved
  <2> QED BY <2>1, Steady DEF Facts, IInv, Numbered, Flagged, Waited, Accounted, Counted,
      Barrier, Unmoved, LossReached
<1>4. CASE Recovered \/ RecoveryUnjournaled
  <2>1. /\ Unmoved /\ UNCHANGED <<pnl, cum, armed, unresolved, marker>>
        /\ pc = "recover" /\ pc' \in (IF unresolved THEN {"book", "draining"} ELSE {"scan"})
    BY <1>4 DEF Recovered, RecoveryUnjournaled, Unmoved
  <2> QED BY <2>1, Steady DEF Facts, IInv, Numbered, Flagged, Waited, Accounted, Counted,
      Barrier, Unmoved, LossReached
<1> QED BY <1>1, <1>2, <1>3, <1>4 DEF Recovery

\* A submission of an execution begun, with all else closed and nothing in flight.
LEMMA Submitted ==
    ASSUME IInv, NothingLive, exec' \in 1..MaxExecutions,
           exec' = exec \/ (exec' = exec + 1 /\ AllClosed), UNCHANGED <<booked, retired>>,
           NEW kind \in {"leg", "retry", "close"}, NEW want \in [Venues -> Int],
           Submit(kind, want)
    PROVE  /\ OthersClosed' /\ OneBatch' /\ batch' \subseteq DOMAIN orders'
           /\ (\A i \in DOMAIN orders : orders[i].exec <= exec)'
<1>1. /\ DOMAIN orders \subseteq DOMAIN orders'
      /\ \A i \in DOMAIN orders : orders'[i] = orders[i]
      /\ \A i \in DOMAIN orders' \ DOMAIN orders : orders'[i].exec = exec' /\ i \in batch'
      /\ batch' \subseteq DOMAIN orders'
  BY SubmitAppends DEF IInv
<1>2. OneBatch'
  BY <1>1 DEF OneBatch, NothingLive, Live
<1>3. (\A i \in DOMAIN orders : orders[i].exec <= exec)'
  <2> SUFFICES ASSUME NEW i \in DOMAIN orders' PROVE orders'[i].exec <= exec'
    OBVIOUS
  <2>1. CASE i \in DOMAIN orders
    <3>1. orders[i] \in Order /\ orders[i].exec <= exec /\ exec \in Nat
      BY <2>1 DEF IInv, TypeOK, Numbered
    <3> QED BY <1>1, <2>1, <3>1 DEF Order
  <2>2. CASE i \notin DOMAIN orders
    BY <1>1, <2>2
  <2> QED BY <2>1, <2>2
<1>4. OthersClosed'
  <2> SUFFICES ASSUME NEW e \in 1..exec', e \notin retired, e # exec' PROVE Closed(e)'
    BY DEF OthersClosed
  <2>1. Closed(e)
    <3>1. exec \in Nat
      BY DEF IInv, TypeOK
    <3>2. CASE exec' = exec
      BY <3>2 DEF IInv, Accounted, OthersClosed
    <3>3. CASE exec' = exec + 1 /\ AllClosed
      BY <3>1, <3>3 DEF AllClosed
    <3> QED BY <3>2, <3>3
  <2> QED BY <1>1, <2>1 DEF Closed, Live
<1> QED BY <1>1, <1>2, <1>3, <1>4

\* The steps that send: a leg after all is closed, a retry or a close after a wait.
LEMMA Sends ==
    ASSUME IInv, Execute \/ Retry \/ Close
    PROVE  Facts'
<1>1. CASE Execute
  <2>1. AllClosed /\ NothingLive
    BY <1>1, Ends DEF Execute, IInv, Accounted
  <2>2. Leg \in [Venues -> Int]
    BY DEF Leg, Venues
  <2>3. exec \in Nat /\ exec' = exec + 1 /\ exec' \in 1..MaxExecutions /\ Submit("leg", Leg)
    BY <1>1 DEF Execute, Begin, IInv, TypeOK
  <2>4. /\ OthersClosed' /\ OneBatch' /\ batch' \subseteq DOMAIN orders'
        /\ (\A i \in DOMAIN orders : orders[i].exec <= exec)'
    BY <1>1, <2>1, <2>2, <2>3, Submitted DEF Execute
  <2>5. /\ pc = "scan" /\ pc' = "sent" /\ armed
        /\ UNCHANGED <<pnl, booked, cum, marker, armed, unresolved>>
    BY <1>1 DEF Execute
  <2> QED BY <2>3, <2>4, <2>5 DEF Facts, IInv, Numbered, Flagged, Waited, Accounted, Counted,
      Barrier, LossReached
<1>2. CASE Retry
  <2>1. PICK v \in Venues :
          exec' = exec /\ Submit("retry", [w \in Venues |-> IF w = v THEN Missing[v] ELSE 0])
    BY <1>2 DEF Retry
  <2>2. [w \in Venues |-> IF w = v THEN Missing[v] ELSE 0] \in [Venues -> Int]
    BY DEF Missing, Leg, Venues, IInv, TypeOK
  <2>3. pc = "settling" /\ pc' = "retrying" /\ UNCHANGED <<pnl, booked, cum, marker, retired, armed, unresolved>>
    BY <1>2 DEF Retry, Settled
  <2>4. NothingLive /\ exec' \in 1..MaxExecutions
    BY <2>1, <2>3 DEF IInv, Waited, Numbered, TypeOK
  <2>5. /\ OthersClosed' /\ OneBatch' /\ batch' \subseteq DOMAIN orders'
        /\ (\A i \in DOMAIN orders : orders[i].exec <= exec)'
    BY <2>1, <2>2, <2>3, <2>4, Submitted
  <2> QED BY <2>1, <2>3, <2>4, <2>5 DEF Facts, IInv, Numbered, Flagged, Waited, Accounted, Counted,
      Barrier, LossReached
<1>3. CASE Close
  <2>1. exec' = exec /\ Submit("close", CloseQtys)
    BY <1>3 DEF Close
  <2>2. CloseQtys \in [Venues -> Int]
    BY CloseQtysTyped DEF IInv, TypeOK
  <2>3. pc = "recover" /\ pc' = "closing" /\ UNCHANGED <<pnl, booked, cum, marker, retired, armed, unresolved>>
    BY <1>3 DEF Close
  <2>4. NothingLive /\ exec' \in 1..MaxExecutions
    BY <2>1, <2>3 DEF IInv, Waited, Numbered, TypeOK
  <2>5. /\ OthersClosed' /\ OneBatch' /\ batch' \subseteq DOMAIN orders'
        /\ (\A i \in DOMAIN orders : orders[i].exec <= exec)'
    BY <2>1, <2>2, <2>3, <2>4, Submitted
  <2> QED BY <2>1, <2>3, <2>4, <2>5 DEF Facts, IInv, Numbered, Flagged, Waited, Accounted, Counted,
      Barrier, LossReached
<1> QED BY <1>1, <1>2, <1>3

\* A recovery of a mismatch begins an execution without an order.
LEMMA Flattens ==
    ASSUME IInv, Flatten
    PROVE  Facts'
<1>1. AllClosed /\ NothingLive /\ exec \in Nat
  <2>1. AllClosed
    BY DEF Flatten, IInv, Accounted, Flagged
  <2>2. exec \in Nat
    BY DEF IInv, TypeOK
  <2> QED BY <2>1, <2>2, Ends
<1>2. exec' = exec + 1 /\ pc = "scan" /\ pc' = "recover" /\ armed
      /\ UNCHANGED <<orders, batch, pnl, booked, cum, marker, retired, armed, unresolved>>
  BY DEF Flatten
<1>3. (\A i \in DOMAIN orders : orders[i].exec <= exec)' /\ \A i \in DOMAIN orders : orders[i].exec # exec'
  <2>1. \A i \in DOMAIN orders : orders[i] \in Order /\ orders[i].exec <= exec
    BY DEF IInv, TypeOK, Numbered
  <2>2. \A i \in DOMAIN orders : orders[i].exec \in Int
    BY <2>1 DEF Order
  <2> QED BY <1>1, <1>2, <2>1, <2>2
<1>4. AllClosed' /\ OthersClosed' /\ NothingLive' /\ OneBatch'
  <2>1. \A e \in 1..exec' : e # exec' => e \in 1..exec
    BY <1>1, <1>2
  <2> QED BY <1>1, <1>2, <1>3, <2>1 DEF AllClosed, OthersClosed, Closed, Live, NothingLive, OneBatch
<1> QED BY <1>1, <1>2, <1>3, <1>4 DEF Facts, IInv, Numbered, Flagged, Waited, Accounted, Counted,
    Barrier, LossReached

\* Rows only close, and the tracker follows the ledger.
LEMMA Books ==
    ASSUME IInv, Accounting
    PROVE  Facts'
<1>1. CASE AppendRow \/ AppendFails
  <2>1. /\ UNCHANGED <<orders, exec, batch, marker, retired, armed, unresolved>> /\ pc = "book"
        /\ booked \subseteq booked'
    BY <1>1 DEF AppendRow, AppendFails, Row
  <2>2. /\ \A e \in 1..exec : Closed(e) => Closed(e)'
        /\ NothingLive' /\ OneBatch'
    BY <2>1 DEF Closed, Live, NothingLive, OneBatch, IInv, Waited
  <2>3. OthersClosed' /\ (AllClosed => AllClosed')
    BY <2>1, <2>2 DEF OthersClosed, AllClosed, IInv, Accounted
  <2>4. pc' = "draining" \/ (pc' \in {"latch", "release"} /\ exec \in booked' /\ cum' = pnl'
                                /\ (pc' = "release" => ~LossReached(cum')))
    BY <1>1, <2>1 DEF AppendRow, AppendFails, Row, IInv, Counted
  <2> QED BY <2>1, <2>2, <2>3, <2>4 DEF Facts, IInv, Numbered, Flagged, Waited, Accounted, Counted,
      Barrier
<1>2. CASE Latch
  <2>1. /\ Unmoved /\ UNCHANGED <<pnl, cum, armed, unresolved, marker>>
        /\ pc = "latch" /\ pc' \in {"release", "draining"}
    BY <1>2 DEF Latch, Unmoved
  <2> QED BY <2>1, Steady DEF Facts, IInv, Numbered, Flagged, Waited, Accounted, Counted,
      Barrier, Unmoved, LossReached
<1>3. CASE Release
  <2>1. /\ Unmoved /\ UNCHANGED <<pnl, cum, armed>> /\ armed /\ marker'.there /\ pc = "release"
        /\ AllClosed /\ cum = pnl
    BY <1>3, Ends DEF Release, Resolved, ResolveFails, Armed, Unmoved, IInv, Waited, Flagged,
        Accounted, Counted
  <2>2. \/ unresolved' = FALSE /\ pc' \in {"scan", "draining"} /\ (pc' = "scan" => ~LossReached(cum))
        \/ unresolved' = TRUE /\ pc' = "draining"
    BY <1>3 DEF Release, Resolved, ResolveFails, Hourly
  <2> QED BY <2>1, <2>2, Steady, Ends DEF Facts, IInv, Numbered, Flagged, Waited, Accounted, Counted,
      Barrier, Unmoved, LossReached
<1> QED BY <1>1, <1>2, <1>3 DEF Accounting

\* Starts, stops and crashes; the marker leaves the disk only over closed executions.
LEMMA Lives ==
    ASSUME IInv, Life
    PROVE  Facts'
<1>1. CASE Start \/ ResetBreaker
  <2>1. /\ Unmoved /\ UNCHANGED <<pnl, armed, unresolved, marker>>
        /\ (pc' = pc /\ cum' = cum) \/ (pc = "down" /\ pc' = "standby" /\ cum' = pnl /\ ~LossReached(pnl))
    BY <1>1 DEF Start, ResetBreaker, Unmoved
  <2> QED BY <2>1, Steady DEF Facts, IInv, Numbered, Flagged, Waited, Accounted, Counted,
      Barrier, Unmoved, LossReached
<1>2. CASE Arm
  <2>1. /\ Unmoved /\ UNCHANGED <<pnl, cum, unresolved>> /\ pc = "standby" /\ marker'.there
        /\ AllClosed /\ ~unresolved
        /\ (armed' = TRUE /\ pc' = "scan") \/ (armed' = armed /\ pc' = pc)
    BY <1>2 DEF Arm, Armed, Unmoved, IInv, Barrier, Flagged
  <2> QED BY <2>1, Steady, Ends DEF Facts, IInv, Numbered, Flagged, Waited, Accounted, Counted,
      Barrier, Unmoved, LossReached
<1>3. CASE Stop
  <2>1. /\ Unmoved /\ UNCHANGED <<pnl, cum, armed, unresolved, marker>>
        /\ pc \in {"standby", "scan"} /\ pc' = "draining"
    BY <1>3 DEF Stop, Unmoved
  <2> QED BY <2>1, Steady DEF Facts, IInv, Numbered, Flagged, Waited, Accounted, Counted,
      Barrier, Unmoved, LossReached
<1>4. CASE Retire \/ Keep \/ Crash
  <2>1. /\ Unmoved /\ pc' = "down" /\ armed' = FALSE /\ unresolved' = FALSE
        /\ marker' = marker \/ AllClosed
    BY <1>4 DEF Retire, Keep, Crash, Halted, Unmoved, IInv, Accounted
  <2> QED BY <2>1, Steady DEF Facts, IInv, Numbered, Flagged, Waited, Accounted, Counted,
      Barrier, Unmoved
<1>5. CASE ResolveSession
  <2>1. /\ UNCHANGED <<orders, batch, exec, booked, pc, pnl, cum, armed, unresolved>> /\ pc = "down"
        /\ retired' = 1..exec
    BY <1>5 DEF ResolveSession
  <2>2. \A i \in DOMAIN orders : orders[i].exec \in 1..exec
    <3>1. \A i \in DOMAIN orders : orders[i] \in Order /\ orders[i].exec <= exec
      BY DEF IInv, TypeOK, Numbered
    <3> QED BY <3>1 DEF Order, IInv, TypeOK
  <2>3. AllClosed' /\ OthersClosed' /\ OneBatch'
    BY <2>1, <2>2 DEF AllClosed, OthersClosed, OneBatch, Live
  <2> QED BY <2>1, <2>3 DEF Facts, IInv, Numbered, Flagged, Waited, Accounted, Counted, Barrier
<1> QED BY <1>1, <1>2, <1>3, <1>4, <1>5 DEF Life

\* A fill belongs to an order that was live, so to an execution not closed yet.
LEMMA VenueSteps ==
    ASSUME IInv, VenueStep
    PROVE  Facts'
<1>1. ASSUME NEW i \in DOMAIN orders, Fill(i) PROVE Facts'
  <2>1. UNCHANGED <<exec, booked, batch, retired, pnl, cum, armed, unresolved, marker, pc>> /\ Live(i)
    BY <1>1 DEF Fill
  <2>2. orders \in Seq(Order)
    BY DEF IInv, TypeOK
  <2>3. /\ DOMAIN orders' = DOMAIN orders
        /\ \A j \in DOMAIN orders : j # i => orders'[j] = orders[j]
        /\ orders'[i].exec = orders[i].exec /\ orders'[i].st = "done"
    <3>1. PICK got : orders' = [orders EXCEPT ![i].st = "done", ![i].got = got]
      BY <1>1 DEF Fill
    <3>2. orders[i] \in Order
      BY <2>2
    <3> QED BY <2>2, <3>1, <3>2 DEF Order
  <2>4. \A e \in 1..exec : Closed(e) => Closed(e)'
    BY <2>1, <2>3 DEF Closed, Live
  <2>5. (NothingLive => NothingLive') /\ OneBatch'
    BY <2>1, <2>3 DEF NothingLive, Live, OneBatch, IInv
  <2>6. OthersClosed' /\ (AllClosed => AllClosed')
    BY <2>1, <2>4 DEF OthersClosed, AllClosed, IInv, Accounted
  <2>7. (\A j \in DOMAIN orders : orders[j].exec <= exec)'
    BY <2>1, <2>3 DEF IInv, Numbered
  <2> QED BY <2>1, <2>3, <2>5, <2>6, <2>7 DEF Facts, IInv, Numbered, Flagged, Waited, Accounted,
      Counted, Barrier
<1>2. ASSUME NEW v \in Venues, CatchUp(v) \/ OutsideFill(v) PROVE Facts'
  <2>1. Unmoved /\ UNCHANGED <<pnl, cum, armed, unresolved, marker, pc>>
    BY <1>2 DEF CatchUp, OutsideFill, Unmoved
  <2> QED BY <2>1, Steady DEF Facts, IInv, Numbered, Flagged, Waited, Accounted, Counted,
      Barrier, Unmoved, LossReached
<1> QED BY <1>1, <1>2 DEF VenueStep

LEMMA InvInit == Init => IInv
<1> SUFFICES ASSUME Init PROVE IInv
  OBVIOUS
<1>1. TypeOK
  <2>1. orders \in Seq(Order) /\ Len(orders) <= MaxOrders /\ DOMAIN orders = {}
    BY DEF Init
  <2>2. BooksTyped /\ MarkerTyped /\ RestTyped
    <3>1. BooksTyped /\ MarkerTyped
      BY DEF Init, BooksTyped, MarkerTyped
    <3>2. pc \in PCs /\ exec = 0 /\ closes = 0 /\ outside = 0 /\ pnl = 0 /\ cum = 0
          /\ batch = {} /\ known = {} /\ retired = {} /\ booked = {}
      BY DEF Init, PCs
    <3>3. /\ breaker \in BOOLEAN /\ armed \in BOOLEAN /\ unresolved \in BOOLEAN
          /\ retried \in BOOLEAN /\ estimate \in BOOLEAN
      BY DEF Init
    <3> QED BY <3>1, <3>2, <3>3 DEF RestTyped
  <2> QED BY <2>1, <2>2 DEF TypeOK, BooksTyped, MarkerTyped, RestTyped
<1>2. Facts
  BY DEF Init, Facts, Numbered, Flagged, Waited, Accounted, OthersClosed, AllClosed, Counted, Barrier,
      OneBatch, NoMarker
<1> QED BY <1>1, <1>2 DEF Facts, IInv

LEMMA InvStep == IInv /\ [Next]_vars => IInv'
<1> SUFFICES ASSUME IInv, [Next]_vars PROVE IInv'
  OBVIOUS
<1>1. TypeOK /\ Numbered /\ Flagged
  BY DEF IInv
<1>2. TypeOK'
  <2>1. CASE UNCHANGED vars
    BY <1>1, <2>1 DEF TypeOK, vars
  <2> QED BY <1>1, <2>1, ExecutionTyped, RecoveryTyped, OthersTyped DEF Next
<1>3. Facts'
  <2>1. CASE UNCHANGED vars
    BY <2>1, Steady DEF vars, Unmoved, Facts, IInv, Numbered, Flagged, Waited, Accounted, Counted, Barrier,
        LossReached
  <2> QED BY <2>1, ExecutionSteady, RecoverySteady, Sends, Flattens, Books, Lives, VenueSteps
      DEF Next
<1> QED BY <1>2, <1>3 DEF Facts, IInv

-----------------------------------------------------------------------------
(* Theorems                                                                *)

\* The inductive invariant, types included.
THEOREM InvHolds == Spec => []IInv
<1> QED BY InvInit, InvStep, PTL DEF Spec

\* Whatever crashes, failed writes and early returns come (arb.rs, pnl.rs), the session
\* marker stays until every execution is closed or the operator has taken it over.
THEOREM BarrierHolds == Spec => []Barrier
<1>1. IInv => Barrier
  BY DEF IInv
<1> QED BY <1>1, InvHolds, PTL

\* Orders that may still fill are of one submission: no leg, retry or close is sent while
\* an earlier one is unresolved (execute_opportunity, recover_if_needed).
THEOREM OneBatchHolds == Spec => []OneBatch
<1>1. IInv => OneBatch
  BY DEF IInv
<1> QED BY <1>1, InvHolds, PTL

\* A new execution or recovery begins only when all before it are closed.
THEOREM OneAtATimeHolds == Spec => OneAtATime
<1>1. IInv /\ [Next]_vars => [exec' # exec => AllClosed]_vars
  <2> SUFFICES ASSUME IInv, Next, exec' # exec PROVE AllClosed
    BY DEF vars
  <2>1. pc = "scan" /\ armed
    <3>1. CASE Execution
      BY <3>1 DEF Execution, Execute, RecordOrders, LegsTerminal, LegsUnresolved, Hedged,
          SettleTimeout, Retry, NoRetry, RetryUnresolved, RetryTerminal, RetryVerified,
          RetryUnverified, JournalFails, Skip, Account, AccountingUnavailable, ToRecovery
    <3>2. CASE Recovery
      BY <3>2 DEF Recovery, Flatten, Recovered, RecoveryUnjournaled, Close, RecordClose,
          CloseInFlight, CloseTerminal, CloseSettled, RecoveryFails
    <3>3. CASE Accounting
      BY <3>3 DEF Accounting, AppendRow, AppendFails, Latch, Release
    <3>4. CASE Life
      BY <3>4 DEF Life, Start, Arm, Stop, Retire, Keep, Crash, ResolveSession, ResetBreaker
    <3>5. CASE VenueStep
      BY <3>5 DEF VenueStep, Fill, CatchUp, OutsideFill
    <3> QED BY <3>1, <3>2, <3>3, <3>4, <3>5 DEF Next
  <2> QED BY <2>1 DEF IInv, Flagged, Accounted
<1> QED BY <1>1, InvHolds, PTL DEF Spec, OneAtATime

\* No execution begins while the ledger's loss is at the limit, whatever became of the
\* breaker file (summarize_existing_pnl, record_trade).
THEOREM LossStopsHolds == Spec => LossStops
<1>1. IInv => (pc = "scan" => ~LossReached(pnl))
  BY DEF IInv, Counted
<1>2. IInv /\ [Next]_vars => [pc = "scan" /\ pc' = "sent" => ~LossReached(pnl)]_vars
  BY <1>1
<1> QED BY <1>2, InvHolds, PTL DEF Spec, LossStops

\* Evidence on disk only grows until its execution is accounted (record_unresolved).
THEOREM EvidenceGrowsHolds == Spec => EvidenceGrows
<1> DEFINE Grows ==
        marker.there /\ marker.evidence.there /\ marker'.there /\ marker'.evidence.there
            => /\ marker.evidence.named \subseteq marker'.evidence.named
               /\ marker'.evidence.complete => marker.evidence.complete
<1>1. IInv /\ [Next]_vars => [Grows]_vars
  <2> SUFFICES ASSUME IInv, Next PROVE Grows
    OBVIOUS
  <2>1. \/ marker' \in {marker, Armed, NoMarker}
        \/ \E named, complete : marker' = Merged(named, complete)
    <3>1. CASE Execution
      BY <3>1 DEF Execution, Execute, RecordOrders, LegsTerminal, LegsUnresolved, Hedged,
          SettleTimeout, Retry, NoRetry, RetryUnresolved, RetryTerminal, RetryVerified,
          RetryUnverified, JournalFails, Skip, Account, AccountingUnavailable, ToRecovery,
          RecordUnresolved, RecordFails, Resolved, ResolveFails
    <3>2. CASE Recovery
      BY <3>2 DEF Recovery, Flatten, Recovered, RecoveryUnjournaled, Close, RecordClose,
          CloseInFlight, CloseTerminal, CloseSettled, RecoveryFails, RecordUnresolved, RecordFails
    <3>3. CASE Accounting
      BY <3>3 DEF Accounting, AppendRow, AppendFails, Latch, Release, Resolved, ResolveFails
    <3>4. CASE Life
      BY <3>4 DEF Life, Start, Arm, Stop, Retire, Keep, Crash, ResolveSession, ResetBreaker
    <3>5. CASE VenueStep
      BY <3>5 DEF VenueStep, Fill, CatchUp, OutsideFill
    <3> QED BY <3>1, <3>2, <3>3, <3>4, <3>5 DEF Next
  <2>2. CASE marker' \in {Armed, NoMarker}
    BY <2>2 DEF Armed, NoMarker, NoEvidence
  <2>3. ASSUME NEW named, NEW complete, marker' = Merged(named, complete) PROVE Grows
    BY <2>3 DEF Merged
  <2> QED BY <2>1, <2>2, <2>3
<1> QED BY <1>1, InvHolds, PTL DEF Spec, EvidenceGrows
=============================================================================
