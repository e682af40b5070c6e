----------------------------- MODULE XemmSafety -----------------------------
(***************************************************************************)
(* Proofs about XEMM's margin and about its session.  MarginHolds for      *)
(* every equity, buffer, cap, lot size and number of orders: MarginHolds   *)
(* speaks of the venues, what is inductive of the strategy's own books,    *)
(* where a leg's prediction and everything counted against it stay within  *)
(* the margin plus the hidden fills processed since.  The session, its     *)
(* breaker and its files (livebot/run.rs, breaker.rs, strategy.rs) for     *)
(* every set of equities, limit, number of samples and streak.             *)
(***************************************************************************)
EXTENDS MarginRoom, XemmSession, SumTheorems

-----------------------------------------------------------------------------
(* MarginRoom                                                              *)

MarginTypeOK ==
    /\ pos \in [Legs -> Int] /\ truth \in [Legs -> Int] /\ rep \in [Legs -> Int]
    /\ live \in [Sides -> BOOLEAN]
    /\ rem \in [Sides -> Nat] /\ next \in [Sides -> Nat]
    /\ unseen \in [Sides -> Nat] /\ late \in [Sides -> Nat]
    /\ owed \in [Sides -> Nat] /\ taken \in [Sides -> Nat]
    /\ pending \in Int /\ placed \in Nat /\ hidden \in Nat

\* what the venues have and the strategy has not processed
Conserved ==
    /\ truth["Aster"] = pos["Aster"] + unseen["Buy"] + late["Buy"] - unseen["Sell"] - late["Sell"]
    /\ truth["Lighter"] = pos["Lighter"] + taken["Buy"] - taken["Sell"]

Slots ==
    \A s \in Sides :
        /\ ~live[s] => rem[s] = 0 /\ next[s] = 0
        /\ unseen[s] <= rem[s] /\ taken[s] <= owed[s]

MarginLimit(l) == Positive(Equity[l] - Buffer[l])

\* hidden fills processed so far
Settled == hidden - late["Buy"] - late["Sell"]

AsterBook(s) == Signed(s, pos["Aster"]) + rem[s] + next[s]

LighterBook(s) ==
    Signed(s, pos["Lighter"]) + rem[Opposite(s)] + next[Opposite(s)] + owed[s]
        + Positive(Signed(s, -pending))

Booked ==
    \A s \in Sides :
        AsterBook(s) <= MarginLimit("Aster") + Settled /\ LighterBook(s) <= MarginLimit("Lighter") + Settled

MarginInv == MarginTypeOK /\ Conserved /\ Slots /\ 0 <= Settled /\ Booked

-----------------------------------------------------------------------------
\* What MarginAllows grants on a reconciled leg: the books with the new order stay within the
\* margin, or within the position the leg already has.
LEMMA Granted ==
    ASSUME MarginRoomAssumption, MarginTypeOK, Slots, Reconciled,
           NEW m \in Sides, NEW q \in Nat, MarginAllows(m, q)
    PROVE  /\ \/ AsterBook(m) + q <= MarginLimit("Aster")
              \/ AsterBook(m) + q <= Magnitude(pos["Aster"])
           /\ \/ LighterBook(Opposite(m)) + q <= MarginLimit("Lighter")
              \/ LighterBook(Opposite(m)) + q <= Magnitude(pos["Lighter"])
<1>1. /\ Magnitude(pos["Aster"]) >= 0 /\ Magnitude(pos["Lighter"]) >= 0
      /\ Equity["Aster"] \in Int /\ Equity["Lighter"] \in Int
      /\ Buffer["Aster"] \in Int /\ Buffer["Lighter"] \in Int
      /\ pos["Aster"] \in Int /\ pos["Lighter"] \in Int
    BY DEF MarginTypeOK, Legs, Magnitude, MarginRoomAssumption
<1>2. \A s \in Sides : Potential(s) = rem[s] + next[s] /\ Potential(s) \in Nat
    BY DEF Potential, Slots, MarginTypeOK
<1>3. ASSUME NEW l \in Legs, NEW w \in Int, w <= Worst(l, m, q), Worst(l, m, q) \in Int
      PROVE  w <= MarginLimit(l) \/ w <= Magnitude(pos[l])
  <2>1. Positive(Worst(l, m, q) - Magnitude(pos[l]))
            <= Positive(Equity[l] - Magnitude(pos[l]) - Buffer[l])
    BY DEF MarginAllows, Reconciled, Free
  <2>2. pos[l] \in Int /\ Equity[l] \in Int /\ Buffer[l] \in Int
    BY DEF MarginTypeOK, MarginRoomAssumption
  <2> QED
    BY <1>3, <2>1, <2>2 DEF Positive, Larger, Magnitude, MarginLimit
<1>4. /\ Worst("Aster", m, q) \in Int /\ AsterBook(m) + q \in Int
      /\ AsterBook(m) + q <= Worst("Aster", m, q)
  <2>1. CASE m = "Buy"
    BY <1>1, <1>2, <2>1
       DEF Worst, Possible, AsterBook, Signed, Opposite, Larger, Magnitude, Sides, Legs, MarginTypeOK
  <2>2. CASE m = "Sell"
    BY <1>1, <1>2, <2>2
       DEF Worst, Possible, AsterBook, Signed, Opposite, Larger, Magnitude, Sides, Legs, MarginTypeOK
  <2> QED
    BY <2>1, <2>2 DEF Sides
<1>5. /\ Worst("Lighter", m, q) \in Int /\ LighterBook(Opposite(m)) + q \in Int
      /\ LighterBook(Opposite(m)) + q <= Worst("Lighter", m, q)
  <2>1. CASE m = "Buy"
    BY <1>1, <1>2, <2>1
       DEF Worst, Possible, LighterBook, Signed, Opposite, Larger, Positive, Magnitude, Sides,
           Legs, MarginTypeOK
  <2>2. CASE m = "Sell"
    BY <1>1, <1>2, <2>2
       DEF Worst, Possible, LighterBook, Signed, Opposite, Larger, Positive, Magnitude, Sides,
           Legs, MarginTypeOK
  <2> QED
    BY <2>1, <2>2 DEF Sides
<1> QED
  BY <1>3, <1>4, <1>5 DEF Legs

-----------------------------------------------------------------------------
LEMMA MarginStart == MarginRoomAssumption /\ MarginInit => MarginInv
<1> SUFFICES ASSUME MarginRoomAssumption, MarginInit PROVE MarginInv
    OBVIOUS
<1>1. MarginTypeOK
    BY DEF MarginInit, MarginTypeOK, Flat, Zero
<1>2. Conserved /\ Slots /\ Settled = 0
    BY DEF MarginInit, Conserved, Slots, Settled, Flat, Zero, Sides, Legs
<1>3. MarginLimit("Aster") \in Int /\ MarginLimit("Lighter") \in Int /\ 0 <= MarginLimit("Aster") /\ 0 <= MarginLimit("Lighter")
    BY DEF MarginLimit, Positive, Larger, MarginRoomAssumption, Legs
<1>4. Booked
    BY <1>2, <1>3 DEF MarginInit, Booked, AsterBook, LighterBook, Signed, Opposite, Positive, Larger, Flat, Zero, Sides, Legs
<1> QED
    BY <1>1, <1>2, <1>4 DEF MarginInv

\* every number the step lemmas compute with
LEMMA MarginNumbers ==
    ASSUME MarginRoomAssumption, MarginTypeOK
    PROVE  /\ MarginLimit("Aster") \in Nat /\ MarginLimit("Lighter") \in Nat /\ Settled \in Int
           /\ \A s \in Sides : Opposite(s) \in Sides /\ Opposite(s) # s /\ Opposite(Opposite(s)) = s
           /\ \A s \in Sides, n \in Int : Signed(s, n) \in Int
           /\ \A n \in Int : Positive(n) \in Nat
           /\ \A s \in Sides : AsterBook(s) \in Int /\ LighterBook(s) \in Int
BY DEF MarginRoomAssumption, MarginTypeOK, MarginLimit, Positive, Larger, Settled, Opposite, Signed, AsterBook,
       LighterBook, Sides, Legs

LEMMA NumbersAfter ==
    ASSUME MarginTypeOK'
    PROVE  \A s \in Sides : AsterBook(s)' \in Int /\ LighterBook(s)' \in Int
<1>1. /\ pos'["Aster"] \in Int /\ pos'["Lighter"] \in Int /\ pending' \in Int
      /\ \A s \in Sides : rem'[s] \in Int /\ next'[s] \in Int /\ owed'[s] \in Int
    BY DEF MarginTypeOK, Legs
<1>2. /\ \A s \in Sides : Opposite(s) \in Sides
      /\ \A s \in Sides, n \in Int : Signed(s, n) \in Int
      /\ \A n \in Int : Positive(n) \in Int /\ -n \in Int
    BY DEF Opposite, Signed, Positive, Larger, Sides
<1> SUFFICES ASSUME NEW s \in Sides PROVE AsterBook(s)' \in Int /\ LighterBook(s)' \in Int
    OBVIOUS
<1>3. /\ AsterBook(s)' = Signed(s, pos'["Aster"]) + rem'[s] + next'[s]
      /\ LighterBook(s)' = Signed(s, pos'["Lighter"]) + rem'[Opposite(s)] + next'[Opposite(s)]
                               + owed'[s] + Positive(Signed(s, -pending'))
    BY DEF AsterBook, LighterBook, Signed, Opposite, Positive, Larger
<1>4. /\ Signed(s, pos'["Aster"]) \in Int /\ Signed(s, pos'["Lighter"]) \in Int
      /\ Positive(Signed(s, -pending')) \in Int
    BY <1>1, <1>2
<1> QED
    BY <1>1, <1>2, <1>3, <1>4

-----------------------------------------------------------------------------
\* An admitted order keeps within the books: a reconciled prediction is itself within them.
LEMMA Admitted ==
    ASSUME MarginRoomAssumption, MarginInv, Reconciled, NEW m \in Sides, NEW q \in Nat, MarginAllows(m, q)
    PROVE  /\ AsterBook(m) + q <= MarginLimit("Aster") + Settled
           /\ LighterBook(Opposite(m)) + q <= MarginLimit("Lighter") + Settled
<1>1. \A s \in Sides : /\ Signed(s, pos["Aster"]) <= AsterBook(s)
                      /\ Signed(s, pos["Lighter"]) <= LighterBook(s)
    BY MarginNumbers DEF MarginInv, MarginTypeOK, AsterBook, LighterBook, Sides, Legs
<1>2. /\ Magnitude(pos["Aster"]) <= MarginLimit("Aster") + Settled
      /\ Magnitude(pos["Lighter"]) <= MarginLimit("Lighter") + Settled
    BY <1>1, MarginNumbers DEF MarginInv, Booked, MarginTypeOK, Magnitude, Signed, Sides, Legs
<1>3. /\ Magnitude(pos["Aster"]) \in Int /\ Magnitude(pos["Lighter"]) \in Int
    BY DEF MarginInv, MarginTypeOK, Magnitude, Legs
<1> QED
    BY <1>2, <1>3, Granted, MarginNumbers DEF MarginInv

LEMMA PlaceStep ==
    ASSUME MarginRoomAssumption, MarginInv, NEW m \in Sides, PlaceOrder(m) \/ ReplaceOrder(m)
    PROVE  MarginInv'
<1>1. PICK q \in 1 .. MaxQty :
          /\ Reconciled /\ MarginAllows(m, q) /\ placed' = placed + 1
          /\ live' = [live EXCEPT ![m] = TRUE]
          /\ \/ rem[m] = 0 /\ next[m] = 0 /\ rem' = [rem EXCEPT ![m] = q] /\ next' = next
             \/ next[m] = 0 /\ next' = [next EXCEPT ![m] = q] /\ rem' = rem
          /\ UNCHANGED <<pos, truth, rep, unseen, late, hidden, hedgeVars>>
    BY DEF PlaceOrder, ReplaceOrder, MarginInv, Slots, MarginTypeOK
<1>2. q \in Nat /\ q > 0
    BY DEF MarginRoomAssumption
<1>3. MarginTypeOK'
    BY <1>1, <1>2 DEF MarginInv, MarginTypeOK, hedgeVars
<1>4. Conserved' /\ Settled' = Settled
    BY <1>1 DEF MarginInv, Conserved, Settled, hedgeVars
<1>5. Slots'
    BY <1>1, <1>2 DEF MarginInv, Slots, MarginTypeOK, hedgeVars, Sides
<1>6. /\ \A s \in Sides : AsterBook(s)' = IF s = m THEN AsterBook(s) + q ELSE AsterBook(s)
      /\ \A s \in Sides :
             LighterBook(s)' = IF Opposite(s) = m THEN LighterBook(s) + q ELSE LighterBook(s)
    BY <1>1, <1>2 DEF MarginInv, MarginTypeOK, AsterBook, LighterBook, Signed, Opposite, Positive, Larger,
       hedgeVars, Sides, Legs
<1>7. /\ AsterBook(m) + q <= MarginLimit("Aster") + Settled
      /\ LighterBook(Opposite(m)) + q <= MarginLimit("Lighter") + Settled
    BY <1>1, <1>2, Admitted
<1>8. Booked'
    BY <1>4, <1>6, <1>7, MarginNumbers DEF MarginInv, Booked, MarginLimit, Opposite, Sides
<1> QED
    BY <1>3, <1>4, <1>5, <1>8 DEF MarginInv

LEMMA AckStep ==
    ASSUME MarginRoomAssumption, MarginInv, NEW m \in Sides, CancelAck(m)
    PROVE  MarginInv'
<1>1. MarginTypeOK'
    BY DEF MarginInv, MarginTypeOK, CancelAck, hedgeVars
<1>2. Conserved' /\ Settled' = Settled
  <2>1. /\ late'[m] = late[m] + unseen[m] /\ unseen'[m] = 0 /\ hidden' = hidden + unseen[m]
        /\ \A s \in Sides : s # m => late'[s] = late[s] /\ unseen'[s] = unseen[s]
        /\ UNCHANGED <<pos, truth, taken>>
    BY DEF MarginInv, MarginTypeOK, CancelAck, hedgeVars
  <2>2. /\ unseen["Buy"] \in Nat /\ unseen["Sell"] \in Nat /\ late["Buy"] \in Nat
        /\ late["Sell"] \in Nat /\ hidden \in Nat /\ pos["Aster"] \in Int
    BY DEF MarginInv, MarginTypeOK, Sides, Legs
  <2>3. CASE m = "Buy"
    <3>1. late'["Sell"] = late["Sell"] /\ unseen'["Sell"] = unseen["Sell"]
      BY <2>1, <2>3 DEF Sides
    <3> QED
      BY <2>1, <2>2, <2>3, <3>1 DEF MarginInv, Conserved, Settled
  <2>4. CASE m = "Sell"
    <3>1. late'["Buy"] = late["Buy"] /\ unseen'["Buy"] = unseen["Buy"]
      BY <2>1, <2>4 DEF Sides
    <3> QED
      BY <2>1, <2>2, <2>4, <3>1 DEF MarginInv, Conserved, Settled
  <2> QED
    BY <2>3, <2>4 DEF Sides
<1>3. Slots'
    BY DEF MarginInv, MarginTypeOK, Slots, CancelAck, hedgeVars, Sides
<1>4. \A s \in Sides : AsterBook(s)' <= AsterBook(s) /\ LighterBook(s)' <= LighterBook(s)
    BY DEF MarginInv, MarginTypeOK, CancelAck, AsterBook, LighterBook, Signed, Opposite, Positive, Larger,
       hedgeVars, Sides, Legs
<1>5. Booked'
  <2>1. \A s \in Sides : AsterBook(s)' \in Int /\ LighterBook(s)' \in Int
    BY <1>1, NumbersAfter
  <2> QED
    BY <1>2, <1>4, <2>1, MarginNumbers DEF MarginInv, Booked, MarginLimit
<1> QED
    BY <1>1, <1>2, <1>3, <1>5 DEF MarginInv

LEMMA VenueStep ==
    ASSUME MarginRoomAssumption, MarginInv, NEW s \in Sides, VenueFills(s) \/ HedgeFills(s)
    PROVE  MarginInv'
<1>1. MarginTypeOK'
    BY DEF MarginInv, MarginTypeOK, VenueFills, HedgeFills, orderVars, hedgeVars, Signed, Legs
<1>2. Conserved' /\ Settled' = Settled
    BY DEF MarginInv, MarginTypeOK, Conserved, Settled, VenueFills, HedgeFills, orderVars, hedgeVars, Signed, Sides, Legs
<1>3. Slots'
    BY DEF MarginInv, MarginTypeOK, Slots, VenueFills, HedgeFills, orderVars, hedgeVars, Sides
<1>4. Booked'
    BY <1>2 DEF MarginInv, Booked, AsterBook, LighterBook, MarginLimit, VenueFills, HedgeFills, orderVars,
       hedgeVars
<1> QED
    BY <1>1, <1>2, <1>3, <1>4 DEF MarginInv

\* What a fill of n on side m does to what is pending and owed on the two Lighter sides: the one
\* that hedges it grows by at most n, the other does not.
LEMMA Hedged ==
    ASSUME MarginRoomAssumption, MarginTypeOK, NEW m \in Sides, NEW n \in Nat, Hedge(m, n)
    PROVE  /\ owed' \in [Sides -> Nat] /\ pending' \in Int
           /\ \A s \in Sides : owed[s] <= owed'[s]
           /\ owed'[Opposite(m)] + Positive(Signed(Opposite(m), -pending'))
                  <= owed[Opposite(m)] + Positive(Signed(Opposite(m), -pending)) + n
           /\ owed'[m] + Positive(Signed(m, -pending')) <= owed[m] + Positive(Signed(m, -pending))
<1>1. CASE m = "Buy"
    BY <1>1 DEF Hedge, MarginTypeOK, Opposite, Signed, Positive, Larger, Magnitude, Sides
<1>2. CASE m = "Sell"
    BY <1>2 DEF Hedge, MarginTypeOK, Opposite, Signed, Positive, Larger, Magnitude, Sides
<1> QED
    BY <1>1, <1>2 DEF Sides

LEMMA FillStep ==
    ASSUME MarginRoomAssumption, MarginInv, NEW m \in Sides, FillArrives(m) \/ LateFillArrives(m)
    PROVE  MarginInv'
<1>1. PICK n \in Nat :
          /\ Hedge(m, n)
          /\ pos' = [pos EXCEPT !["Aster"] = @ + Signed(m, n)]
          /\ \/ /\ n <= unseen[m] /\ unseen' = [unseen EXCEPT ![m] = @ - n]
                /\ rem' = [rem EXCEPT ![m] = @ - n] /\ late' = late
                /\ live' = [live EXCEPT ![m] = rem[m] > n \/ next[m] > 0]
             \/ /\ n <= late[m] /\ late' = [late EXCEPT ![m] = @ - n]
                /\ UNCHANGED <<unseen, rem, live>>
          /\ UNCHANGED <<truth, rep, next, placed, hidden, taken>>
    BY DEF FillArrives, LateFillArrives, MarginInv, MarginTypeOK
<1>2. /\ owed' \in [Sides -> Nat] /\ pending' \in Int
      /\ \A s \in Sides : owed[s] <= owed'[s]
      /\ owed'[Opposite(m)] + Positive(Signed(Opposite(m), -pending'))
             <= owed[Opposite(m)] + Positive(Signed(Opposite(m), -pending)) + n
      /\ owed'[m] + Positive(Signed(m, -pending')) <= owed[m] + Positive(Signed(m, -pending))
    BY <1>1, Hedged DEF MarginInv
<1>3. MarginTypeOK'
  <2>1. Signed(m, n) \in Int
    BY DEF Signed
  <2>2. pos' \in [Legs -> Int]
    BY <1>1, <2>1 DEF MarginInv, MarginTypeOK, Legs
  <2>3. unseen' \in [Sides -> Nat] /\ late' \in [Sides -> Nat] /\ rem' \in [Sides -> Nat]
    BY <1>1 DEF MarginInv, MarginTypeOK, Slots
  <2>4. live' \in [Sides -> BOOLEAN]
    <3>1. (rem[m] > n \/ next[m] > 0) \in BOOLEAN
      OBVIOUS
    <3> QED
      BY <1>1, <3>1, Zenon DEF MarginInv, MarginTypeOK
  <2> QED
    BY <1>1, <1>2, <2>2, <2>3, <2>4 DEF MarginInv, MarginTypeOK
<1>4. Conserved'
    BY <1>1 DEF MarginInv, MarginTypeOK, Conserved, Signed, Sides, Legs
<1>5. Slots'
    BY <1>1, <1>2 DEF MarginInv, MarginTypeOK, Slots, Sides
<1>6. 0 <= Settled' /\ Settled' \in Int /\ Settled' >= Settled
    BY <1>1 DEF MarginInv, MarginTypeOK, Settled, Sides
<1>7. /\ AsterBook(m)' <= AsterBook(m) + (Settled' - Settled)
      /\ AsterBook(Opposite(m))' <= AsterBook(Opposite(m))
    BY <1>1 DEF MarginInv, MarginTypeOK, AsterBook, Settled, Signed, Opposite, Sides, Legs
<1>8. /\ LighterBook(Opposite(m))' <= LighterBook(Opposite(m)) + (Settled' - Settled)
      /\ LighterBook(m)' <= LighterBook(m)
  <2>1. CASE m = "Buy"
    BY <1>1, <1>2, <2>1, MarginNumbers
       DEF MarginInv, MarginTypeOK, LighterBook, Settled, Opposite, Signed, Sides, Legs
  <2>2. CASE m = "Sell"
    BY <1>1, <1>2, <2>2, MarginNumbers
       DEF MarginInv, MarginTypeOK, LighterBook, Settled, Opposite, Signed, Sides, Legs
  <2> QED
    BY <2>1, <2>2 DEF Sides
<1>9. Booked'
  <2>1. \A s \in Sides : AsterBook(s)' \in Int /\ LighterBook(s)' \in Int
    BY <1>3, NumbersAfter
  <2>2. \A s \in Sides : s = m \/ s = Opposite(m)
    BY DEF Sides, Opposite
  <2>3. MarginLimit("Aster")' = MarginLimit("Aster") /\ MarginLimit("Lighter")' = MarginLimit("Lighter")
    BY DEF MarginLimit
  <2> QED
    BY <1>6, <1>7, <1>8, <2>1, <2>2, <2>3, MarginNumbers DEF MarginInv, Booked
<1> QED
    BY <1>3, <1>4, <1>5, <1>6, <1>9 DEF MarginInv

LEMMA ProgressStep ==
    ASSUME MarginRoomAssumption, MarginInv, NEW m \in Sides, HedgeProgress(m)
    PROVE  MarginInv'
<1>1. MarginTypeOK'
    BY DEF MarginInv, MarginTypeOK, Slots, HedgeProgress, orderVars, Signed, Legs, Sides
<1>2. Conserved' /\ Settled' = Settled
    BY DEF MarginInv, MarginTypeOK, Conserved, Settled, HedgeProgress, orderVars, Signed, Sides, Legs
<1>3. Slots'
    BY DEF MarginInv, MarginTypeOK, Slots, HedgeProgress, orderVars, Sides
<1>4. \A s \in Sides : AsterBook(s)' = AsterBook(s) /\ LighterBook(s)' <= LighterBook(s)
    BY DEF MarginInv, MarginTypeOK, HedgeProgress, AsterBook, LighterBook, Signed, Opposite, Positive, Larger,
       orderVars, Sides, Legs
<1>5. Booked'
  <2>1. \A s \in Sides : AsterBook(s)' \in Int /\ LighterBook(s)' \in Int
    BY <1>1, NumbersAfter
  <2> QED
    BY <1>2, <1>4, <2>1, MarginNumbers DEF MarginInv, Booked, MarginLimit
<1> QED
    BY <1>1, <1>2, <1>3, <1>5 DEF MarginInv

LEMMA SnapshotStep ==
    ASSUME MarginInv, NEW l \in Legs, SnapshotArrives(l)
    PROVE  MarginInv'
BY DEF MarginInv, MarginTypeOK, Conserved, Slots, Settled, Booked, AsterBook, LighterBook, MarginLimit, SnapshotArrives,
       orderVars, hedgeVars

LEMMA MarginStep == MarginRoomAssumption /\ MarginInv /\ [MarginNext]_marginVars => MarginInv'
<1> SUFFICES ASSUME MarginRoomAssumption, MarginInv, [MarginNext]_marginVars PROVE MarginInv'
    OBVIOUS
<1>1. ASSUME NEW s \in Sides, PlaceOrder(s) \/ ReplaceOrder(s) PROVE MarginInv'
    BY <1>1, PlaceStep
<1>2. ASSUME NEW s \in Sides, CancelAck(s) PROVE MarginInv'
    BY <1>2, AckStep
<1>3. ASSUME NEW s \in Sides, VenueFills(s) \/ HedgeFills(s) PROVE MarginInv'
    BY <1>3, VenueStep
<1>4. ASSUME NEW s \in Sides, FillArrives(s) \/ LateFillArrives(s) PROVE MarginInv'
    BY <1>4, FillStep
<1>5. ASSUME NEW s \in Sides, HedgeProgress(s) PROVE MarginInv'
    BY <1>5, ProgressStep
<1>6. ASSUME NEW l \in Legs, SnapshotArrives(l) PROVE MarginInv'
    BY <1>6, SnapshotStep
<1>7. CASE UNCHANGED marginVars
    BY <1>7 DEF marginVars, orderVars, hedgeVars, MarginInv, MarginTypeOK, Conserved, Slots, Settled, Booked,
       AsterBook, LighterBook, MarginLimit
<1> QED
    BY <1>1, <1>2, <1>3, <1>4, <1>5, <1>6, <1>7 DEF MarginNext

LEMMA MarginBound == MarginRoomAssumption /\ MarginInv => MarginHolds
<1> SUFFICES ASSUME MarginRoomAssumption, MarginInv, NEW side \in Sides
             PROVE  /\ Reach("Aster", side) <= MarginLimit("Aster") + hidden
                    /\ Reach("Lighter", side) <= MarginLimit("Lighter") + hidden
    BY DEF MarginHolds, Legs, MarginLimit
<1>1. Settled = hidden - late["Buy"] - late["Sell"] /\ hidden \in Nat
    BY DEF Settled, MarginInv, MarginTypeOK
<1>2. Reach("Aster", side) <= AsterBook(side) + late["Buy"] + late["Sell"]
    BY DEF Reach, AsterBook, MarginInv, MarginTypeOK, Conserved, Signed, Opposite, Sides, Legs
<1>3. Reach("Lighter", side) <= LighterBook(side) + late["Buy"] + late["Sell"]
    BY MarginNumbers DEF Reach, LighterBook, MarginInv, MarginTypeOK, Conserved, Signed, Opposite, Sides, Legs
<1>4. Reach("Aster", side) \in Int /\ Reach("Lighter", side) \in Int
    BY MarginNumbers DEF Reach, MarginInv, MarginTypeOK, Opposite, Sides, Legs
<1>5. late["Buy"] \in Nat /\ late["Sell"] \in Nat
    BY DEF MarginInv, MarginTypeOK, Sides
<1> QED
    BY <1>1, <1>2, <1>3, <1>4, <1>5, MarginNumbers DEF MarginInv, Booked

\* Whatever fills, in whatever order, neither leg's position comes to need more than its equity
\* less the buffer, save for the fills a cancel acknowledgement overtook: margin_allows together
\* with the positions_reconciled gate.
THEOREM MarginHeld == MarginRoomAssumption => (MarginSpec => []MarginHolds)
<1> SUFFICES ASSUME MarginRoomAssumption PROVE MarginSpec => []MarginHolds
    OBVIOUS
<1>1. MarginInit => MarginInv
    BY MarginStart
<1>2. MarginInv /\ [MarginNext]_marginVars => MarginInv'
    BY MarginStep
<1>3. MarginInv => MarginHolds
    BY MarginBound
<1> QED
    BY <1>1, <1>2, <1>3, PTL DEF MarginSpec

-----------------------------------------------------------------------------
(* XemmSession                                                             *)

\* The median.

\* A bounded set of naturals that is not empty has a greatest element.
LEMMA GreatestExists ==
    ASSUME NEW T \in SUBSET Nat, T # {}, NEW b \in Nat, \A n \in T : n <= b
    PROVE  \E m \in T : \A n \in T : n <= m
<1> DEFINE D == {b - n : n \in T}
<1>1. D \in SUBSET Nat /\ D # {}
  <2>1. PICK n \in T : TRUE
    OBVIOUS
  <2>2. b - n \in D
    BY <2>1
  <2>3. \A m \in T : b - m \in Nat
    OBVIOUS
  <2> QED BY <2>2, <2>3
<1>2. PICK d \in D : \A e \in D : d <= e
  BY <1>1, LeastNatural
<1>3. PICK m \in T : d = b - m
  OBVIOUS
<1>4. \A n \in T : b - m <= b - n
  BY <1>2, <1>3
<1> QED BY <1>4

\* The samples up to a value, and those below it.
Upto(s, v) == {i \in 1 .. Len(s) : s[i] <= v}
Below(s, v) == {i \in 1 .. Len(s) : s[i] < v}

LEMMA RanksCount ==
    ASSUME NEW s \in Seq(Nat), NEW v
    PROVE  /\ IsFiniteSet(1 .. Len(s)) /\ Cardinality(1 .. Len(s)) = Len(s) /\ Len(s) \in Nat
           /\ IsFiniteSet(Upto(s, v)) /\ Cardinality(Upto(s, v)) \in 0 .. Len(s)
           /\ IsFiniteSet(Below(s, v)) /\ Cardinality(Below(s, v)) \in 0 .. Len(s)
<1>1. Len(s) \in Nat
  OBVIOUS
<1>2. IsFiniteSet(1 .. Len(s)) /\ Cardinality(1 .. Len(s)) = Len(s)
  <2>1. \A b \in Int : IsFiniteSet(1 .. b) /\ Cardinality(1 .. b) = IF 1 > b THEN 0 ELSE b - 1 + 1
    BY FS_Interval
  <2> QED BY <1>1, <2>1
<1>3. Upto(s, v) \in SUBSET (1 .. Len(s)) /\ Below(s, v) \in SUBSET (1 .. Len(s))
  BY DEF Upto, Below
<1>4. /\ IsFiniteSet(Upto(s, v)) /\ Cardinality(Upto(s, v)) <= Len(s)
      /\ IsFiniteSet(Below(s, v)) /\ Cardinality(Below(s, v)) <= Len(s)
  BY <1>2, <1>3, FS_Subset
<1> QED BY <1>1, <1>2, <1>4, FS_CardinalityType

\* Some sample is not below any other.
LEMMA TopSample ==
    ASSUME NEW s \in Seq(Nat), Len(s) > 0
    PROVE  \E k \in 1 .. Len(s) : \A i \in 1 .. Len(s) : s[i] <= s[k]
<1> DEFINE C == {Cardinality(Upto(s, s[i])) : i \in 1 .. Len(s)}
<1>1. C \in SUBSET Nat /\ \A c \in C : c <= Len(s)
  BY RanksCount
<1>2. C # {}
  <2>1. 1 \in 1 .. Len(s)
    OBVIOUS
  <2> QED BY <2>1
<1>3. \E c \in C : \A d \in C : d <= c
  <2> HIDE DEF C
  <2>1. Len(s) \in Nat
    OBVIOUS
  <2> QED BY <1>1, <1>2, <2>1, GreatestExists
<1> PICK c \in C : \A d \in C : d <= c
  BY <1>3
<1>4. PICK k \in 1 .. Len(s) : c = Cardinality(Upto(s, s[k]))
  OBVIOUS
<1>5. ASSUME NEW i \in 1 .. Len(s), ~(s[i] <= s[k]) PROVE FALSE
  <2>1. s[i] \in Nat /\ s[k] \in Nat
    OBVIOUS
  <2>2. Upto(s, s[k]) \in SUBSET Upto(s, s[i]) /\ i \in Upto(s, s[i]) /\ i \notin Upto(s, s[k])
    BY <1>5, <2>1 DEF Upto
  <2>3. Cardinality(Upto(s, s[k])) <= Cardinality(Upto(s, s[i])) /\ Cardinality(Upto(s, s[k])) # Cardinality(Upto(s, s[i]))
    BY <2>2, RanksCount, FS_Subset
  <2>4. Cardinality(Upto(s, s[i])) <= Cardinality(Upto(s, s[k]))
    BY <1>4
  <2>5. Cardinality(Upto(s, s[i])) \in Nat /\ Cardinality(Upto(s, s[k])) \in Nat
    BY RanksCount
  <2> QED BY <2>3, <2>4, <2>5
<1> QED BY <1>5

\* The greatest sample below a value.
LEMMA TopBelow ==
    ASSUME NEW s \in Seq(Nat), NEW m \in Nat, Below(s, m) # {}
    PROVE  \E k \in Below(s, m) : Upto(s, s[k]) = Below(s, m)
<1> DEFINE W == {s[i] : i \in Below(s, m)}
<1>1. \A i \in Below(s, m) : i \in 1 .. Len(s) /\ s[i] \in Nat /\ s[i] < m
  BY DEF Below
<1>2. W \in SUBSET Nat /\ W # {} /\ \A w \in W : w <= m
  <2>1. PICK i \in Below(s, m) : TRUE
    OBVIOUS
  <2>2. s[i] \in W
    BY <2>1
  <2> QED BY <1>1, <2>2
<1>3. PICK w \in W : \A n \in W : n <= w
  BY <1>2, GreatestExists
<1>4. PICK k \in Below(s, m) : w = s[k]
  OBVIOUS
<1>5. \A i \in 1 .. Len(s) : i \in Upto(s, s[k]) <=> i \in Below(s, m)
  <2> TAKE i \in 1 .. Len(s)
  <2>1. s[i] \in Nat /\ s[k] \in Nat /\ s[k] < m
    BY <1>1
  <2>2. i \in Below(s, m) => s[i] <= s[k]
    BY <1>3, <1>4
  <2> QED BY <2>1, <2>2 DEF Upto, Below
<1>6. Upto(s, s[k]) = Below(s, m)
  BY <1>5 DEF Upto, Below
<1> QED BY <1>6

\* The median exists.
LEMMA MedianIs ==
    ASSUME NEW s \in Seq(Nat), Len(s) > 0
    PROVE  /\ Median(s) \in {s[i] : i \in 1 .. Len(s)}
           /\ Cardinality(Below(s, Median(s))) <= Len(s) \div 2
           /\ Cardinality(Upto(s, Median(s))) > Len(s) \div 2
<1> DEFINE V == {s[i] : i \in 1 .. Len(s)}
           T == {v \in V : Cardinality(Upto(s, v)) > Len(s) \div 2}
           Middle(m) == Cardinality(Below(s, m)) <= Len(s) \div 2 /\ Cardinality(Upto(s, m)) > Len(s) \div 2
<1>0. V \in SUBSET Nat /\ Len(s) \in Nat /\ Len(s) \div 2 < Len(s)
  OBVIOUS
<1>1. T # {}
  <2>1. PICK k \in 1 .. Len(s) : \A i \in 1 .. Len(s) : s[i] <= s[k]
    BY TopSample
  <2>2. Upto(s, s[k]) = 1 .. Len(s)
    BY <2>1 DEF Upto
  <2>3. Cardinality(Upto(s, s[k])) = Len(s)
    BY <2>2, RanksCount
  <2> QED BY <1>0, <2>3
<1>2. PICK m \in T : \A v \in T : m <= v
  BY <1>0, <1>1, LeastNatural
<1>3. Cardinality(Below(s, m)) <= Len(s) \div 2
  <2> SUFFICES ASSUME ~(Cardinality(Below(s, m)) <= Len(s) \div 2) PROVE FALSE
    OBVIOUS
  <2>1. Cardinality(Below(s, m)) \in Nat /\ Cardinality(Below(s, m)) > Len(s) \div 2 /\ m \in Nat
    BY <1>0, RanksCount
  <2>2. Below(s, m) # {}
    <3> SUFFICES ASSUME Below(s, m) = {} PROVE FALSE
      OBVIOUS
    <3>1. Cardinality(Below(s, m)) = 0
      BY FS_EmptySet
    <3> QED BY <1>0, <2>1, <3>1
  <2>3. PICK k \in Below(s, m) : Upto(s, s[k]) = Below(s, m)
    BY <2>1, <2>2, TopBelow
  <2>4. k \in 1 .. Len(s) /\ s[k] < m /\ s[k] \in Nat
    BY DEF Below
  <2>5. Cardinality(Upto(s, s[k])) > Len(s) \div 2
    BY <2>1, <2>3
  <2>6. s[k] \in T
    BY <2>4, <2>5
  <2>7. m <= s[k]
    BY <1>2, <2>6
  <2> QED BY <2>1, <2>4, <2>7
<1>4. m \in V /\ Middle(m)
  BY <1>3
<1>5. Median(s) = CHOOSE v \in V : Middle(v)
  BY DEF Median, Upto, Below
<1>6. Median(s) \in V /\ Middle(Median(s))
  BY <1>4, <1>5
<1> QED BY <1>6

\* No single sample decides where the median lies.
LEMMA MedianResists ==
    ASSUME NEW s \in Seq(Nat), Len(s) >= 3, NEW k \in 1 .. Len(s)
    PROVE  /\ \E i \in (1 .. Len(s)) \ {k} : s[i] <= Median(s)
           /\ \E i \in (1 .. Len(s)) \ {k} : Median(s) <= s[i]
<1> DEFINE m == Median(s)
           Above == (1 .. Len(s)) \ Below(s, m)
<1>0. Len(s) \in Nat /\ Len(s) \div 2 >= 1 /\ Len(s) - (Len(s) \div 2) >= 2
  OBVIOUS
<1>1. /\ m \in {s[i] : i \in 1 .. Len(s)}
      /\ Cardinality(Below(s, m)) <= Len(s) \div 2 /\ Cardinality(Upto(s, m)) > Len(s) \div 2
  BY <1>0, MedianIs
<1>2. m \in Nat
  BY <1>1
<1> HIDE DEF m
<1>3. ASSUME NEW S \in SUBSET (1 .. Len(s)), Cardinality(S) >= 2 PROVE \E i \in S : i # k
  <2> SUFFICES ASSUME S \subseteq {k} PROVE FALSE
    OBVIOUS
  <2>1. IsFiniteSet({k}) /\ Cardinality({k}) = 1 /\ S \in SUBSET {k}
    BY FS_Singleton
  <2>2. IsFiniteSet(S) /\ Cardinality(S) <= 1
    BY <2>1, FS_Subset
  <2>3. Cardinality(S) \in Nat
    BY <2>2, FS_CardinalityType
  <2> QED BY <1>3, <2>2, <2>3
<1>4. \E i \in (1 .. Len(s)) \ {k} : s[i] <= m
  <2>1. Cardinality(Upto(s, m)) >= 2
    BY <1>0, <1>1, RanksCount
  <2>2. Upto(s, m) \in SUBSET (1 .. Len(s))
    BY DEF Upto
  <2>3. PICK i \in Upto(s, m) : i # k
    BY <1>3, <2>1, <2>2
  <2> QED BY <2>3 DEF Upto
<1>5. \E i \in (1 .. Len(s)) \ {k} : m <= s[i]
  <2>1. (1 .. Len(s)) \cap Below(s, m) = Below(s, m)
    BY DEF Below
  <2>2. /\ IsFiniteSet(1 .. Len(s)) /\ Cardinality(1 .. Len(s)) = Len(s)
        /\ IsFiniteSet(Below(s, m)) /\ Cardinality(Below(s, m)) \in 0 .. Len(s)
    BY RanksCount
  <2>3. Cardinality(Above) >= 2
    <3>1. Cardinality(Above) = Cardinality(1 .. Len(s)) - Cardinality((1 .. Len(s)) \cap Below(s, m))
      BY <2>2, FS_Difference
    <3>2. Cardinality(Above) = Len(s) - Cardinality(Below(s, m))
      BY <2>1, <2>2, <3>1
    <3>3. Cardinality(Below(s, m)) <= Len(s) \div 2 /\ Cardinality(Below(s, m)) \in Int /\ Len(s) \div 2 \in Int
      BY <1>0, <1>1, <2>2
    <3> HIDE DEF Above
    <3> QED BY <1>0, <3>2, <3>3
  <2>4. PICK i \in Above : i # k
    BY <1>3, <2>3
  <2>5. s[i] \in Nat /\ ~(s[i] < m)
    BY <2>4 DEF Below
  <2> QED BY <1>2, <2>4, <2>5
<1> QED BY <1>4, <1>5 DEF m

-----------------------------------------------------------------------------
(* The invariant                                                           *)

LEMMA SamplesAreNaturals == ASSUME XemmSessionAssumption, NEW s \in Seq(Equities) PROVE s \in Seq(Nat)
<1>1. Len(s) \in Nat /\ s \in [1 .. Len(s) -> Equities]
  OBVIOUS
<1>2. s \in [1 .. Len(s) -> Nat]
  BY <1>1 DEF XemmSessionAssumption
<1> QED BY <1>1, <1>2

LEMMA MedianTypes ==
    ASSUME XemmSessionAssumption, NEW s \in Seq(Equities), Len(s) > 0
    PROVE  Median(s) \in Equities
<1>1. s \in Seq(Nat)
  BY SamplesAreNaturals
<1>2. Median(s) \in {s[i] : i \in 1 .. Len(s)}
  BY <1>1, MedianIs
<1> QED BY <1>2

\* The looks that are kept: all but perhaps the oldest, and the new one at the end.
LEMMA RecentIs ==
    ASSUME XemmSessionAssumption, NEW l \in Seq(Snapshots), NEW x \in Snapshots, Len(l) <= Streak
    PROVE  LET r == Recent(Append(l, x))
               d == Len(l) + 1 - Len(r)
           IN  /\ r \in Seq(Snapshots) /\ Len(r) \in 1 .. Streak /\ d \in {0, 1} /\ (d = 1 => Len(r) = Streak)
               /\ r[Len(r)] = x
               /\ \A k \in 1 .. Len(r) - 1 : r[k] = l[k + d]
<1> DEFINE a == Append(l, x)
           r == Recent(a)
           d == Len(l) + 1 - Len(r)
<1>1. a \in Seq(Snapshots) /\ Len(a) = Len(l) + 1 /\ Len(l) \in Nat /\ Streak \in Nat \ {0}
  BY DEF XemmSessionAssumption
<1>2. a[Len(a)] = x /\ \A k \in 1 .. Len(l) : a[k] = l[k]
  OBVIOUS
<1>3. CASE Len(a) > Streak
  <2> HIDE DEF a
  <2>1. r = Tail(a) /\ Tail(a) \in Seq(Snapshots) /\ Len(Tail(a)) = Len(l) /\ Len(l) = Streak
    BY <1>1, <1>3 DEF Recent
  <2>2. \A k \in 1 .. Len(l) : Tail(a)[k] = a[k + 1]
    BY <1>1
  <2>3. Tail(a)[Len(l)] = x /\ \A k \in 1 .. Len(l) - 1 : Tail(a)[k] = l[k + 1]
    BY <1>1, <1>2, <2>1, <2>2
  <2>4. Len(r) = Streak /\ d = 1
    BY <1>1, <2>1
  <2>5. \A k \in 1 .. Len(r) - 1 : r[k] = l[k + d]
    BY <1>1, <2>1, <2>3, <2>4
  <2>6. r[Len(r)] = x /\ r \in Seq(Snapshots) /\ Len(r) \in 1 .. Streak
    BY <1>1, <2>1, <2>3, <2>4
  <2> QED BY <2>4, <2>5, <2>6 DEF a
<1>4. CASE ~(Len(a) > Streak)
  <2> HIDE DEF a
  <2>1. r = a
    BY <1>4 DEF Recent
  <2>2. Len(r) = Len(l) + 1 /\ d = 0
    BY <1>1, <2>1
  <2>3. r[Len(r)] = x /\ r \in Seq(Snapshots) /\ Len(r) \in 1 .. Streak
    BY <1>1, <1>2, <1>4, <2>1
  <2>4. \A k \in 1 .. Len(r) - 1 : r[k] = l[k + d]
    BY <1>1, <1>2, <2>1, <2>2
  <2> QED BY <2>2, <2>3, <2>4 DEF a
<1> QED BY <1>3, <1>4

LEMMA SnapshotTypes ==
    ASSUME XemmSessionAssumption
    PROVE  NoRead \in Snapshots /\ \A look \in Snapshots : look.equity \in Nat
<1>1. \A q \in Equities \cup {0} : q \in Nat
  BY DEF XemmSessionAssumption
<1>2. NoRead \in Snapshots
  BY DEF NoRead, Snapshots
<1> QED BY <1>1, <1>2 DEF Snapshots

LEMMA InvInit == ASSUME XemmSessionAssumption PROVE XemmInit => XemmInv
<1> SUFFICES ASSUME XemmInit PROVE XemmInv
  OBVIOUS
<1> USE DEF XemmInit, XemmSessionAssumption
<1>1. <<>> \in Seq(Equities) /\ <<>> \in Seq(Snapshots)
  OBVIOUS
<1>2. XemmTypeOK
  <2>1. /\ samples \in Seq(Equities) /\ looks \in Seq(Snapshots) /\ snapshot \in Snapshots
        /\ baseline \in Equities \cup {None} /\ streak \in 0 .. Streak
    BY <1>1, SnapshotTypes
  <2> QED BY <2>1 DEF XemmTypeOK
<1>3. Remembers /\ Verifies /\ Sampled /\ Streaks /\ TripsOnStreak
  BY DEF Remembers, Verifies, Sampled, Streaks, TripsOnStreak, Running
<1> QED BY <1>2, <1>3 DEF XemmInv

\* What leaves the breaker's own variables alone leaves its three facts.
LEMMA BreakerKept ==
    ASSUME XemmInv, UNCHANGED <<samples, baseline, streak, tripped, looks>>
    PROVE  Sampled' /\ Streaks' /\ TripsOnStreak'
  BY DEF XemmInv, Sampled, Streaks, TripsOnStreak, Breaching, Usable

\* A new process has nothing to remember but the files.
LEMMA ProcessEnds ==
    ASSUME XemmSessionAssumption, NewProcess
    PROVE  Sampled' /\ Streaks' /\ TripsOnStreak'
  BY DEF XemmSessionAssumption, NewProcess, Sampled, Streaks, TripsOnStreak

LEMMA ProcessTypes ==
    ASSUME XemmSessionAssumption, XemmTypeOK, NewProcess,
           stage' = "off", outcome' \in {None, "ok", "err"}, marker' \in BOOLEAN,
           latch' = latch, exposed' = exposed, unread' = unread
    PROVE  XemmTypeOK'
<1>1. /\ samples' \in Seq(Equities) /\ looks' \in Seq(Snapshots) /\ snapshot' \in Snapshots
      /\ baseline' \in Equities \cup {None} /\ streak' \in 0 .. Streak
  BY SnapshotTypes DEF NewProcess, XemmSessionAssumption
<1>2. /\ counted' \in BOOLEAN /\ tripped' \in BOOLEAN /\ cancelled' \in BOOLEAN /\ strategyError' \in BOOLEAN
      /\ workersOk' \in BOOLEAN /\ verified' \in BOOLEAN /\ healthy' \in BOOLEAN
      /\ persisted' \in BOOLEAN /\ lost' \in BOOLEAN /\ writer' \in {"up", "failed", "done"} /\ ~tripped'
  BY DEF NewProcess
<1>3. latch' \in BOOLEAN /\ exposed' \in BOOLEAN /\ unread' \in BOOLEAN
  BY DEF XemmTypeOK
<1> QED BY <1>1, <1>2, <1>3 DEF XemmTypeOK

LEMMA BreakerStep ==
    ASSUME XemmSessionAssumption, XemmInv, CheckBreaker
    PROVE  XemmInv'
<1> USE DEF XemmSessionAssumption
<1>0. /\ XemmTypeOK /\ Remembers /\ Verifies /\ Sampled /\ Streaks /\ ~tripped /\ stage = "live"
      /\ Streak \in Nat \ {0} /\ Samples \in Nat \ {0} /\ streak < Streak /\ streak \in Nat
  BY DEF XemmInv, Streaks, CheckBreaker, XemmTypeOK
<1>1. looks' = Recent(Append(looks, snapshot))
  BY DEF CheckBreaker, New
<1> DEFINE d == Len(looks) + 1 - Len(looks')
<1>2. /\ looks' \in Seq(Snapshots) /\ Len(looks') \in 1 .. Streak /\ d \in {0, 1} /\ (d = 1 => Len(looks') = Streak)
      /\ looks'[Len(looks')] = snapshot
      /\ \A k \in 1 .. Len(looks') - 1 : looks'[k] = looks[k + d]
  <2>1. looks \in Seq(Snapshots) /\ snapshot \in Snapshots /\ Len(looks) <= Streak
    BY <1>0 DEF XemmTypeOK, Streaks
  <2> DEFINE r == Recent(Append(looks, snapshot))
             e == Len(looks) + 1 - Len(r)
  <2>2. /\ r \in Seq(Snapshots) /\ Len(r) \in 1 .. Streak /\ e \in {0, 1} /\ (e = 1 => Len(r) = Streak)
        /\ r[Len(r)] = snapshot
        /\ \A k \in 1 .. Len(r) - 1 : r[k] = looks[k + e]
    BY <2>1, RecentIs
  <2>3. looks' = r
    BY <1>1
  <2> HIDE DEF r
  <2> QED BY <2>2, <2>3
<1>3. UNCHANGED <<stage, outcome, sessions, marker, latch, exposed, snapshot, reads,
                  strategyError, workersOk, verified, writer, healthy, persisted, lost>>
  BY DEF CheckBreaker, files, journal
<1>4. counted' \in BOOLEAN
  BY <1>0 DEF CheckBreaker, XemmTypeOK
<1>5. CASE UNCHANGED <<samples, baseline, tripped, cancelled, unread>> /\ streak' = 0
  <2>1. XemmTypeOK'
    BY <1>0, <1>2, <1>3, <1>4, <1>5 DEF XemmTypeOK
  <2>2. Remembers' /\ Verifies' /\ TripsOnStreak'
    BY <1>0, <1>3, <1>5 DEF Remembers, Verifies, TripsOnStreak, Running, Refused
  <2>3. Sampled' /\ Streaks'
    BY <1>0, <1>2, <1>5 DEF Sampled, Streaks
  <2> QED BY <2>1, <2>2, <2>3 DEF XemmInv
<1>6. CASE New /\ Usable(snapshot) /\ baseline = None /\ Arm /\ UNCHANGED <<streak, tripped, cancelled, unread>>
  <2>1. /\ samples' = Append(samples, snapshot.equity) /\ snapshot.equity \in Equities
        /\ baseline' = IF Len(samples') >= Samples THEN Median(samples') ELSE None
    BY <1>0, <1>6 DEF Arm, Usable, XemmTypeOK, Snapshots
  <2>2. /\ samples' \in Seq(Equities) /\ Len(samples') = Len(samples) + 1 /\ Len(samples) \in Nat
        /\ Len(samples) < Samples /\ streak = 0
    BY <1>0, <1>6, <2>1 DEF XemmTypeOK, Sampled
  <2>3. Len(samples') >= Samples => Median(samples') \in Equities
    BY <2>2, MedianTypes
  <2>4. XemmTypeOK'
    BY <1>0, <1>2, <1>3, <1>4, <1>6, <2>1, <2>2, <2>3 DEF XemmTypeOK
  <2>5. Remembers' /\ Verifies' /\ TripsOnStreak'
    BY <1>0, <1>3, <1>6 DEF Remembers, Verifies, TripsOnStreak, Running, Refused
  <2>6. Sampled'
    BY <1>0, <1>6, <2>1, <2>2, <2>3 DEF Sampled
  <2>7. Streaks'
    BY <1>0, <1>2, <1>6, <2>2 DEF Streaks
  <2> QED BY <2>4, <2>5, <2>6, <2>7 DEF XemmInv
<1>7. CASE /\ New /\ Usable(snapshot) /\ Breach
           /\ streak' = streak + 1 /\ tripped' = (streak' >= Streak)
           /\ cancelled' = (cancelled \/ tripped') /\ unread' = (unread \/ tripped')
           /\ UNCHANGED <<samples, baseline>>
  <2>1. XemmTypeOK'
    BY <1>0, <1>2, <1>3, <1>4, <1>7 DEF XemmTypeOK
  <2>2. Remembers' /\ Verifies'
    BY <1>0, <1>3, <1>7 DEF Remembers, Verifies, Running, Refused
  <2>3. Sampled'
    BY <1>0, <1>7 DEF Sampled, Breach
  <2>4. Breaching(snapshot, baseline')
    BY <1>3, <1>7 DEF Breaching, New, Breach, Usable
  <2>5. ASSUME NEW k \in 1 .. Len(looks'), k > Len(looks') - streak' PROVE Breaching(looks'[k], baseline')
    <3>1. CASE k = Len(looks')
      BY <1>2, <1>3, <2>4, <3>1
    <3>2. CASE k # Len(looks')
      <4>1. looks'[k] = looks[k + d] /\ k + d \in 1 .. Len(looks) /\ k + d > Len(looks) - streak
        BY <1>0, <1>2, <1>7, <2>5, <3>2 DEF XemmTypeOK
      <4>2. Breaching(looks[k + d], baseline)
        BY <1>0, <4>1 DEF Streaks
      <4> QED BY <1>7, <4>1, <4>2 DEF Breaching, Usable
    <3> QED BY <3>1, <3>2
  <2>6. streak' <= Len(looks')
    BY <1>0, <1>2, <1>7 DEF Streaks, XemmTypeOK
  <2>7. tripped' <=> streak' >= Streak
    BY <1>7
  <2>8. Streaks'
    BY <1>0, <1>2, <1>7, <2>5, <2>6, <2>7 DEF Streaks
  <2>9. TripsOnStreak'
    <3> SUFFICES ASSUME tripped' PROVE TripsOnStreak'
      BY DEF TripsOnStreak
    <3>1. streak' = Streak /\ Len(looks') = Streak
      BY <1>0, <1>2, <1>7, <2>6, <2>7
    <3>2. \A k \in 1 .. Streak : Breaching(looks'[k], baseline')
      BY <1>0, <2>5, <3>1
    <3> QED BY <3>1, <3>2 DEF TripsOnStreak, Breaching
  <2> QED BY <2>1, <2>2, <2>3, <2>8, <2>9 DEF XemmInv
<1> QED BY <1>5, <1>6, <1>7 DEF CheckBreaker, Forget

LEMMA InvStep == ASSUME XemmSessionAssumption, XemmInv, [XemmNext]_xemmVars PROVE XemmInv'
<1>0. XemmTypeOK /\ Remembers /\ Verifies /\ Sampled /\ Streaks /\ TripsOnStreak
  BY DEF XemmInv
<1> USE DEF files, account, breaker, shutdown, journal, Running, Refused, Stages
<1>1. CASE Start
  <2>1. UNCHANGED <<samples, baseline, streak, tripped, looks>>
    BY <1>1 DEF Start
  <2>2. XemmTypeOK'
    BY <1>0, <1>1 DEF Start, XemmTypeOK
  <2>3. Remembers' /\ Verifies'
    BY <1>0, <1>1 DEF Start, Remembers, Verifies, XemmTypeOK
  <2> QED BY <2>1, <2>2, <2>3, BreakerKept DEF XemmInv
<1>2. CASE StartFails
  <2>1. UNCHANGED <<samples, baseline, streak, tripped, looks>>
    BY <1>2 DEF StartFails
  <2>2. XemmTypeOK'
    <3>1. UNCHANGED <<stage, latch, exposed, snapshot, counted, samples, baseline,
                      streak, tripped, cancelled, strategyError, workersOk, verified,
                      writer, healthy, persisted, lost, looks, unread>>
      BY <1>2 DEF StartFails
    <3>2. outcome' \in {None, "ok", "err"} /\ marker' \in BOOLEAN
      BY <1>0, <1>2 DEF StartFails, XemmTypeOK
    <3> QED BY <1>0, <3>1, <3>2 DEF XemmTypeOK
  <2>3. Remembers' /\ Verifies'
    BY <1>0, <1>2 DEF StartFails, Remembers, Verifies, XemmTypeOK
  <2> QED BY <2>1, <2>2, <2>3, BreakerKept DEF XemmInv
<1>3. CASE Resolve
  <2>1. UNCHANGED <<samples, baseline, streak, tripped, looks>>
    BY <1>3 DEF Resolve
  <2>2. XemmTypeOK'
    <3>1. UNCHANGED <<stage, outcome, latch, exposed, snapshot, counted, samples,
                      baseline, streak, tripped, cancelled, strategyError, workersOk,
                      verified, writer, healthy, persisted, lost, looks>>
      BY <1>3 DEF Resolve
    <3>2. marker' \in BOOLEAN /\ unread' \in BOOLEAN
      BY <1>0, <1>3 DEF Resolve, XemmTypeOK
    <3> QED BY <1>0, <3>1, <3>2 DEF XemmTypeOK
  <2>3. Remembers' /\ Verifies'
    BY <1>0, <1>3 DEF Resolve, Remembers, Verifies, XemmTypeOK
  <2> QED BY <2>1, <2>2, <2>3, BreakerKept DEF XemmInv
<1>4. CASE ResetBreaker
  <2>1. UNCHANGED <<samples, baseline, streak, tripped, looks>>
    BY <1>4 DEF ResetBreaker
  <2>2. XemmTypeOK'
    <3>1. UNCHANGED <<stage, outcome, marker, exposed, snapshot, counted, samples,
                      baseline, streak, tripped, cancelled, strategyError, workersOk,
                      verified, writer, healthy, persisted, lost, looks>>
      BY <1>4 DEF ResetBreaker
    <3>2. latch' \in BOOLEAN /\ unread' \in BOOLEAN
      BY <1>0, <1>4 DEF ResetBreaker, XemmTypeOK
    <3> QED BY <1>0, <3>1, <3>2 DEF XemmTypeOK
  <2>3. Remembers' /\ Verifies'
    BY <1>0, <1>4 DEF ResetBreaker, Remembers, Verifies, XemmTypeOK
  <2> QED BY <2>1, <2>2, <2>3, BreakerKept DEF XemmInv
<1>5. CASE Trade
  <2>1. UNCHANGED <<samples, baseline, streak, tripped, looks>>
    BY <1>5 DEF Trade
  <2>2. XemmTypeOK'
    BY <1>0, <1>5 DEF Trade, XemmTypeOK
  <2>3. Remembers' /\ Verifies'
    BY <1>0, <1>5 DEF Trade, Remembers, Verifies, XemmTypeOK
  <2> QED BY <2>1, <2>2, <2>3, BreakerKept DEF XemmInv
<1>6. CASE Publish
  <2>1. UNCHANGED <<samples, baseline, streak, tripped, looks>>
    BY <1>6 DEF Publish
  <2>2. XemmTypeOK'
    <3>1. UNCHANGED <<stage, outcome, marker, latch, exposed, samples, baseline,
                      streak, tripped, cancelled, strategyError, workersOk, verified,
                      writer, healthy, persisted, lost, looks, unread>>
      BY <1>6 DEF Publish
    <3>2. snapshot' \in Snapshots /\ counted' \in BOOLEAN
      <4>1. CASE snapshot' = [fresh |-> TRUE, marked |-> FALSE, equity |-> 0]
        BY <1>6, <4>1 DEF Publish, Snapshots
      <4>2. CASE \E q \in Equities : snapshot' = [fresh |-> TRUE, marked |-> TRUE, equity |-> q]
        <5>1. PICK q \in Equities : snapshot' = [fresh |-> TRUE, marked |-> TRUE, equity |-> q]
          BY <4>2
        <5> QED BY <1>6, <5>1 DEF Publish, Snapshots
      <4> QED BY <1>6, <4>1, <4>2 DEF Publish
    <3> QED BY <1>0, <3>1, <3>2 DEF XemmTypeOK
  <2>3. Remembers' /\ Verifies'
    BY <1>0, <1>6 DEF Publish, Remembers, Verifies, XemmTypeOK, Snapshots
  <2> QED BY <2>1, <2>2, <2>3, BreakerKept DEF XemmInv
<1>7. CASE Age
  <2>1. UNCHANGED <<samples, baseline, streak, tripped, looks>>
    BY <1>7 DEF Age
  <2>2. XemmTypeOK'
    BY <1>0, <1>7, SnapshotTypes DEF Age, XemmTypeOK
  <2>3. Remembers' /\ Verifies'
    BY <1>0, <1>7 DEF Age, Remembers, Verifies, XemmTypeOK
  <2> QED BY <2>1, <2>2, <2>3, BreakerKept DEF XemmInv
<1>8. CASE RecordDropped
  <2>1. UNCHANGED <<samples, baseline, streak, tripped, looks>>
    BY <1>8 DEF RecordDropped
  <2>2. XemmTypeOK'
    <3>1. UNCHANGED <<stage, outcome, marker, latch, exposed, snapshot, counted,
                      samples, baseline, streak, tripped, cancelled, strategyError,
                      workersOk, verified, persisted, looks, unread>>
      BY <1>8 DEF RecordDropped
    <3>2. writer' \in {"up", "failed", "done"} /\ healthy' \in BOOLEAN /\ lost' \in BOOLEAN
      BY <1>0, <1>8 DEF RecordDropped, XemmTypeOK
    <3> QED BY <1>0, <3>1, <3>2 DEF XemmTypeOK
  <2>3. Remembers' /\ Verifies'
    BY <1>0, <1>8 DEF RecordDropped, Remembers, Verifies, XemmTypeOK
  <2> QED BY <2>1, <2>2, <2>3, BreakerKept DEF XemmInv
<1>9. CASE PersistTrip
  <2>1. UNCHANGED <<samples, baseline, streak, tripped, looks>>
    BY <1>9 DEF PersistTrip
  <2>2. XemmTypeOK'
    <3>1. UNCHANGED <<stage, outcome, marker, exposed, snapshot, counted, samples,
                      baseline, streak, tripped, cancelled, strategyError, workersOk,
                      verified, lost, looks, unread>>
      BY <1>9 DEF PersistTrip
    <3>2. writer' \in {"up", "failed", "done"} /\ latch' \in BOOLEAN /\ healthy' \in BOOLEAN /\ persisted' \in BOOLEAN
      BY <1>0, <1>9 DEF PersistTrip, XemmTypeOK
    <3> QED BY <1>0, <3>1, <3>2 DEF XemmTypeOK
  <2>3. Remembers' /\ Verifies'
    BY <1>0, <1>9 DEF PersistTrip, Remembers, Verifies, XemmTypeOK
  <2> QED BY <2>1, <2>2, <2>3, BreakerKept DEF XemmInv
<1>10. CASE Drain
  <2>1. UNCHANGED <<samples, baseline, streak, tripped, looks>>
    BY <1>10 DEF Drain
  <2>2. XemmTypeOK'
    <3>1. UNCHANGED <<outcome, marker, latch, exposed, snapshot, counted, samples,
                      baseline, streak, tripped, cancelled, workersOk, verified,
                      writer, healthy, persisted, lost, looks, unread>>
      BY <1>10 DEF Drain
    <3>2. stage' \in {"off"} \cup Stages /\ strategyError' \in BOOLEAN
      BY <1>0, <1>10 DEF Drain, XemmTypeOK
    <3> QED BY <1>0, <3>1, <3>2 DEF XemmTypeOK
  <2>3. Remembers' /\ Verifies'
    BY <1>0, <1>10 DEF Drain, Remembers, Verifies, XemmTypeOK
  <2> QED BY <2>1, <2>2, <2>3, BreakerKept DEF XemmInv
<1>11. CASE StopWorkers
  <2>1. UNCHANGED <<samples, baseline, streak, tripped, looks>>
    BY <1>11 DEF StopWorkers
  <2>2. XemmTypeOK'
    BY <1>0, <1>11 DEF StopWorkers, XemmTypeOK
  <2>3. Remembers' /\ Verifies'
    BY <1>0, <1>11 DEF StopWorkers, Remembers, Verifies, XemmTypeOK
  <2> QED BY <2>1, <2>2, <2>3, BreakerKept DEF XemmInv
<1>12. CASE Verify
  <2>1. UNCHANGED <<samples, baseline, streak, tripped, looks>>
    BY <1>12 DEF Verify
  <2>2. XemmTypeOK'
    <3>1. UNCHANGED <<outcome, marker, latch, snapshot, counted, samples, baseline,
                      streak, tripped, cancelled, strategyError, workersOk, writer,
                      healthy, persisted, lost, looks, unread>>
      BY <1>12 DEF Verify
    <3>2. stage' \in {"off"} \cup Stages /\ exposed' \in BOOLEAN /\ verified' \in BOOLEAN
      BY <1>0, <1>12 DEF Verify, XemmTypeOK
    <3> QED BY <1>0, <3>1, <3>2 DEF XemmTypeOK
  <2>3. Remembers' /\ Verifies'
    BY <1>0, <1>12 DEF Verify, Remembers, Verifies, XemmTypeOK
  <2> QED BY <2>1, <2>2, <2>3, BreakerKept DEF XemmInv
<1>13. CASE DrainJournal
  <2>1. UNCHANGED <<samples, baseline, streak, tripped, looks>>
    BY <1>13 DEF DrainJournal
  <2>2. XemmTypeOK'
    BY <1>0, <1>13 DEF DrainJournal, XemmTypeOK
  <2>3. Remembers' /\ Verifies'
    BY <1>0, <1>13 DEF DrainJournal, Remembers, Verifies, XemmTypeOK
  <2> QED BY <2>1, <2>2, <2>3, BreakerKept DEF XemmInv
<1>14. CASE CheckBreaker
  BY <1>14, BreakerStep
<1>15. CASE QuiesceSession
  <2>1. UNCHANGED <<samples, baseline, tripped, looks>> /\ streak' = 0
    BY <1>15 DEF QuiesceSession
  <2>2. XemmTypeOK'
    BY <1>0, <1>15, SnapshotTypes DEF QuiesceSession, XemmTypeOK, XemmSessionAssumption
  <2>3. Remembers' /\ Verifies'
    BY <1>0, <1>15 DEF QuiesceSession, Remembers, Verifies, XemmTypeOK
  <2>4. Sampled' /\ Streaks' /\ TripsOnStreak'
    BY <1>0, <2>1 DEF Sampled, Streaks, TripsOnStreak, Breaching, Usable, XemmSessionAssumption, XemmTypeOK
  <2> QED BY <2>2, <2>3, <2>4 DEF XemmInv
<1>16. CASE Exit
  <2>1. /\ NewProcess /\ stage' = "off" /\ outcome' \in {None, "ok", "err"}
        /\ unread' = unread /\ latch' = latch /\ exposed' = exposed
    BY <1>16 DEF Exit
  <2>2. marker' \in BOOLEAN
    BY <1>0, <1>16 DEF Exit, XemmTypeOK
  <2>3. XemmTypeOK'
    BY <1>0, <2>1, <2>2, ProcessTypes
  <2>4. marker' \/ latch \/ ~tripped
    <3>1. CASE writer = "done"
      BY <1>0, <1>16, <3>1 DEF Exit, Remembers
    <3>2. CASE writer # "done"
      <4>1. marker' = marker /\ marker
        BY <1>0, <1>16, <3>2 DEF Exit, CleanEnd, JournalOk, Remembers
      <4> QED BY <4>1
    <3> QED BY <3>1, <3>2
  <2>5. unread => tripped
    BY <1>0, <1>16 DEF Exit, Remembers
  <2>6. Remembers'
    BY <2>1, <2>4, <2>5 DEF Remembers
  <2>7. Verifies'
    BY <2>1 DEF NewProcess, Verifies
  <2> QED BY <2>1, <2>3, <2>6, <2>7, ProcessEnds DEF XemmInv
<1>17. CASE Crash
  <2>1. /\ NewProcess /\ stage' = "off" /\ outcome' \in {None, "ok", "err"}
        /\ unread' = unread /\ latch' = latch /\ exposed' = exposed
    BY <1>17 DEF Crash
  <2>2. marker' \in BOOLEAN
    BY <1>0, <1>17 DEF Crash, XemmTypeOK
  <2>3. XemmTypeOK'
    BY <1>0, <2>1, <2>2, ProcessTypes
  <2>4. marker' \/ latch \/ ~tripped
    BY <1>0, <1>17 DEF Crash, CleanEnd, JournalOk, Remembers
  <2>5. unread => tripped
    BY <1>0, <1>17 DEF Crash, Remembers
  <2>6. Remembers'
    BY <2>1, <2>4, <2>5 DEF Remembers
  <2>7. Verifies'
    BY <2>1 DEF NewProcess, Verifies
  <2> QED BY <2>1, <2>3, <2>6, <2>7, ProcessEnds DEF XemmInv
<1>18. CASE UNCHANGED xemmVars
  <2>1. UNCHANGED <<samples, baseline, streak, tripped, looks>>
    BY <1>18 DEF xemmVars
  <2>2. XemmTypeOK' /\ Remembers' /\ Verifies'
    BY <1>0, <1>18 DEF xemmVars, XemmTypeOK, Remembers, Verifies
  <2> QED BY <2>1, <2>2, BreakerKept DEF XemmInv
<1> QED
  BY <1>1, <1>2, <1>3, <1>4, <1>5, <1>6, <1>7, <1>8, <1>9, <1>10, <1>11, <1>12, <1>13, <1>14, <1>15, <1>16, <1>17, <1>18 DEF XemmNext

\* The invariant of a session, its breaker and its files.
THEOREM SessionInvHolds == ASSUME XemmSessionAssumption PROVE XemmSpec => []XemmInv
  BY InvInit, InvStep, PTL DEF XemmSpec

\* A baseline is the median of its samples, and no single one of them decides it (BREAKER_BASELINE_SAMPLES).
LEMMA BaselineIsSound == ASSUME XemmSessionAssumption, XemmInv PROVE BaselineResistsOutlier
<1> SUFFICES ASSUME baseline # None, Samples >= 3, NEW k \in 1 .. Samples
             PROVE  LET others == {samples[j] : j \in (1 .. Samples) \ {k}}
                    IN  \E lo, hi \in others : lo <= baseline /\ baseline <= hi
  BY DEF BaselineResistsOutlier
<1>1. samples \in Seq(Nat) /\ Len(samples) = Samples /\ baseline = Median(samples)
  BY SamplesAreNaturals DEF XemmInv, XemmTypeOK, Sampled
<1>2. /\ \E i \in (1 .. Samples) \ {k} : samples[i] <= baseline
      /\ \E i \in (1 .. Samples) \ {k} : baseline <= samples[i]
  BY <1>1, MedianResists
<1> QED BY <1>2

\* How a session ends (run.rs), and what its breaker leaves (breaker.rs): a trip is remembered by a
\* file until an operator looks at it; the breaker trips on a streak of breaches of a baseline no
\* single sample decides; and the marker goes only from clean venues with a whole journal.
THEOREM EndsCleanHolds == ASSUME XemmSessionAssumption PROVE XemmSpec => EndsClean
<1>1. XemmInv => TripRemembered /\ BreakerIsSound
  BY BaselineIsSound DEF XemmInv, Remembers, TripRemembered, BreakerIsSound, Running
<1>2. XemmInv /\ [XemmNext]_xemmVars =>
        [stage = "journaled" /\ stage' = "off" =>
           /\ ~marker' => ~exposed /\ ~lost /\ ~strategyError
           /\ outcome' = "ok" => ~marker' /\ ~tripped]_xemmVars
  <2> SUFFICES ASSUME XemmInv, XemmNext, stage = "journaled", stage' = "off"
               PROVE  /\ ~marker' => ~exposed /\ ~lost /\ ~strategyError
                      /\ outcome' = "ok" => ~marker' /\ ~tripped
    OBVIOUS
  <2>1. marker /\ (verified => ~exposed) /\ (lost => ~healthy \/ writer = "failed")
    BY DEF XemmInv, Remembers, Verifies, Running
  <2>2. Exit \/ Crash
    BY DEF XemmNext, Start, StartFails, Resolve, ResetBreaker, Trade, Publish, Age, RecordDropped,
        CheckBreaker, PersistTrip, QuiesceSession, Drain, StopWorkers, Verify, DrainJournal
  <2>3. CASE Crash
    BY <2>1, <2>3 DEF Crash, files
  <2>4. CASE Exit
    BY <2>1, <2>4 DEF Exit, CleanEnd, JournalOk
  <2> QED BY <2>2, <2>3, <2>4
<1>3. XemmSpec => [](TripRemembered /\ BreakerIsSound)
  BY <1>1, SessionInvHolds, PTL
<1>4. XemmSpec => CleanEnds
  BY <1>2, SessionInvHolds, PTL DEF XemmSpec, CleanEnds
<1> QED BY <1>3, <1>4 DEF EndsClean
=============================================================================
