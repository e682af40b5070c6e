--------------------------- MODULE HedgeLedgerSafety ---------------------------
(***************************************************************************)
(* Proofs about the hedges of XEMM's fills (livebot/strategy.rs, fills.rs, *)
(* inventory.rs) for every number and size of fills and attempts, least    *)
(* hedge and step.                                                         *)
(***************************************************************************)
EXTENDS HedgeLedger, SumTheorems

-----------------------------------------------------------------------------
(* The pieces                                                              *)

\* One attempt's part of the invariant.
Fits(i) ==
    /\ Lifecycle(i)
    /\ att[i].state \in {"over", "gone"} =>
          wire[i].st # "open" /\ admitted[i] # "queued" /\ att[i].filled = wire[i].filled

LEMMA AttemptsFinite == ASSUME HedgeLedgerAssumption PROVE IsFiniteSet(Attempts)
  BY FS_Interval DEF HedgeLedgerAssumption, Attempts

LEMMA FloorBounds ==
    ASSUME HedgeLedgerAssumption, NEW q \in Nat
    PROVE  Floor(q) \in Nat /\ Floor(q) <= q
  BY DEF HedgeLedgerAssumption, Floor

LEMMA InvParts ==
    LedgerInv <=> /\ LedgerTypeOK /\ \A i \in Attempts : Fits(i)
                  /\ Balanced /\ Reserved /\ Late
  BY DEF LedgerInv, Fits, ClosedOnEvidence

LEMMA InvAgain ==
    ASSUME LedgerTypeOK', \A i \in Attempts : Fits(i)', Balanced', Reserved', Late'
    PROVE  LedgerInv'
  BY DEF LedgerInv, Fits, ClosedOnEvidence

LEMMA UnusedIsNew ==
    ASSUME LedgerInv, NEW i \in Unused
    PROVE  /\ i \in Attempts /\ att[i] = NoAttempt /\ admitted[i] = "none" /\ answer[i] = "none"
           /\ wire[i] = [st |-> "none", filled |-> 0]
  BY InvParts DEF Unused, Fits, Lifecycle

\* An attempt nothing happens to fits as before.
LEMMA FitsKept ==
    ASSUME NEW j \in Attempts, Fits(j), att'[j] = att[j], admitted'[j] = admitted[j],
           answer'[j] = answer[j], wire'[j] = wire[j]
    PROVE  Fits(j)'
  BY DEF Fits, Lifecycle

LEMMA FitsAll ==
    ASSUME LedgerInv, UNCHANGED <<att, admitted, answer, wire>>
    PROVE  \A j \in Attempts : Fits(j)'
  BY InvParts, FitsKept

-----------------------------------------------------------------------------
(* The sums                                                                *)

SumBooked == SumFunctionOnSet(Booked, Attempts)
SumHeld == SumFunctionOnSet(Held, Attempts)

LEMMA LessAsked ==
    ASSUME NEW a \in Int, NEW b \in Int, NEW c \in Int, NEW d \in Int, d <= b, a >= b + c
    PROVE  a >= d + c
  OBVIOUS

LEMMA RecordsKept ==
    ASSUME NEW r \in Records, NEW c \in Nat, NEW st \in {"none", "flight", "unknown", "over", "gone"}
    PROVE  [r EXCEPT !.state = st] \in Records /\ [r EXCEPT !.filled = c, !.state = st] \in Records
  BY DEF Records

LEMMA Products ==
    ASSUME NEW r \in Records
    PROVE  /\ r.dir * r.qty \in Int /\ r.dir * r.filled \in Int
           /\ r.dir = 1 => r.dir * r.qty = r.qty /\ r.dir * r.filled = r.filled
           /\ r.dir = -1 => r.dir * r.qty = -r.qty /\ r.dir * r.filled = -r.filled
  BY DEF Records

LEMMA SumTypes ==
    ASSUME HedgeLedgerAssumption, LedgerTypeOK
    PROVE  /\ \A i \in Attempts : Booked[i] \in Int /\ Held[i] \in Int /\ Held[i] \in Nat
           /\ SumBooked \in Int /\ SumHeld \in Int
<1>1. \A i \in Attempts : Booked[i] \in Int
  BY DEF LedgerTypeOK, Records, Booked
<1>2. \A i \in Attempts : Held[i] \in Nat /\ Held[i] \in Int
  BY DEF LedgerTypeOK, Records, Held
<1> QED BY <1>1, <1>2, SumType, AttemptsFinite DEF SumBooked, SumHeld

\* A step that changes one attempt changes the sums by as much as it changes that one.
LEMMA OneChanges ==
    ASSUME HedgeLedgerAssumption, LedgerTypeOK, LedgerTypeOK', NEW i \in Attempts,
           \A j \in Attempts \ {i} : att'[j] = att[j] /\ answer'[j] = answer[j]
    PROVE  /\ SumBooked' = SumBooked + Booked'[i] - Booked[i]
           /\ SumHeld' = SumHeld + Held'[i] - Held[i]
<1>0. IsFiniteSet(Attempts)
  BY AttemptsFinite
<1>1. \A x \in Attempts : Booked[x] \in Int /\ Held[x] \in Int
  BY SumTypes
<1>2. \A x \in Attempts : Booked'[x] \in Int /\ Held'[x] \in Int
  <2>1. \A x \in Attempts : Booked'[x] \in Int
    <3>1. \A x \in Attempts : att'[x] \in Records
      BY DEF LedgerTypeOK
    <3> QED BY <3>1, Products DEF Booked
  <2>2. \A x \in Attempts : Held'[x] \in Int
    BY DEF LedgerTypeOK, Records, Held
  <2> QED BY <2>1, <2>2
<1>3. \A x \in Attempts : x # i => Booked'[x] = Booked[x]
  BY DEF Booked, Unresolved
<1>4. \A x \in Attempts : x # i => Held'[x] = Held[x]
  BY DEF Held, Unresolved
<1>5. SumFunctionOnSet(Booked', Attempts) = SumFunctionOnSet(Booked, Attempts) + Booked'[i] - Booked[i]
  BY <1>0, <1>1, <1>2, <1>3, SumChange
<1>6. SumFunctionOnSet(Held', Attempts) = SumFunctionOnSet(Held, Attempts) + Held'[i] - Held[i]
  BY <1>0, <1>1, <1>2, <1>4, SumChange
<1> QED BY <1>5, <1>6 DEF SumBooked, SumHeld, Attempts

LEMMA TwoChange ==
    ASSUME HedgeLedgerAssumption, LedgerTypeOK, LedgerTypeOK', NEW i \in Attempts, NEW n \in Attempts, i # n,
           \A j \in Attempts \ {i, n} : att'[j] = att[j] /\ answer'[j] = answer[j]
    PROVE  /\ SumBooked' = SumBooked + Booked'[i] - Booked[i] + Booked'[n] - Booked[n]
           /\ SumHeld' = SumHeld + Held'[i] - Held[i] + Held'[n] - Held[n]
<1>0. IsFiniteSet(Attempts)
  BY AttemptsFinite
<1>1. \A x \in Attempts : Booked[x] \in Int /\ Held[x] \in Int
  BY SumTypes
<1>2. \A x \in Attempts : Booked'[x] \in Int /\ Held'[x] \in Int
  <2>1. \A x \in Attempts : Booked'[x] \in Int
    <3>1. \A x \in Attempts : att'[x] \in Records
      BY DEF LedgerTypeOK
    <3> QED BY <3>1, Products DEF Booked
  <2>2. \A x \in Attempts : Held'[x] \in Int
    BY DEF LedgerTypeOK, Records, Held
  <2> QED BY <2>1, <2>2
<1>3. \A x \in Attempts \ {i, n} : Booked'[x] = Booked[x]
  BY DEF Booked, Unresolved
<1>4. \A x \in Attempts \ {i, n} : Held'[x] = Held[x]
  BY DEF Held, Unresolved
<1>5. SumFunctionOnSet(Booked', Attempts) =
        SumFunctionOnSet(Booked, Attempts) + Booked'[i] - Booked[i] + Booked'[n] - Booked[n]
  <2>1. \A x \in Attempts : Booked[x] \in Int /\ Booked'[x] \in Int
    BY <1>1, <1>2
  <2> QED BY <1>0, <1>3, <2>1, SumChangeTwo
<1>6. SumFunctionOnSet(Held', Attempts) =
        SumFunctionOnSet(Held, Attempts) + Held'[i] - Held[i] + Held'[n] - Held[n]
  <2>1. \A x \in Attempts : Held[x] \in Int /\ Held'[x] \in Int
    BY <1>1, <1>2
  <2> QED BY <1>0, <1>4, <2>1, SumChangeTwo
<1> QED BY <1>5, <1>6 DEF SumBooked, SumHeld, Attempts

LEMMA NoneChanges ==
    ASSUME UNCHANGED <<att, answer>>
    PROVE  SumBooked' = SumBooked /\ SumHeld' = SumHeld /\ UnderCorrection' = UnderCorrection
<1>1. Booked' = Booked /\ Held' = Held
  BY DEF Booked, Held, Unresolved
<1> QED BY <1>1 DEF SumBooked, SumHeld, UnderCorrection, Unresolved, Completed, Attempts

LEMMA CorrectionOf ==
    ASSUME LedgerTypeOK
    PROVE  UnderCorrection <=> \E j \in Attempts : KnownAttempt(j) /\ att[j].purpose = "Reduce"
  BY DEF LedgerTypeOK, Records, UnderCorrection, KnownAttempt, Unresolved, Completed

\* The two predicted positions add up to the fills and every hedge of them.
LEMMA NetIs ==
    ASSUME HedgeLedgerAssumption, LedgerTypeOK
    PROVE  /\ Net = applied + SumFunctionOnSet(SignedFills, Attempts)
           /\ Net \in Int /\ Aster \in Int /\ Lighter \in Int
           /\ \A j \in Attempts : SignedFills[j] \in Int
<1>0. \A j \in Attempts : SignedFills[j] \in Int
  BY Products DEF LedgerTypeOK, SignedFills
<1> DEFINE A == {i \in Attempts : att[i].venue = "Aster"}
           L == {i \in Attempts : att[i].venue = "Lighter"}
<1>1. A \in SUBSET Attempts /\ L = Attempts \ A
  BY DEF LedgerTypeOK, Records
<1>2. IsFiniteSet(Attempts) /\ IsFiniteSet(A) /\ IsFiniteSet(L)
  BY <1>1, AttemptsFinite, FS_Subset
<1>3. SumFunctionOnSet(SignedFills, A) \in Int /\ SumFunctionOnSet(SignedFills, L) \in Int
  BY <1>0, <1>2, SumType
<1>4. SumFunctionOnSet(SignedFills, Attempts) =
        SumFunctionOnSet(SignedFills, A) + SumFunctionOnSet(SignedFills, L)
  BY <1>0, <1>1, <1>2, SumSplit
<1>5. Aster = applied + SumFunctionOnSet(SignedFills, A) /\ Lighter = SumFunctionOnSet(SignedFills, L)
  BY DEF Aster, Lighter
<1> HIDE DEF A, L
<1>6. applied \in Nat
  BY DEF LedgerTypeOK
<1> QED BY <1>0, <1>3, <1>4, <1>5, <1>6 DEF Net

\* A step that leaves the fills and the inventory alone and asks for no more than was held.
LEMMA Keeps ==
    ASSUME HedgeLedgerAssumption, LedgerInv, LedgerTypeOK', \A j \in Attempts : Fits(j)', Late',
           UNCHANGED <<applied, inventory, raced>>, due => due',
           due' \/ SumBooked' = SumBooked, SumHeld' \in Int, SumHeld' <= SumHeld,
           (\A j \in Attempts : att[j].dir = -1) => \A j \in Attempts : att'[j].dir = -1,
           UnderCorrection' <=> UnderCorrection
    PROVE  LedgerInv'
<1>0. LedgerTypeOK /\ Balanced /\ Reserved
  BY InvParts
<1>1. Balanced'
  BY <1>0 DEF Balanced, SumBooked
<1>2. Reserved'
  <2>1. CASE raced
    BY <2>1 DEF Reserved
  <2>2. CASE ~raced
    <3>1. inventory >= 0 /\ applied >= SumHeld /\ \A j \in Attempts : att[j].dir = -1
      BY <1>0, <2>2 DEF Reserved, SumHeld
    <3>2. UnderCorrection \/ applied >= SumHeld + inventory
      BY <1>0, <2>2 DEF Reserved, SumHeld
    <3>3. SumHeld \in Int /\ applied \in Int /\ inventory \in Int
      BY <1>0, SumTypes DEF LedgerTypeOK
    <3>4. applied' = applied /\ inventory' = inventory
      OBVIOUS
    <3>5. applied' >= SumHeld'
      BY <3>1, <3>3, <3>4
    <3>6. ASSUME applied >= SumHeld + inventory PROVE applied' >= SumHeld' + inventory'
      <4>1. applied >= SumHeld' + inventory
        BY <3>3, <3>6, LessAsked, Zenon
      <4> QED BY <3>4, <4>1
    <3>7. UnderCorrection' \/ applied' >= SumHeld' + inventory'
      BY <3>2, <3>6, Zenon
    <3> QED BY <3>1, <3>4, <3>5, <3>7 DEF Reserved, SumHeld
  <2> QED BY <2>1, <2>2
<1> QED BY <1>1, <1>2, InvAgain

\* Such a step about one attempt.
LEMMA OneStep ==
    ASSUME HedgeLedgerAssumption, LedgerInv, LedgerTypeOK', NEW i \in Attempts,
           \A j \in Attempts \ {i} : /\ att'[j] = att[j] /\ admitted'[j] = admitted[j]
                                     /\ answer'[j] = answer[j] /\ wire'[j] = wire[j],
           Fits(i)', UNCHANGED <<applied, inventory, raced>>, due => due',
           due' \/ Booked'[i] = Booked[i], Held'[i] <= Held[i],
           att'[i].dir = att[i].dir, att'[i].purpose = att[i].purpose,
           KnownAttempt(i)' <=> KnownAttempt(i),
           att'[i].state = "over" /\ answer'[i] # "said" => due'
    PROVE  LedgerInv'
<1>0. /\ LedgerTypeOK /\ Late /\ \A j \in Attempts : Fits(j)
  BY InvParts
<1>1. /\ SumBooked' = SumBooked + Booked'[i] - Booked[i]
      /\ SumHeld' = SumHeld + Held'[i] - Held[i]
  BY <1>0, OneChanges
<1>2. /\ SumBooked \in Int /\ SumHeld \in Int /\ Booked[i] \in Int /\ Held[i] \in Int
      /\ Held'[i] \in Int
  BY <1>0, SumTypes DEF LedgerTypeOK, Records, Held
<1>3. \A j \in Attempts : Fits(j)'
  BY <1>0, FitsKept
<1>4. due' \/ SumBooked' = SumBooked
  BY <1>1, <1>2
<1>5. SumHeld' <= SumHeld /\ SumHeld' \in Int
  BY <1>1, <1>2
<1>6. UnderCorrection' <=> UnderCorrection
  <2>1. UnderCorrection <=> \E j \in Attempts : KnownAttempt(j) /\ att[j].purpose = "Reduce"
    BY <1>0, CorrectionOf
  <2>2. UnderCorrection' <=> \E j \in Attempts : KnownAttempt(j)' /\ att'[j].purpose = "Reduce"
    BY DEF LedgerTypeOK, Records, UnderCorrection, KnownAttempt, Unresolved, Completed
  <2>3. \A j \in Attempts : KnownAttempt(j)' <=> KnownAttempt(j)
    BY DEF KnownAttempt
  <2> QED BY <2>1, <2>2, <2>3
<1>7. Late'
  BY <1>0 DEF Late
<1>8. (\A j \in Attempts : att[j].dir = -1) => \A j \in Attempts : att'[j].dir = -1
  OBVIOUS
<1> QED BY <1>3, <1>4, <1>5, <1>6, <1>7, <1>8, Keeps

-----------------------------------------------------------------------------
(* The steps about one attempt                                             *)

LEMMA RefuseStep ==
    ASSUME HedgeLedgerAssumption, LedgerInv, NEW i \in Attempts, Refuse(i)
    PROVE  LedgerInv'
<1>0. LedgerTypeOK /\ Fits(i) /\ Late
  BY InvParts
<1>1. LedgerTypeOK'
  BY <1>0 DEF LedgerTypeOK, Refuse
<1>2. \A j \in Attempts \ {i} : /\ att'[j] = att[j] /\ admitted'[j] = admitted[j]
                                /\ answer'[j] = answer[j] /\ wire'[j] = wire[j]
  BY <1>0 DEF LedgerTypeOK, Refuse
<1>3. /\ admitted'[i] = "cancelled" /\ answer'[i] = "notSent" /\ att' = att /\ wire' = wire
      /\ admitted[i] \in {"queued", "cancelled"} /\ answer[i] = "none"
  BY <1>0 DEF LedgerTypeOK, Refuse
<1>4. Fits(i)'
  BY <1>0, <1>3 DEF Fits, Lifecycle
<1>5. Booked'[i] = Booked[i] /\ Held'[i] = Held[i] /\ Held[i] \in Int
  BY <1>0, <1>3, SumTypes DEF Booked, Held, Unresolved
<1>6. KnownAttempt(i)' <=> KnownAttempt(i)
  BY <1>3 DEF KnownAttempt
<1>7. att'[i].state = "over" => due'
  BY <1>0, <1>3 DEF Late, Refuse
<1> QED BY <1>1, <1>2, <1>3, <1>4, <1>5, <1>6, <1>7, OneStep DEF Refuse

LEMMA ExecuteStep ==
    ASSUME HedgeLedgerAssumption, LedgerInv, NEW i \in Attempts, Execute(i)
    PROVE  LedgerInv'
<1>0. LedgerTypeOK /\ Fits(i) /\ Late
  BY InvParts
<1>1. LedgerTypeOK'
  BY <1>0 DEF LedgerTypeOK, Execute
<1>2. \A j \in Attempts \ {i} : /\ att'[j] = att[j] /\ admitted'[j] = admitted[j]
                                /\ answer'[j] = answer[j] /\ wire'[j] = wire[j]
  BY <1>0 DEF LedgerTypeOK, Execute
<1>3. /\ admitted[i] = "queued" /\ admitted'[i] = "claimed" /\ att' = att
      /\ \/ answer'[i] \in {"notSent", "reject", "noMatch"} /\ wire'[i].st = "over"
         \/ answer'[i] = "watch" /\ wire'[i].st \in {"open", "over"}
      /\ wire'[i].filled = wire[i].filled
  BY <1>0 DEF LedgerTypeOK, Execute
<1>4. att[i].state = "flight" /\ wire[i] = [st |-> "none", filled |-> 0]
  BY <1>0, <1>3 DEF Fits, Lifecycle
<1>5. Fits(i)'
  BY <1>0, <1>3, <1>4 DEF Fits, Lifecycle
<1>6. Booked'[i] = Booked[i] /\ Held'[i] = Held[i] /\ Held[i] \in Int
  BY <1>0, <1>3, <1>4, SumTypes DEF Booked, Held, Unresolved
<1>7. KnownAttempt(i)' <=> KnownAttempt(i)
  BY <1>3 DEF KnownAttempt
<1> QED BY <1>1, <1>2, <1>3, <1>4, <1>5, <1>6, <1>7, OneStep DEF Execute

LEMMA FillsStep ==
    ASSUME HedgeLedgerAssumption, LedgerInv, NEW i \in Attempts, Fills(i)
    PROVE  LedgerInv'
<1>0. LedgerTypeOK /\ Fits(i) /\ Late
  BY InvParts
<1>1. PICK f \in 0 .. att[i].qty : wire' = [wire EXCEPT ![i] = [st |-> "over", filled |-> f]]
  BY DEF Fills
<1>2. f \in Nat /\ f <= att[i].qty
  BY <1>0 DEF LedgerTypeOK, Records
<1>3. LedgerTypeOK'
  BY <1>0, <1>1, <1>2 DEF LedgerTypeOK, Fills
<1>4. \A j \in Attempts \ {i} : /\ att'[j] = att[j] /\ admitted'[j] = admitted[j]
                                /\ answer'[j] = answer[j] /\ wire'[j] = wire[j]
  BY <1>0, <1>1 DEF LedgerTypeOK, Fills
<1>5. /\ wire'[i] = [st |-> "over", filled |-> f] /\ wire[i].st = "open"
      /\ att' = att /\ admitted' = admitted /\ answer' = answer
  BY <1>0, <1>1 DEF LedgerTypeOK, Fills
<1>6. Fits(i)'
  <2>1. wire[i].filled = 0 /\ att[i].filled = 0 /\ admitted[i] = "claimed"
    BY <1>0, <1>5 DEF Fits, Lifecycle, LedgerTypeOK, Records
  <2> QED BY <1>0, <1>2, <1>5, <2>1 DEF Fits, Lifecycle
<1>7. Booked'[i] = Booked[i] /\ Held'[i] = Held[i] /\ Held[i] \in Int
  BY <1>0, <1>5, SumTypes DEF Booked, Held, Unresolved
<1>8. KnownAttempt(i)' <=> KnownAttempt(i)
  BY <1>5 DEF KnownAttempt
<1>9. att'[i].state = "over" /\ answer'[i] # "said" => due'
  BY <1>0, <1>5 DEF Late, Fills
<1> QED BY <1>3, <1>4, <1>5, <1>6, <1>7, <1>8, <1>9, OneStep DEF Fills

LEMMA UnknownStep ==
    ASSUME HedgeLedgerAssumption, LedgerInv, NEW i \in Attempts, Unknown(i)
    PROVE  LedgerInv'
<1>0. LedgerTypeOK /\ Fits(i)
  BY InvParts
<1>1. LedgerTypeOK'
  <2>1. att' \in [Attempts -> Records]
    BY <1>0, RecordsKept DEF LedgerTypeOK, Unknown
  <2> QED BY <1>0, <2>1 DEF LedgerTypeOK, Unknown
<1>2. \A j \in Attempts \ {i} : /\ att'[j] = att[j] /\ admitted'[j] = admitted[j]
                                /\ answer'[j] = answer[j] /\ wire'[j] = wire[j]
  BY <1>0 DEF LedgerTypeOK, Unknown
<1>3. /\ att'[i] = [att[i] EXCEPT !.state = "unknown"] /\ att[i].state = "flight" /\ answer[i] = "watch"
      /\ admitted' = admitted /\ answer' = answer /\ wire' = wire
  BY <1>0 DEF LedgerTypeOK, Unknown
<1>4. att[i] \in Records
  BY <1>0 DEF LedgerTypeOK
<1>5. /\ att'[i].state = "unknown" /\ att'[i].dir = att[i].dir /\ att'[i].qty = att[i].qty
      /\ att'[i].filled = att[i].filled /\ att'[i].purpose = att[i].purpose
  BY <1>3, <1>4 DEF Records
<1>6. Fits(i)'
  BY <1>0, <1>3, <1>5 DEF Fits, Lifecycle
<1>7. Booked'[i] = Booked[i] /\ Held'[i] = Held[i] /\ Held[i] \in Int
  BY <1>0, <1>3, <1>5, SumTypes DEF Booked, Held, Unresolved
<1>8. KnownAttempt(i)' <=> KnownAttempt(i)
  BY <1>3, <1>5 DEF KnownAttempt
<1> QED BY <1>1, <1>2, <1>3, <1>5, <1>6, <1>7, <1>8, OneStep DEF Unknown

LEMMA TimeoutStep ==
    ASSUME HedgeLedgerAssumption, LedgerInv, NEW i \in Attempts, Timeout(i)
    PROVE  LedgerInv'
<1>0. LedgerTypeOK /\ Fits(i)
  BY InvParts
<1>1. att[i] \in Records
  BY <1>0 DEF LedgerTypeOK
<1>2. \A j \in Attempts \ {i} : /\ att'[j] = att[j] /\ admitted'[j] = admitted[j]
                                /\ answer'[j] = answer[j] /\ wire'[j] = wire[j]
  BY <1>0 DEF LedgerTypeOK, Timeout
<1>3. /\ att[i].state = "flight" /\ answer' = answer /\ wire' = wire /\ answer[i] # "said"
      /\ UNCHANGED <<coverage, applied, inventory, raced>>
  BY <1>0 DEF Timeout, Fits, Lifecycle
<1>4. CASE admitted[i] \in {"queued", "cancelled"}
  <2>1. LedgerTypeOK'
    <3>1. att' = [att EXCEPT ![i].state = "over"]
      BY <1>4 DEF Timeout
    <3>2. att' \in [Attempts -> Records]
      BY <1>0, <3>1, RecordsKept DEF LedgerTypeOK
    <3> QED BY <1>0, <1>4, <3>2 DEF LedgerTypeOK, Timeout
  <2>2. admitted'[i] = "cancelled" /\ att'[i] = [att[i] EXCEPT !.state = "over"] /\ due'
    BY <1>0, <1>4 DEF LedgerTypeOK, Timeout
  <2>3. /\ att'[i].state = "over" /\ att'[i].dir = att[i].dir /\ att'[i].qty = att[i].qty
        /\ att'[i].filled = att[i].filled /\ att'[i].purpose = att[i].purpose
    BY <1>1, <2>2 DEF Records
  <2>4. /\ wire[i] = [st |-> "none", filled |-> 0] /\ answer[i] \in {"none", "notSent"} /\ att[i].filled = 0
        /\ att[i].qty >= 0
    BY <1>0, <1>1, <1>3, <1>4 DEF Fits, Lifecycle, Records
  <2>5. Fits(i)'
    BY <1>0, <1>3, <2>2, <2>3, <2>4 DEF Fits, Lifecycle
  <2>6. Held'[i] = Held[i] /\ Held[i] \in Int
    BY <1>0, <1>3, <2>3, SumTypes DEF Held, Unresolved
  <2>7. KnownAttempt(i)' <=> KnownAttempt(i)
    BY <1>3, <2>3 DEF KnownAttempt
  <2>8. (due => due') /\ (due' \/ Booked'[i] = Booked[i]) /\ Held'[i] <= Held[i]
    BY <2>2, <2>6
  <2> QED BY <1>2, <1>3, <2>1, <2>2, <2>3, <2>5, <2>7, <2>8, OneStep
<1>5. CASE admitted[i] \notin {"queued", "cancelled"}
  <2>1. LedgerTypeOK'
    <3>1. att' = [att EXCEPT ![i].state = "unknown"]
      BY <1>5 DEF Timeout
    <3>2. att' \in [Attempts -> Records]
      BY <1>0, <3>1, RecordsKept DEF LedgerTypeOK
    <3> QED BY <1>0, <1>5, <3>2 DEF LedgerTypeOK, Timeout
  <2>2. admitted' = admitted /\ att'[i] = [att[i] EXCEPT !.state = "unknown"] /\ due' = due
    BY <1>0, <1>5 DEF LedgerTypeOK, Timeout
  <2>3. /\ att'[i].state = "unknown" /\ att'[i].dir = att[i].dir /\ att'[i].qty = att[i].qty
        /\ att'[i].filled = att[i].filled /\ att'[i].purpose = att[i].purpose
    BY <1>1, <2>2 DEF Records
  <2>4. Fits(i)'
    BY <1>0, <1>3, <1>5, <2>2, <2>3 DEF Fits, Lifecycle
  <2>5. Booked'[i] = Booked[i] /\ Held'[i] = Held[i] /\ Held[i] \in Int
    BY <1>0, <1>3, <2>3, SumTypes DEF Booked, Held, Unresolved
  <2>6. KnownAttempt(i)' <=> KnownAttempt(i)
    BY <1>3, <2>3 DEF KnownAttempt
  <2>7. (due => due') /\ (due' \/ Booked'[i] = Booked[i]) /\ Held'[i] <= Held[i]
    BY <2>2, <2>5
  <2> QED BY <1>2, <1>3, <2>1, <2>3, <2>4, <2>6, <2>7, OneStep
<1> QED BY <1>4, <1>5

LEMMA ProgressStep ==
    ASSUME HedgeLedgerAssumption, LedgerInv, NEW i \in Attempts, Progress(i)
    PROVE  LedgerInv'
<1>0. LedgerTypeOK /\ Fits(i)
  BY InvParts
<1>1. /\ att[i] \in Records /\ att[i].state \in {"flight", "unknown"} /\ answer[i] = "watch"
      /\ UNCHANGED <<coverage, applied, inventory, raced, admitted, wire>>
  BY <1>0 DEF LedgerTypeOK, Progress, Fits, Lifecycle
<1>2. /\ admitted[i] = "claimed" /\ wire[i].filled \in Nat /\ wire[i].filled <= att[i].qty
      /\ att[i].filled <= wire[i].filled
      /\ att[i].qty \in Nat /\ att[i].filled \in Nat /\ att[i].dir \in {-1, 1}
  BY <1>0, <1>1 DEF LedgerTypeOK, Fits, Lifecycle, Records
<1>3. ASSUME NEW c \in att[i].filled + 1 .. wire[i].filled,
             att' = [att EXCEPT ![i].filled = c,
                                ![i].state = IF c = att[i].qty THEN "unknown" ELSE "flight"],
             UNCHANGED <<due, answer>>
      PROVE  LedgerInv'
  <2>0. c \in Nat /\ c <= wire[i].filled
    BY <1>2
  <2> DEFINE st == IF c = att[i].qty THEN "unknown" ELSE "flight"
  <2>1. st \in {"flight", "unknown"}
    OBVIOUS
  <2>2. att' = [att EXCEPT ![i] = [att[i] EXCEPT !.filled = c, !.state = st]]
    BY <1>0, <1>3 DEF LedgerTypeOK, Records
  <2> HIDE DEF st
  <2>3. att' \in [Attempts -> Records]
    BY <1>0, <1>1, <2>0, <2>1, <2>2, RecordsKept DEF LedgerTypeOK
  <2>4. LedgerTypeOK'
    BY <1>0, <1>1, <1>3, <2>3 DEF LedgerTypeOK, Progress
  <2>5. /\ att'[i].state = st /\ att'[i].dir = att[i].dir /\ att'[i].qty = att[i].qty
        /\ att'[i].filled = c /\ att'[i].purpose = att[i].purpose
    BY <1>0, <1>1, <2>2 DEF LedgerTypeOK, Records
  <2>6. \A j \in Attempts \ {i} : /\ att'[j] = att[j] /\ admitted'[j] = admitted[j]
                                  /\ answer'[j] = answer[j] /\ wire'[j] = wire[j]
    BY <1>0, <1>1, <1>3, <2>2 DEF LedgerTypeOK
  <2>7. Fits(i)'
    BY <1>0, <1>1, <1>2, <1>3, <2>0, <2>1, <2>5 DEF Fits, Lifecycle
  <2>8. Booked'[i] = Booked[i] /\ Held'[i] = Held[i] /\ Held[i] \in Int
    BY <1>0, <1>1, <2>1, <2>5, SumTypes DEF Booked, Held, Unresolved
  <2>9. (KnownAttempt(i)' <=> KnownAttempt(i)) /\ att'[i].state # "over"
    BY <1>1, <2>1, <2>5 DEF KnownAttempt
  <2>10. (due => due') /\ (due' \/ Booked'[i] = Booked[i]) /\ Held'[i] <= Held[i]
    BY <1>3, <2>8
  <2> QED BY <1>1, <2>4, <2>5, <2>6, <2>7, <2>9, <2>10, OneStep
<1>4. ASSUME wire[i].st = "over",
             att' = [att EXCEPT ![i].filled = wire[i].filled, ![i].state = "over"],
             due' = (due \/ wire[i].filled < att[i].qty),
             answer' = [answer EXCEPT ![i] = "said"]
      PROVE  LedgerInv'
  <2>1. att' = [att EXCEPT ![i] = [att[i] EXCEPT !.filled = wire[i].filled, !.state = "over"]]
    BY <1>0, <1>4 DEF LedgerTypeOK, Records
  <2>2. att' \in [Attempts -> Records]
    BY <1>0, <1>1, <1>2, <2>1, RecordsKept DEF LedgerTypeOK
  <2>3. LedgerTypeOK'
    BY <1>0, <1>1, <1>4, <2>2 DEF LedgerTypeOK, Progress
  <2>4. /\ att'[i].state = "over" /\ att'[i].dir = att[i].dir /\ att'[i].qty = att[i].qty
        /\ att'[i].filled = wire[i].filled /\ att'[i].purpose = att[i].purpose /\ answer'[i] = "said"
    BY <1>0, <1>1, <1>4, <2>1 DEF LedgerTypeOK, Records
  <2>5. \A j \in Attempts \ {i} : /\ att'[j] = att[j] /\ admitted'[j] = admitted[j]
                                  /\ answer'[j] = answer[j] /\ wire'[j] = wire[j]
    BY <1>0, <1>1, <1>4, <2>1 DEF LedgerTypeOK
  <2>6. Fits(i)'
    BY <1>0, <1>1, <1>2, <1>4, <2>4 DEF Fits, Lifecycle
  <2>7. /\ Booked[i] = att[i].dir * att[i].qty /\ Booked'[i] = att[i].dir * wire[i].filled
        /\ Held[i] = att[i].qty /\ Held'[i] = wire[i].filled
    BY <1>1, <2>4 DEF Booked, Held, Unresolved
  <2>8. (due => due') /\ (due' \/ Booked'[i] = Booked[i]) /\ Held'[i] <= Held[i]
    <3>1. due' \/ wire[i].filled = att[i].qty
      <4>1. wire[i].filled < att[i].qty \/ wire[i].filled = att[i].qty
        BY <1>2
      <4> QED BY <1>4, <4>1, Zenon
    <3> QED BY <1>2, <1>4, <2>7, <3>1
  <2>9. KnownAttempt(i)' <=> KnownAttempt(i)
    BY <1>1, <2>4 DEF KnownAttempt
  <2> QED BY <1>1, <2>3, <2>4, <2>5, <2>6, <2>8, <2>9, OneStep
<1> QED BY <1>3, <1>4 DEF Progress

LEMMA RejectedStep ==
    ASSUME HedgeLedgerAssumption, LedgerInv, NEW i \in Attempts, Rejected(i)
    PROVE  LedgerInv'
<1>0. LedgerTypeOK /\ Late /\ \A j \in Attempts : Fits(j)
  BY InvParts
<1>1. /\ att[i] \in Records /\ KnownAttempt(i) /\ answer[i] \in {"notSent", "reject", "noMatch"}
      /\ answer'[i] = "said" /\ answer' = [answer EXCEPT ![i] = "said"]
      /\ UNCHANGED <<coverage, applied, inventory, tries, raced, wire, cum>>
  BY <1>0 DEF LedgerTypeOK, Rejected
<1>2. /\ wire[i].st # "open" /\ wire[i].filled = 0 /\ att[i].filled = 0
      /\ admitted[i] \notin {"queued", "none"} /\ att[i].qty \in Nat /\ att[i].dir \in {-1, 1}
  BY <1>0, <1>1 DEF Fits, Lifecycle, KnownAttempt, Records
<1> DEFINE after == [att EXCEPT ![i].state = "over"]
<1>3. /\ after \in [Attempts -> Records]
      /\ after[i].state = "over" /\ after[i].dir = att[i].dir /\ after[i].qty = att[i].qty
      /\ after[i].filled = 0 /\ after[i].purpose = att[i].purpose
      /\ \A j \in Attempts \ {i} : after[j] = att[j]
  <2>1. [att[i] EXCEPT !.state = "over"] \in Records
    BY <1>1, RecordsKept
  <2>2. after \in [Attempts -> Records]
    BY <1>0, <2>1 DEF LedgerTypeOK
  <2>3. after[i] = [att[i] EXCEPT !.state = "over"] /\ \A j \in Attempts \ {i} : after[j] = att[j]
    BY <1>0 DEF LedgerTypeOK
  <2> HIDE DEF after
  <2> QED BY <1>1, <1>2, <2>2, <2>3 DEF Records
<1>4. after = [att EXCEPT ![i].state = "over"]
  OBVIOUS
<1> HIDE DEF after
<1>5. ASSUME att' = after, due' = TRUE, UNCHANGED admitted
      PROVE  LedgerInv'
  <2>1. LedgerTypeOK'
    BY <1>0, <1>1, <1>3, <1>5 DEF LedgerTypeOK
  <2>2. \A j \in Attempts \ {i} : /\ att'[j] = att[j] /\ admitted'[j] = admitted[j]
                                  /\ answer'[j] = answer[j] /\ wire'[j] = wire[j]
    BY <1>0, <1>1, <1>3, <1>5 DEF LedgerTypeOK
  <2>3. Fits(i)'
    BY <1>0, <1>1, <1>2, <1>3, <1>5 DEF Fits, Lifecycle
  <2>4. Held'[i] = 0 /\ Held[i] \in Nat
    BY <1>0, <1>1, <1>3, <1>5, SumTypes DEF Held, Unresolved
  <2>5. KnownAttempt(i)' <=> KnownAttempt(i)
    BY <1>1, <1>3, <1>5 DEF KnownAttempt
  <2>6. (due => due') /\ (due' \/ Booked'[i] = Booked[i]) /\ Held'[i] <= Held[i]
    BY <1>5, <2>4
  <2>7. att'[i].dir = att[i].dir /\ att'[i].purpose = att[i].purpose
    BY <1>3, <1>5
  <2> QED BY <1>1, <1>5, <2>1, <2>2, <2>3, <2>5, <2>6, <2>7, OneStep
<1>6. ASSUME Retryable(i), NEW n \in Unused,
             att' = [after EXCEPT ![n] = Attempt("Hedge", "Lighter", att[i].dir, att[i].qty, att[i].sends + 1)],
             admitted' = [admitted EXCEPT ![n] = "queued"], UNCHANGED due
      PROVE  LedgerInv'
  <2>1. /\ n \in Attempts /\ att[n] = NoAttempt /\ admitted[n] = "none" /\ answer[n] = "none"
        /\ wire[n] = [st |-> "none", filled |-> 0]
    BY UnusedIsNew
  <2>2. n # i
    BY <1>1, <2>1
  <2> DEFINE new == Attempt("Hedge", "Lighter", att[i].dir, att[i].qty, att[i].sends + 1)
  <2>3. new \in Records /\ new.state = "flight" /\ new.filled = 0 /\ new.qty = att[i].qty
        /\ new.dir = att[i].dir /\ new.purpose = "Hedge"
    BY <1>1, <1>2 DEF Attempt, Records
  <2>4. att' = [after EXCEPT ![n] = new]
    BY <1>6
  <2> HIDE DEF new
  <2>5. /\ att' \in [Attempts -> Records] /\ att'[n] = new /\ att'[i] = after[i]
        /\ \A j \in Attempts \ {i, n} : att'[j] = att[j]
    BY <1>3, <2>1, <2>2, <2>3, <2>4
  <2>6. LedgerTypeOK'
    BY <1>0, <1>1, <1>6, <2>1, <2>5 DEF LedgerTypeOK
  <2>7. /\ admitted'[n] = "queued" /\ answer'[n] = "none" /\ wire'[n] = wire[n]
        /\ admitted'[i] = admitted[i] /\ wire'[i] = wire[i]
        /\ \A j \in Attempts \ {i, n} : admitted'[j] = admitted[j] /\ answer'[j] = answer[j] /\ wire'[j] = wire[j]
    BY <1>0, <1>1, <1>6, <2>1, <2>2 DEF LedgerTypeOK
  <2>8. \A j \in Attempts : Fits(j)'
    <3>1. Fits(i)'
      BY <1>0, <1>1, <1>2, <1>3, <2>5, <2>7 DEF Fits, Lifecycle
    <3>2. Fits(n)'
      BY <1>2, <2>1, <2>3, <2>5, <2>7 DEF Fits, Lifecycle
    <3>3. ASSUME NEW j \in Attempts \ {i, n} PROVE Fits(j)'
      BY <1>0, <2>5, <2>7, FitsKept
    <3> QED BY <3>1, <3>2, <3>3
  <2>9. /\ SumBooked' = SumBooked + Booked'[i] - Booked[i] + Booked'[n] - Booked[n]
        /\ SumHeld' = SumHeld + Held'[i] - Held[i] + Held'[n] - Held[n]
    BY <1>0, <2>1, <2>2, <2>5, <2>6, <2>7, TwoChange
  <2>10. /\ Booked'[i] = att[i].dir * 0 /\ Booked'[n] = att[i].dir * att[i].qty
         /\ Booked[n] = NoAttempt.dir * 0
    BY <1>3, <2>1, <2>3, <2>5 DEF Booked, Unresolved, NoAttempt
  <2>11. due \/ Booked[i] = att[i].dir * att[i].qty
    BY <1>0, <1>1 DEF Booked, Unresolved, KnownAttempt, Late
  <2>12. Held'[i] = 0 /\ Held'[n] = att[i].qty /\ Held[i] = att[i].qty /\ Held[n] = 0
    BY <1>1, <1>3, <2>1, <2>3, <2>5 DEF Held, Unresolved, NoAttempt, KnownAttempt
  <2>13. SumBooked \in Int /\ SumHeld \in Int
    BY <1>0, SumTypes
  <2>14. due' \/ SumBooked' = SumBooked
    <3>1. att[i].dir * 0 = 0 /\ NoAttempt.dir * 0 = 0 /\ att[i].dir * att[i].qty \in Int
      BY <1>1, <1>2, Products DEF NoAttempt
    <3>2. Booked[i] = att[i].dir * att[i].qty => SumBooked' = SumBooked
      BY <2>9, <2>10, <2>13, <3>1
    <3> QED BY <1>6, <2>11, <3>2
  <2>15. SumHeld' = SumHeld
    BY <1>2, <2>9, <2>12, <2>13
  <2>16. Late'
    BY <1>0, <1>1, <1>3, <1>6, <2>1, <2>3, <2>5, <2>7 DEF Late
  <2>17. (\A j \in Attempts : att[j].dir = -1) => \A j \in Attempts : att'[j].dir = -1
    BY <1>3, <2>3, <2>5
  <2>18. UnderCorrection' <=> UnderCorrection
    <3>1. UnderCorrection <=> \E j \in Attempts : KnownAttempt(j) /\ att[j].purpose = "Reduce"
      BY <1>0, CorrectionOf
    <3>2. UnderCorrection' <=> \E j \in Attempts : KnownAttempt(j)' /\ att'[j].purpose = "Reduce"
      BY <2>6 DEF LedgerTypeOK, Records, UnderCorrection, KnownAttempt, Unresolved, Completed
    <3>3. \A j \in Attempts : (KnownAttempt(j)' /\ att'[j].purpose = "Reduce")
                              <=> (KnownAttempt(j) /\ att[j].purpose = "Reduce")
      BY <1>1, <1>3, <2>1, <2>3, <2>5 DEF KnownAttempt, NoAttempt
    <3> QED BY <3>1, <3>2, <3>3
  <2>19. SumHeld' \in Int /\ SumHeld' <= SumHeld
    BY <2>13, <2>15
  <2> QED BY <1>1, <1>6, <2>6, <2>8, <2>14, <2>16, <2>17, <2>18, <2>19, Keeps
<1> QED BY <1>4, <1>5, <1>6 DEF Rejected

-----------------------------------------------------------------------------
(* The other steps                                                         *)

LEMMA NothingMoves ==
    ASSUME HedgeLedgerAssumption, LedgerInv, LedgerTypeOK', due => due',
           UNCHANGED <<applied, inventory, att, admitted, answer, wire, raced>>
    PROVE  LedgerInv'
<1>0. LedgerTypeOK /\ Late
  BY InvParts
<1>1. \A j \in Attempts : Fits(j)'
  BY FitsAll
<1>2. SumBooked' = SumBooked /\ SumHeld' = SumHeld /\ UnderCorrection' = UnderCorrection
  BY NoneChanges
<1>3. SumHeld \in Int
  BY <1>0, SumTypes
<1>4. Late'
  BY <1>0 DEF Late
<1>5. SumHeld' \in Int /\ SumHeld' <= SumHeld /\ (UnderCorrection' <=> UnderCorrection)
      /\ (due' \/ SumBooked' = SumBooked)
  BY <1>2, <1>3
<1>6. (\A j \in Attempts : att[j].dir = -1) => \A j \in Attempts : att'[j].dir = -1
  OBVIOUS
<1> QED BY <1>1, <1>4, <1>5, <1>6, Keeps

LEMMA MakerFillStep ==
    ASSUME HedgeLedgerAssumption, LedgerInv, MakerFill
    PROVE  LedgerInv'
<1>0. LedgerTypeOK /\ Balanced /\ Reserved /\ Late /\ \A j \in Attempts : Fits(j)
  BY InvParts
<1>1. PICK c \in 1 .. cum :
        /\ Increase(c) > 0 /\ coverage' = coverage + Increase(c) /\ applied' = applied + Increase(c)
        /\ LET inv == inventory + Increase(c)
               qty == Floor(Size(inv))
               hedge == Attempt("Hedge", "Lighter", -Sign(inv), qty, 1)
           IN IF Size(inv) < LeastHedge
              THEN inventory' = inv /\ UNCHANGED <<att, admitted, answer, due, raced>>
              ELSE \E i \in Unused :
                     /\ inventory' = inv - Sign(inv) * qty
                     /\ raced' = (raced \/ /\ inventory # 0
                                           /\ \E j \in Unresolved(att) \cup Completed : att[j].purpose = "Reduce")
                     /\ \/ Queue(att, i, hedge) /\ UNCHANGED due
                        \/ Unsent(att, i, hedge) /\ due' = TRUE
  BY DEF MakerFill
<1>2. UNCHANGED <<tries, wire, cum>>
  BY DEF MakerFill
<1> DEFINE inc == Increase(c)
           inv == inventory + inc
           qty == Floor(Size(inv))
<1>3. /\ inc \in Nat /\ inc > 0 /\ coverage' = coverage + inc /\ applied' = applied + inc
      /\ coverage + inc <= cum
  BY <1>0, <1>1 DEF LedgerTypeOK, Increase
<1>4. applied \in Nat /\ coverage \in Nat /\ applied <= coverage /\ cum \in Nat
      /\ inventory \in Int /\ inv \in Int /\ SumBooked \in Int /\ SumHeld \in Int
  BY <1>0, <1>3, SumTypes DEF LedgerTypeOK
<1>5. applied' \in Nat /\ coverage' \in Nat /\ applied' <= coverage' /\ coverage' <= cum'
  BY <1>2, <1>3, <1>4
<1> HIDE DEF inc
<1>6. CASE Size(inv) < LeastHedge
  <2>1. inventory' = inv /\ UNCHANGED <<att, admitted, answer, due, raced>>
    BY <1>1, <1>6 DEF inc
  <2>2. LedgerTypeOK'
    BY <1>0, <1>2, <1>4, <1>5, <2>1 DEF LedgerTypeOK
  <2>3. \A j \in Attempts : Fits(j)'
    BY <1>2, <2>1, FitsAll
  <2>4. SumBooked' = SumBooked /\ SumHeld' = SumHeld /\ UnderCorrection' = UnderCorrection
    BY <2>1, NoneChanges
  <2>5. Balanced'
    <3>1. due \/ applied + SumBooked = inventory
      BY <1>0 DEF Balanced, SumBooked
    <3>2. applied + SumBooked = inventory => applied' + SumBooked' = inventory'
      BY <1>3, <1>4, <2>1, <2>4
    <3> QED BY <2>1, <3>1, <3>2 DEF Balanced, SumBooked
  <2>6. Reserved'
    <3>1. CASE raced
      BY <2>1, <3>1 DEF Reserved
    <3>2. CASE ~raced
      <4>1. inventory >= 0 /\ applied >= SumHeld /\ \A j \in Attempts : att[j].dir = -1
        BY <1>0, <3>2 DEF Reserved, SumHeld
      <4>2. UnderCorrection \/ applied >= SumHeld + inventory
        BY <1>0, <3>2 DEF Reserved, SumHeld
      <4>3. inventory' >= 0 /\ applied' >= SumHeld'
        BY <1>3, <1>4, <2>1, <2>4, <4>1
      <4>4. ASSUME applied >= SumHeld + inventory PROVE applied' >= SumHeld' + inventory'
        BY <1>3, <1>4, <2>1, <2>4, <4>4
      <4>5. UnderCorrection' \/ applied' >= SumHeld' + inventory'
        BY <2>4, <4>2, <4>4
      <4> QED BY <2>1, <4>1, <4>3, <4>5 DEF Reserved, SumHeld
    <3> QED BY <3>1, <3>2
  <2>7. Late'
    BY <1>0, <2>1 DEF Late
  <2> QED BY <2>2, <2>3, <2>5, <2>6, <2>7, InvAgain
<1>7. CASE ~(Size(inv) < LeastHedge)
  <2> DEFINE hedge == Attempt("Hedge", "Lighter", -Sign(inv), qty, 1)
  <2>1. PICK i \in Unused :
          /\ inventory' = inv - Sign(inv) * qty
          /\ raced' = (raced \/ /\ inventory # 0
                                /\ \E j \in Unresolved(att) \cup Completed : att[j].purpose = "Reduce")
          /\ \/ Queue(att, i, hedge) /\ UNCHANGED due
             \/ Unsent(att, i, hedge) /\ due' = TRUE
    BY <1>1, <1>7 DEF inc
  <2>2. /\ i \in Attempts /\ att[i] = NoAttempt /\ admitted[i] = "none" /\ answer[i] = "none"
        /\ wire[i] = [st |-> "none", filled |-> 0]
    BY UnusedIsNew
  <2>3. /\ Size(inv) \in Nat /\ Sign(inv) \in {-1, 1}
        /\ Sign(inv) = 1 => inv > 0 /\ Size(inv) = inv
        /\ Sign(inv) = -1 => inv < 0 /\ Size(inv) = -inv
    BY <1>4, <1>7 DEF HedgeLedgerAssumption, Size, Sign
  <2>4. qty \in Nat /\ qty <= Size(inv)
    BY <2>3, FloorBounds
  <2> HIDE DEF qty
  <2>5. hedge \in Records /\ [hedge EXCEPT !.state = "over"] \in Records
        /\ hedge.state = "flight" /\ hedge.dir = -Sign(inv) /\ hedge.qty = qty
        /\ hedge.filled = 0 /\ hedge.purpose = "Hedge"
        /\ [hedge EXCEPT !.state = "over"].state = "over"
        /\ [hedge EXCEPT !.state = "over"].dir = -Sign(inv)
        /\ [hedge EXCEPT !.state = "over"].qty = qty
        /\ [hedge EXCEPT !.state = "over"].filled = 0
        /\ [hedge EXCEPT !.state = "over"].purpose = "Hedge"
    BY <2>3, <2>4 DEF Attempt, Records
  <2> HIDE DEF hedge
  <2>6. PICK new \in {hedge, [hedge EXCEPT !.state = "over"]} :
          /\ att' = [att EXCEPT ![i] = new]
          /\ new.state = "flight" => /\ admitted' = [admitted EXCEPT ![i] = "queued"]
                                     /\ answer' = answer /\ due' = due
          /\ new.state = "over" => /\ admitted' = [admitted EXCEPT ![i] = "cancelled"]
                                   /\ answer' = [answer EXCEPT ![i] = "said"] /\ due' = TRUE
    BY <2>1, <2>5 DEF Queue, Unsent
  <2>7. /\ new \in Records /\ new.state \in {"flight", "over"} /\ new.dir = -Sign(inv) /\ new.qty = qty
        /\ new.filled = 0 /\ new.purpose = "Hedge"
    BY <2>5
  <2>8. /\ att'[i] = new /\ \A j \in Attempts \ {i} : att'[j] = att[j]
        /\ \A j \in Attempts \ {i} : admitted'[j] = admitted[j] /\ answer'[j] = answer[j] /\ wire'[j] = wire[j]
        /\ new.state = "flight" => admitted'[i] = "queued" /\ answer'[i] = "none"
        /\ new.state = "over" => admitted'[i] = "cancelled" /\ answer'[i] = "said"
        /\ wire'[i] = wire[i]
    BY <1>0, <1>2, <2>2, <2>6, <2>7 DEF LedgerTypeOK
  <2>9. inventory' \in Int /\ (raced' \in BOOLEAN)
    BY <1>0, <1>4, <2>1, <2>3, <2>4 DEF LedgerTypeOK
  <2>10. LedgerTypeOK'
    <3>1. att' \in [Attempts -> Records]
      BY <1>0, <2>6, <2>7 DEF LedgerTypeOK
    <3>2. CASE new.state = "flight"
      BY <1>0, <1>2, <1>4, <1>5, <2>2, <2>6, <2>9, <3>1, <3>2 DEF LedgerTypeOK
    <3>3. CASE new.state = "over"
      BY <1>0, <1>2, <1>4, <1>5, <2>2, <2>6, <2>9, <3>1, <3>3 DEF LedgerTypeOK
    <3> QED BY <2>7, <3>2, <3>3
  <2>11. \A j \in Attempts : Fits(j)'
    <3>1. Fits(i)'
      BY <2>2, <2>4, <2>7, <2>8 DEF Fits, Lifecycle
    <3> QED BY <1>0, <2>8, <3>1, FitsKept
  <2>12. /\ SumBooked' = SumBooked + Booked'[i] - Booked[i]
         /\ SumHeld' = SumHeld + Held'[i] - Held[i]
    BY <1>0, <2>2, <2>8, <2>10, OneChanges
  <2>13. Booked[i] = 0 /\ Held[i] = 0
    BY <2>2 DEF Booked, Held, Unresolved, NoAttempt
  <2>14. new.state = "flight" => Booked'[i] = (-Sign(inv)) * qty
    BY <2>2, <2>7, <2>8 DEF Booked, Unresolved
  <2>15. Held'[i] \in Nat /\ Held'[i] <= qty
    BY <2>2, <2>4, <2>7, <2>8 DEF Held, Unresolved
  <2>16. Balanced'
    <3>1. due \/ applied + SumBooked = inventory
      BY <1>0 DEF Balanced, SumBooked
    <3>2. ASSUME new.state = "flight", applied + SumBooked = inventory
          PROVE  applied' + SumBooked' = inventory'
      <4>1. inventory' = inv - Sign(inv) * qty /\ Booked'[i] = (-Sign(inv)) * qty
        BY <2>1, <2>14, <3>2
      <4>2. SumBooked' = SumBooked + Booked'[i]
        BY <1>4, <2>2, <2>4, <2>3, <2>12, <2>13, <4>1
      <4>3. CASE Sign(inv) = 1
        BY <1>3, <1>4, <2>4, <3>2, <4>1, <4>2, <4>3
      <4>4. CASE Sign(inv) = -1
        BY <1>3, <1>4, <2>4, <3>2, <4>1, <4>2, <4>4
      <4> QED BY <2>3, <4>3, <4>4
    <3>3. new.state = "flight" => due' = due
      BY <2>6
    <3>4. new.state = "over" => due'
      BY <2>6
    <3> QED BY <2>7, <3>1, <3>2, <3>3, <3>4 DEF Balanced, SumBooked
  <2>17. UnderCorrection' <=> UnderCorrection
    <3>1. UnderCorrection <=> \E j \in Attempts : KnownAttempt(j) /\ att[j].purpose = "Reduce"
      BY <1>0, CorrectionOf
    <3>2. UnderCorrection' <=> \E j \in Attempts : KnownAttempt(j)' /\ att'[j].purpose = "Reduce"
      BY <2>10 DEF LedgerTypeOK, Records, UnderCorrection, KnownAttempt, Unresolved, Completed
    <3>3. \A j \in Attempts : (KnownAttempt(j)' /\ att'[j].purpose = "Reduce")
                              <=> (KnownAttempt(j) /\ att[j].purpose = "Reduce")
      BY <2>2, <2>7, <2>8 DEF KnownAttempt, NoAttempt
    <3> QED BY <3>1, <3>2, <3>3
  <2>18. Reserved'
    <3>1. CASE raced'
      BY <3>1 DEF Reserved
    <3>2. CASE ~raced'
      <4>1. ~raced /\ (inventory = 0 \/ ~UnderCorrection)
        BY <2>1, <3>2 DEF UnderCorrection
      <4>2. inventory >= 0 /\ applied >= SumHeld /\ \A j \in Attempts : att[j].dir = -1
        BY <1>0, <4>1 DEF Reserved, SumHeld
      <4>3. UnderCorrection \/ applied >= SumHeld + inventory
        BY <1>0, <4>1 DEF Reserved, SumHeld
      <4>4. inventory = 0 \/ applied >= SumHeld + inventory
        BY <4>1, <4>3
      <4>5. inv > 0 /\ Sign(inv) = 1
        BY <1>3, <1>4, <4>2 DEF Sign
      <4>6. applied >= SumHeld + inventory
        BY <1>4, <4>2, <4>4
      <4>7. inventory' = inv - qty /\ qty <= inv
        BY <1>4, <2>1, <2>3, <2>4, <4>5
      <4>8. SumHeld' = SumHeld + Held'[i]
        BY <1>4, <2>12, <2>13, <2>15
      <4>9. inventory' >= 0 /\ applied' >= SumHeld' /\ applied' >= SumHeld' + inventory'
        BY <1>3, <1>4, <2>4, <2>15, <4>2, <4>6, <4>7, <4>8
      <4>10. \A j \in Attempts : att'[j].dir = -1
        BY <2>7, <2>8, <4>2, <4>5
      <4> QED BY <4>9, <4>10 DEF Reserved, SumHeld
    <3> QED BY <3>1, <3>2
  <2>19. Late'
    BY <1>0, <2>6, <2>7, <2>8 DEF Late
  <2> QED BY <2>10, <2>11, <2>16, <2>18, <2>19, InvAgain
<1> QED BY <1>6, <1>7

\* A fill recorded without a price leaves the books as they are.
LEMMA UnpricedFillStep ==
    ASSUME HedgeLedgerAssumption, LedgerInv, UnpricedFill
    PROVE  LedgerInv'
<1>0. LedgerTypeOK
  BY InvParts
<1>1. PICK c \in 1 .. cum : Increase(c) > 0 /\ coverage' = coverage + Increase(c)
  BY DEF UnpricedFill
<1>2. coverage' \in Nat /\ applied' <= coverage' /\ coverage' <= cum'
  BY <1>0, <1>1 DEF LedgerTypeOK, Increase, UnpricedFill
<1>3. LedgerTypeOK'
  BY <1>0, <1>2 DEF LedgerTypeOK, UnpricedFill
<1> QED BY <1>3, NothingMoves DEF UnpricedFill

-----------------------------------------------------------------------------
(* Reconciliation                                                          *)

\* The attempts with every closed one forgotten.
Done == [i \in Attempts |-> IF att[i].state = "over" THEN [att[i] EXCEPT !.state = "gone"] ELSE att[i]]

\* What the attempts executed, as far as the strategy knows.
Taken == [i \in Attempts |-> att[i].filled]
SumTaken == SumFunctionOnSet(Taken, Attempts)

\* With nothing open, the books are the executions.
LEMMA NothingOpen ==
    ASSUME HedgeLedgerAssumption, LedgerInv, Unresolved(att) = {}
    PROVE  /\ Net = applied + SumBooked /\ Net \in Int /\ Aster \in Int /\ Lighter \in Int
           /\ SumTaken \in Int /\ SumTaken <= SumHeld
           /\ (\A j \in Attempts : att[j].dir = -1) => Net = applied - SumTaken
<1>0. LedgerTypeOK /\ \A j \in Attempts : Fits(j)
  BY InvParts
<1>1. IsFiniteSet(Attempts)
  BY AttemptsFinite
<1>2. \A j \in Attempts : att[j] \in Records
  BY <1>0 DEF LedgerTypeOK
<1>3. \A j \in Attempts : SignedFills[j] \in Int /\ Booked[j] = SignedFills[j]
  BY <1>0, NetIs DEF Booked, SignedFills
<1>4. SumBooked = SumFunctionOnSet(SignedFills, Attempts)
  BY <1>1, <1>3, SumSame DEF SumBooked
<1>5. /\ Net = applied + SumFunctionOnSet(SignedFills, Attempts)
      /\ Net \in Int /\ Aster \in Int /\ Lighter \in Int
  BY <1>0, NetIs
<1>6. \A j \in Attempts : Taken[j] \in Int /\ Held[j] \in Int /\ Taken[j] <= Held[j]
  <2>1. ASSUME NEW j \in Attempts PROVE att[j].filled \in Nat /\ att[j].qty \in Nat /\ att[j].filled <= att[j].qty
    BY <1>0, <1>2 DEF Fits, Lifecycle, LedgerTypeOK, Records
  <2> QED BY <2>1 DEF Taken, Held
<1>7. SumTaken \in Int /\ SumTaken <= SumHeld
  BY <1>1, <1>6, SumType, SumMonotone DEF SumTaken, SumHeld
<1>8. ASSUME \A j \in Attempts : att[j].dir = -1 PROVE Net = applied - SumTaken
  <2>1. \A j \in Attempts : Taken[j] \in Int /\ SignedFills[j] = -Taken[j]
    BY <1>2, <1>6, <1>8, Products DEF SignedFills, Taken
  <2>2. SumFunctionOnSet(SignedFills, Attempts) = -SumTaken
    BY <1>1, <2>1, SumOpposite DEF SumTaken
  <2> QED BY <1>0, <1>5, <1>7, <2>2 DEF LedgerTypeOK
<1> QED BY <1>4, <1>5, <1>7, <1>8

LEMMA DoneIs ==
    ASSUME LedgerInv, Unresolved(att) = {}
    PROVE  /\ Done \in [Attempts -> Records]
           /\ \A j \in Attempts :
                /\ Done[j].state \in {"none", "gone"} /\ (Done[j].state = "none" <=> att[j].state = "none")
                /\ Done[j].dir = att[j].dir /\ Done[j].qty = att[j].qty /\ Done[j].filled = att[j].filled
                /\ Done[j].purpose = att[j].purpose /\ (att[j].state = "none" => Done[j] = att[j])
<1>0. \A j \in Attempts : att[j] \in Records
  BY InvParts DEF LedgerTypeOK
<1>1. \A j \in Attempts : att[j].state \in {"none", "over", "gone"}
  BY <1>0 DEF Unresolved, Records
<1>2. ASSUME NEW j \in Attempts
      PROVE  /\ Done[j] \in Records
             /\ Done[j].state \in {"none", "gone"} /\ (Done[j].state = "none" <=> att[j].state = "none")
             /\ Done[j].dir = att[j].dir /\ Done[j].qty = att[j].qty /\ Done[j].filled = att[j].filled
             /\ Done[j].purpose = att[j].purpose /\ (att[j].state = "none" => Done[j] = att[j])
  <2>1. CASE att[j].state = "over"
    <3>1. Done[j] = [att[j] EXCEPT !.state = "gone"]
      BY <2>1 DEF Done
    <3> QED BY <1>0, <2>1, <3>1 DEF Records
  <2>2. CASE att[j].state # "over"
    <3>1. Done[j] = att[j]
      BY <2>2 DEF Done
    <3> QED BY <1>0, <1>1, <2>2, <3>1 DEF Records
  <2> QED BY <2>1, <2>2
<1> QED BY <1>2 DEF Done

\* A closed attempt that is forgotten still fits.
LEMMA DoneFits ==
    ASSUME LedgerInv, Unresolved(att) = {}, NEW j \in Attempts, att'[j] = Done[j],
           admitted'[j] = admitted[j], answer'[j] = answer[j], wire'[j] = wire[j]
    PROVE  Fits(j)'
<1>1. Fits(j) /\ att[j] \in Records
  BY InvParts DEF LedgerTypeOK
<1>2. /\ Done[j].state \in {"none", "gone"} /\ (Done[j].state = "none" <=> att[j].state = "none")
      /\ Done[j].qty = att[j].qty /\ Done[j].filled = att[j].filled
      /\ (att[j].state = "none" => Done[j] = att[j])
  BY DoneIs
<1>3. att[j].state \in {"none", "over", "gone"}
  BY <1>1 DEF Unresolved, Records
<1> QED BY <1>1, <1>2, <1>3 DEF Fits, Lifecycle

\* What is left to prove of a step that forgets the closed attempts and sends nothing.
LEMMA Forgets ==
    ASSUME HedgeLedgerAssumption, LedgerInv, LedgerTypeOK', Unresolved(att) = {}, att' = Done,
           UNCHANGED <<applied, admitted, answer, wire, raced>>,
           due' \/ applied + SumBooked = inventory',
           ~raced => inventory' >= 0 /\ applied >= SumTaken + inventory'
    PROVE  LedgerInv'
<1>1. \A j \in Attempts : Fits(j)'
  BY DoneFits
<1>2. \A j \in Attempts : /\ Done[j].state \in {"none", "gone"}
                          /\ Done[j].dir = att[j].dir /\ Done[j].filled = att[j].filled
  BY DoneIs
<1>3. Late'
  BY <1>2 DEF Late
<1>4. \A j \in Attempts : Booked'[j] = Booked[j] /\ Held'[j] = Taken[j]
  BY <1>2 DEF Booked, Held, Taken, Unresolved
<1>5. \A j \in Attempts : Booked[j] \in Int /\ Taken[j] \in Int
  BY SumTypes, InvParts DEF Taken, LedgerTypeOK, Records
<1>6. SumFunctionOnSet(Booked', Attempts) = SumBooked /\ SumFunctionOnSet(Held', Attempts) = SumTaken
  BY <1>4, <1>5, AttemptsFinite, SumSame DEF SumBooked, SumTaken
<1>7. Balanced'
  BY <1>6 DEF Balanced, Attempts
<1>8. Reserved'
  <2>1. CASE raced
    BY <2>1 DEF Reserved
  <2>2. CASE ~raced
    <3>1. inventory' >= 0 /\ applied >= SumTaken + inventory' /\ \A j \in Attempts : att[j].dir = -1
      BY <2>2, InvParts DEF Reserved
    <3>2. SumTaken \in Int /\ applied \in Int /\ inventory' \in Int
      BY InvParts, NothingOpen DEF LedgerTypeOK
    <3>3. applied >= SumTaken
      <4>1. \A a \in Int, b \in Int, c \in Int : c >= 0 /\ a >= b + c => a >= b
        OBVIOUS
      <4> QED BY <3>1, <3>2, <4>1, Zenon
    <3>4. \A j \in Attempts : att'[j].dir = -1
      BY <1>2, <3>1
    <3> QED BY <1>6, <3>1, <3>3, <3>4 DEF Reserved, Attempts
  <2> QED BY <2>1, <2>2
<1> QED BY <1>1, <1>3, <1>7, <1>8, InvAgain

\* What is left to prove of one that also sends a correction.
LEMMA Corrects ==
    ASSUME HedgeLedgerAssumption, LedgerInv, LedgerTypeOK', Unresolved(att) = {},
           NEW n \in Unused, NEW new \in Records, att' = [Done EXCEPT ![n] = new],
           new.state \in {"flight", "over"}, new.purpose = "Reduce", new.filled = 0,
           new.state = "flight" => /\ admitted' = [admitted EXCEPT ![n] = "queued"] /\ answer' = answer,
           new.state = "over" => /\ admitted' = [admitted EXCEPT ![n] = "cancelled"]
                                 /\ answer' = [answer EXCEPT ![n] = "said"],
           UNCHANGED <<applied, wire, raced>>, due',
           ~raced => new.dir = -1 /\ inventory' >= 0 /\ applied >= SumTaken + new.qty
    PROVE  LedgerInv'
<1>0. LedgerTypeOK /\ \A j \in Attempts : Fits(j)
  BY InvParts
<1>1. /\ n \in Attempts /\ att[n] = NoAttempt /\ admitted[n] = "none" /\ answer[n] = "none"
      /\ wire[n] = [st |-> "none", filled |-> 0]
  BY UnusedIsNew
<1>2. Done \in [Attempts -> Records]
  BY DoneIs
<1>3. /\ att'[n] = new /\ \A j \in Attempts \ {n} : att'[j] = Done[j]
      /\ \A j \in Attempts \ {n} : admitted'[j] = admitted[j] /\ answer'[j] = answer[j] /\ wire'[j] = wire[j]
      /\ new.state = "flight" => admitted'[n] = "queued" /\ answer'[n] = "none"
      /\ new.state = "over" => admitted'[n] = "cancelled" /\ answer'[n] = "said"
      /\ wire'[n] = wire[n]
  BY <1>0, <1>1, <1>2 DEF LedgerTypeOK
<1>4. new.qty \in Nat
  BY DEF Records
<1>5. \A j \in Attempts : Fits(j)'
  <2>1. Fits(n)'
    BY <1>1, <1>3, <1>4 DEF Fits, Lifecycle
  <2> QED BY <1>3, <2>1, DoneFits
<1>6. Late'
  BY DEF Late
<1>7. Balanced'
  BY DEF Balanced
<1>8. Reserved'
  <2>1. CASE raced
    BY <2>1 DEF Reserved
  <2>2. CASE ~raced
    <3>1. /\ new.dir = -1 /\ inventory' >= 0 /\ applied >= SumTaken + new.qty
          /\ \A j \in Attempts : att[j].dir = -1
      BY <2>2, InvParts DEF Reserved
    <3>2. \A j \in Attempts : /\ Done[j].state \in {"none", "gone"}
                              /\ Done[j].dir = att[j].dir /\ Done[j].filled = att[j].filled
      BY DoneIs
    <3>3. Taken[n] = 0 /\ \A j \in Attempts : Taken[j] \in Int
      BY <1>0, <1>1 DEF Taken, LedgerTypeOK, Records, NoAttempt
    <3>4. \A j \in Attempts \ {n} : Held'[j] = Taken[j]
      BY <1>3, <3>2 DEF Held, Taken, Unresolved
    <3>5. Held'[n] \in Nat /\ Held'[n] <= new.qty
      BY <1>1, <1>3, <1>4 DEF Held, Unresolved
    <3>6. SumFunctionOnSet(Held', Attempts) = SumTaken + Held'[n] - Taken[n]
      <4>1. \A j \in Attempts : Taken[j] \in Int /\ Held'[j] \in Int
        BY <3>3, <3>4, <3>5
      <4> QED BY <1>1, <3>4, <4>1, AttemptsFinite, SumChange DEF SumTaken
    <3>7. SumTaken \in Int /\ applied \in Int
      BY <1>0, NothingOpen DEF LedgerTypeOK
    <3>8. applied >= SumFunctionOnSet(Held', Attempts)
      <4>1. SumFunctionOnSet(Held', Attempts) = SumTaken + Held'[n]
        BY <3>3, <3>5, <3>6, <3>7
      <4>2. \A a \in Int, b \in Int, c \in Int, d \in Int : c <= d /\ a >= b + d => a >= b + c
        OBVIOUS
      <4> QED BY <1>4, <3>1, <3>5, <3>7, <4>1, <4>2
    <3>9. UnderCorrection'
      BY <1>1, <1>3 DEF UnderCorrection, Unresolved, Completed
    <3>10. \A j \in Attempts : att'[j].dir = -1
      BY <1>3, <3>1, <3>2
    <3> QED BY <3>1, <3>8, <3>9, <3>10 DEF Reserved, Attempts
  <2> QED BY <2>1, <2>2
<1> QED BY <1>5, <1>6, <1>7, <1>8, InvAgain

\* A correction reduces the net position, by no more than all of it.
LEMMA LegIs ==
    ASSUME HedgeLedgerAssumption, Net \in Int, Aster \in Int, Lighter \in Int, Net # 0, NEW leg \in CorrectionLegs
    PROVE  /\ leg \in Records /\ leg.state = "flight" /\ leg.purpose = "Reduce" /\ leg.filled = 0
           /\ leg.dir = -Sign(Net) /\ leg.qty <= Size(Net)
<1>1. Size(Net) \in Nat /\ Sign(Net) \in {-1, 1} /\ Size(Aster) \in Nat /\ Size(Lighter) \in Nat
  BY DEF Size, Sign
<1>2. /\ Least(Size(Net), Size(Aster)) \in Nat /\ Least(Size(Net), Size(Aster)) <= Size(Net)
      /\ Least(Size(Net), Size(Lighter)) \in Nat /\ Least(Size(Net), Size(Lighter)) <= Size(Net)
  BY <1>1 DEF Least
<1>3. /\ Floor(Least(Size(Net), Size(Lighter))) \in Nat
      /\ Floor(Least(Size(Net), Size(Lighter))) <= Size(Net)
  BY <1>1, <1>2, FloorBounds
<1>4. PICK venue \in {"Aster", "Lighter"}, q \in Nat :
        q <= Size(Net) /\ leg = Attempt("Reduce", venue, -Sign(Net), q, 1)
  BY <1>2, <1>3 DEF CorrectionLegs
<1>5. -Sign(Net) \in {-1, 1}
  BY <1>1
<1> QED BY <1>4, <1>5 DEF Attempt, Records

LEMMA RecoverStep ==
    ASSUME HedgeLedgerAssumption, LedgerInv, Recover
    PROVE  LedgerInv'
<1> DEFINE corrected == \E i \in Completed : att[i].purpose = "Reduce"
           left == IF corrected /\ inventory # 0 THEN Net ELSE inventory
           must == due \/ corrected
<1>0. LedgerTypeOK /\ Balanced /\ Reserved
  BY InvParts
<1>1. Unresolved(att) = {} /\ UNCHANGED <<coverage, applied, wire, cum, raced>>
  BY DEF Recover, Proven
<1>2. /\ Net = applied + SumBooked /\ Net \in Int /\ Aster \in Int /\ Lighter \in Int
      /\ SumTaken \in Int /\ SumTaken <= SumHeld /\ SumBooked \in Int /\ SumHeld \in Int
      /\ (\A j \in Attempts : att[j].dir = -1) => Net = applied - SumTaken
  BY <1>0, <1>1, NothingOpen, SumTypes
<1>3. applied \in Nat /\ inventory \in Int /\ left \in Int /\ tries \in 0 .. 2
  BY <1>0, <1>2 DEF LedgerTypeOK
<1>4. Done \in [Attempts -> Records]
  BY <1>1, DoneIs
<1>5. corrected <=> UnderCorrection
  BY <1>1 DEF UnderCorrection
\* the fills cover what was taken, and the inventory that goes on
<1>6. ASSUME ~raced
      PROVE  /\ inventory >= 0 /\ applied >= SumTaken /\ Net = applied - SumTaken /\ Net >= 0
             /\ left >= 0 /\ applied >= SumTaken + left
             /\ corrected \/ applied >= SumTaken + inventory
  <2>1. inventory >= 0 /\ applied >= SumHeld /\ \A j \in Attempts : att[j].dir = -1
    BY <1>0, <1>6 DEF Reserved, SumHeld
  <2>2. corrected \/ applied >= SumHeld + inventory
    BY <1>0, <1>5, <1>6 DEF Reserved, SumHeld
  <2>3. applied >= SumTaken /\ Net = applied - SumTaken /\ Net >= 0
    BY <1>2, <1>3, <2>1
  <2>4. applied >= SumHeld + inventory => applied >= SumTaken + inventory
    <3>1. \A a \in Int, b \in Int, c \in Int, d \in Int : d <= b /\ a >= b + c => a >= d + c
      OBVIOUS
    <3> QED BY <1>2, <1>3, <3>1
  <2>5. corrected \/ applied >= SumTaken + inventory
    BY <2>2, <2>4
  <2>6. left >= 0 /\ applied >= SumTaken + left
    <3>1. CASE corrected /\ inventory # 0
      BY <1>2, <1>3, <2>3, <3>1
    <3>2. CASE corrected /\ inventory = 0
      BY <1>2, <1>3, <2>3, <3>2
    <3>3. CASE ~corrected
      BY <1>2, <1>3, <2>1, <2>5, <3>3
    <3> QED BY <3>1, <3>2, <3>3
  <2> QED BY <2>1, <2>3, <2>5, <2>6
<1>7. \/ /\ Net = 0 /\ att' = Done /\ inventory' = 0 /\ due' = FALSE /\ tries' = 0
         /\ UNCHANGED <<admitted, answer>>
      \/ /\ ~must /\ att' = Done /\ UNCHANGED <<inventory, due, tries, admitted, answer>>
      \/ Net # 0 /\ inventory' = left /\ due' = TRUE /\ DispatchCorrection(Done)
  BY DEF Recover, Done
<1> HIDE DEF left
<1>8. ASSUME att' = Done, UNCHANGED <<admitted, answer>>, inventory' \in Int, due' \in BOOLEAN, tries' \in 0 .. 2
      PROVE  LedgerTypeOK'
  BY <1>0, <1>1, <1>4, <1>8 DEF LedgerTypeOK
<1>9. CASE /\ Net = 0 /\ att' = Done /\ inventory' = 0 /\ due' = FALSE /\ tries' = 0
           /\ UNCHANGED <<admitted, answer>>
  <2>1. LedgerTypeOK'
    <3>1. inventory' = 0 /\ due' = FALSE /\ tries' = 0 /\ att' = Done /\ UNCHANGED <<admitted, answer>>
      BY <1>9
    <3>2. inventory' \in Int /\ tries' \in 0 .. 2
      BY <3>1
    <3>3. due' \in BOOLEAN
      BY <3>1, Zenon
    <3> QED BY <1>8, <3>1, <3>2, <3>3
  <2>2. applied + SumBooked = inventory'
    BY <1>2, <1>9
  <2>3. ~raced => inventory' >= 0 /\ applied >= SumTaken + inventory'
    BY <1>2, <1>6, <1>9
  <2> QED BY <1>1, <1>9, <2>1, <2>2, <2>3, Forgets
<1>10. CASE ~must /\ att' = Done /\ UNCHANGED <<inventory, due, tries, admitted, answer>>
  <2>1. LedgerTypeOK'
    BY <1>0, <1>3, <1>8, <1>10 DEF LedgerTypeOK
  <2>2. due' \/ applied + SumBooked = inventory'
    BY <1>0, <1>10 DEF Balanced, SumBooked
  <2>3. ~raced => inventory' >= 0 /\ applied >= SumTaken + inventory'
    BY <1>6, <1>10
  <2> QED BY <1>1, <1>10, <2>1, <2>2, <2>3, Forgets
<1>11. CASE Net # 0 /\ inventory' = left /\ due' = TRUE /\ DispatchCorrection(Done)
  <2>1. CASE att' = Done /\ UNCHANGED <<admitted, answer, tries, positions>>
    <3>1. LedgerTypeOK'
      BY <1>3, <1>8, <1>11, <2>1
    <3>2. ~raced => inventory' >= 0 /\ applied >= SumTaken + inventory'
      BY <1>6, <1>11
    <3> QED BY <1>1, <1>11, <2>1, <3>1, <3>2, Forgets
  <2>2. ASSUME tries < 2, NEW leg \in CorrectionLegs, NEW n \in Unused,
               \/ Queue(Done, n, leg) /\ tries' = tries + 1
               \/ Unsent(Done, n, leg) /\ UNCHANGED tries
        PROVE  LedgerInv'
    <3>1. /\ leg \in Records /\ leg.state = "flight" /\ leg.purpose = "Reduce" /\ leg.filled = 0
          /\ leg.dir = -Sign(Net) /\ leg.qty <= Size(Net)
      BY <1>2, <1>11, LegIs
    <3>2. /\ [leg EXCEPT !.state = "over"] \in Records
          /\ [leg EXCEPT !.state = "over"].state = "over"
          /\ [leg EXCEPT !.state = "over"].purpose = "Reduce" /\ [leg EXCEPT !.state = "over"].filled = 0
          /\ [leg EXCEPT !.state = "over"].dir = leg.dir /\ [leg EXCEPT !.state = "over"].qty = leg.qty
      BY <3>1 DEF Records
    <3>3. PICK new \in {leg, [leg EXCEPT !.state = "over"]} :
            /\ att' = [Done EXCEPT ![n] = new]
            /\ new.state = "flight" => /\ admitted' = [admitted EXCEPT ![n] = "queued"] /\ answer' = answer
            /\ new.state = "over" => /\ admitted' = [admitted EXCEPT ![n] = "cancelled"]
                                     /\ answer' = [answer EXCEPT ![n] = "said"]
      BY <2>2, <3>1, <3>2 DEF Queue, Unsent
    <3>4. /\ new \in Records /\ new.state \in {"flight", "over"} /\ new.purpose = "Reduce" /\ new.filled = 0
          /\ new.dir = -Sign(Net) /\ new.qty <= Size(Net)
      BY <3>1, <3>2
    <3>5. tries' \in 0 .. 2
      BY <1>3, <2>2
    <3>6. n \in Attempts
      BY UnusedIsNew
    <3>7. LedgerTypeOK'
      <4>1. att' \in [Attempts -> Records]
        BY <1>4, <3>3, <3>4
      <4>2. inventory' \in Int /\ due' \in BOOLEAN
        BY <1>3, <1>11
      <4>3. CASE new.state = "flight"
        BY <1>0, <1>1, <3>3, <3>5, <4>1, <4>2, <4>3 DEF LedgerTypeOK
      <4>4. CASE new.state = "over"
        BY <1>0, <1>1, <3>3, <3>5, <4>1, <4>2, <4>4 DEF LedgerTypeOK
      <4> QED BY <3>4, <4>3, <4>4
    <3>8. ~raced => new.dir = -1 /\ inventory' >= 0 /\ applied >= SumTaken + new.qty
      <4>1. SUFFICES ASSUME ~raced PROVE new.dir = -1 /\ inventory' >= 0 /\ applied >= SumTaken + new.qty
        OBVIOUS
      <4>2. Net > 0 /\ Net = applied - SumTaken /\ inventory' >= 0
        BY <1>2, <1>6, <1>11, <4>1
      <4>3. Sign(Net) = 1 /\ Size(Net) = Net
        BY <1>2, <4>2 DEF Sign, Size
      <4>4. new.qty \in Nat /\ new.qty <= Net
        BY <3>4, <4>3 DEF Records
      <4> QED BY <1>2, <1>3, <3>4, <4>2, <4>3, <4>4
    <3>9. due'
      BY <1>11
    <3> QED BY <1>1, <3>3, <3>4, <3>7, <3>8, <3>9, Corrects
  <2> QED BY <1>11, <2>1, <2>2 DEF DispatchCorrection
<1> QED BY <1>7, <1>9, <1>10, <1>11

-----------------------------------------------------------------------------
(* The invariant                                                           *)

LEMMA LedgerInvInit == ASSUME HedgeLedgerAssumption PROVE LedgerInit => LedgerInv
<1> SUFFICES ASSUME LedgerInit PROVE LedgerInv
  OBVIOUS
<1>1. NoAttempt \in Records /\ NoAttempt.dir = -1 /\ NoAttempt.state = "none" /\ NoAttempt.filled = 0
  BY DEF NoAttempt, Records
<1>2. LedgerTypeOK
  <2>1. att \in [Attempts -> Records]
    BY <1>1 DEF LedgerInit
  <2>2. wire \in [Attempts -> [st : {"none", "open", "over"}, filled : Nat]]
    BY DEF LedgerInit
  <2>3. due \in BOOLEAN /\ raced \in BOOLEAN
    BY Zenon DEF LedgerInit
  <2>4. /\ coverage \in Nat /\ applied \in Nat /\ cum \in Nat /\ applied <= coverage /\ coverage <= cum
        /\ inventory \in Int /\ tries \in 0 .. 2
        /\ admitted \in [Attempts -> {"none", "queued", "claimed", "cancelled"}]
        /\ answer \in [Attempts -> {"none", "notSent", "reject", "noMatch", "watch", "said"}]
    BY DEF LedgerInit
  <2> QED BY <2>1, <2>2, <2>3, <2>4 DEF LedgerTypeOK
<1>3. ASSUME NEW i \in Attempts PROVE Fits(i)
  <2>1. /\ att[i] = NoAttempt /\ admitted[i] = "none" /\ answer[i] = "none"
        /\ wire[i] = [st |-> "none", filled |-> 0]
    BY DEF LedgerInit
  <2>2. NoAttempt.qty = 0
    BY DEF NoAttempt
  <2> QED BY <1>1, <2>1, <2>2 DEF Fits, Lifecycle
<1>4. \A i \in Attempts : Booked[i] = 0 /\ Held[i] = 0
  BY <1>1 DEF LedgerInit, Booked, Held, Unresolved
<1>5. SumBooked = 0 /\ SumHeld = 0
  BY <1>4, AttemptsFinite, SumZero DEF SumBooked, SumHeld
<1>6. Balanced /\ Reserved /\ Late
  BY <1>1, <1>5 DEF LedgerInit, Balanced, Reserved, Late, SumBooked, SumHeld
<1> QED BY <1>2, <1>3, <1>6, InvParts

LEMMA LedgerInvNext == ASSUME HedgeLedgerAssumption PROVE LedgerInv /\ [LedgerNext]_ledgerVars => LedgerInv'
<1> SUFFICES ASSUME LedgerInv, [LedgerNext]_ledgerVars PROVE LedgerInv'
  OBVIOUS
<1>0. LedgerTypeOK
  BY InvParts
<1>1. CASE MakerOrderFills
  <2>1. LedgerTypeOK'
    BY <1>0, <1>1 DEF LedgerTypeOK, MakerOrderFills
  <2> QED BY <1>1, <2>1, NothingMoves DEF MakerOrderFills
<1>2. CASE MakerFill
  BY <1>2, MakerFillStep
<1>8. CASE UnpricedFill
  BY <1>8, UnpricedFillStep
<1>3. CASE PendingLimit
  <2>1. LedgerTypeOK'
    BY <1>0, <1>3 DEF LedgerTypeOK, PendingLimit
  <2> QED BY <1>3, <2>1, NothingMoves DEF PendingLimit
<1>4. CASE PositionsArrive
  <2>1. LedgerTypeOK'
    BY <1>0, <1>4 DEF LedgerTypeOK, PositionsArrive
  <2> QED BY <1>4, <2>1, NothingMoves DEF PositionsArrive
<1>5. CASE Recover
  BY <1>5, RecoverStep
<1>6. ASSUME NEW i \in Attempts,
             Refuse(i) \/ Execute(i) \/ Fills(i) \/ Progress(i) \/ Unknown(i) \/ Rejected(i) \/ Timeout(i)
      PROVE  LedgerInv'
  BY <1>6, RefuseStep, ExecuteStep, FillsStep, ProgressStep, UnknownStep, RejectedStep, TimeoutStep
<1>7. CASE UNCHANGED ledgerVars
  <2>1. LedgerTypeOK'
    BY <1>0, <1>7 DEF LedgerTypeOK, ledgerVars
  <2> QED BY <1>7, <2>1, NothingMoves DEF ledgerVars
<1> QED BY <1>1, <1>2, <1>3, <1>4, <1>5, <1>6, <1>7, <1>8 DEF LedgerNext

\* The inductive invariant of the hedge ledger: what the books say of every attempt fits its
\* ticket, its answer and the venue, and the books and the reservations add up.
THEOREM LedgerInvHolds == ASSUME HedgeLedgerAssumption PROVE LedgerSpec => []LedgerInv
<1>1. LedgerInit => LedgerInv
  BY LedgerInvInit
<1>2. LedgerInv /\ [LedgerNext]_ledgerVars => LedgerInv'
  BY LedgerInvNext
<1> QED BY <1>1, <1>2, PTL DEF LedgerSpec

-----------------------------------------------------------------------------
(* What it gives                                                           *)

\* The open exposure of the recorded maker fills is in the inventory or in an open attempt, but for
\* the fills recorded without a price.
LEMMA InvCovers == ASSUME HedgeLedgerAssumption, LedgerInv PROVE Covered
<1> DEFINE U == Unresolved(att)
           rest == [i \in Attempts |-> IF i \in U THEN Owing[i] ELSE 0]
<1>0. LedgerTypeOK /\ Balanced
  BY InvParts
<1>1. IsFiniteSet(Attempts) /\ U \in SUBSET Attempts
  BY AttemptsFinite DEF Unresolved
<1>3. ASSUME NEW i \in Attempts
      PROVE  /\ Booked[i] \in Int /\ rest[i] \in Int /\ (i \in U => Owing[i] \in Int)
             /\ SignedFills[i] = Booked[i] + rest[i]
  <2>1. att[i] \in Records /\ att[i].qty \in Nat /\ att[i].filled \in Nat /\ att[i].dir \in {-1, 1}
    BY <1>0 DEF LedgerTypeOK, Records
  <2>2. CASE i \in U
    <3>1. /\ Booked[i] = att[i].dir * att[i].qty /\ SignedFills[i] = att[i].dir * att[i].filled
          /\ rest[i] = -att[i].dir * (att[i].qty - att[i].filled)
          /\ Owing[i] = -att[i].dir * (att[i].qty - att[i].filled)
      BY <2>2 DEF Booked, SignedFills, Owing
    <3>2. CASE att[i].dir = 1
      BY <2>1, <3>1, <3>2
    <3>3. CASE att[i].dir = -1
      BY <2>1, <3>1, <3>3
    <3> QED BY <2>1, <3>2, <3>3
  <2>3. CASE i \notin U
    <3>1. Booked[i] = SignedFills[i] /\ rest[i] = 0
      BY <2>3 DEF Booked, SignedFills
    <3>2. SignedFills[i] \in Int
      BY <2>1, Products DEF SignedFills
    <3> QED BY <2>3, <3>1, <3>2
  <2> QED BY <2>2, <2>3
<1>4. \A i \in Attempts : rest[i] = IF i \in U THEN Owing[i] ELSE 0
  OBVIOUS
<1> HIDE DEF rest
<1>5. SumFunctionOnSet(SignedFills, Attempts) = SumBooked + SumFunctionOnSet(rest, Attempts)
  BY <1>1, <1>3, SumPlus DEF SumBooked
<1>6. SumFunctionOnSet(rest, Attempts) = SumFunctionOnSet(Owing, U)
  <2>1. \A i \in U : Owing[i] \in Int
    BY <1>1, <1>3
  <2> QED BY <1>1, <1>4, <2>1, SumRestrict
<1>7. SumBooked \in Int /\ SumFunctionOnSet(rest, Attempts) \in Int /\ applied \in Nat /\ inventory \in Int
  BY <1>0, <1>1, <1>3, SumTypes, SumType DEF LedgerTypeOK
<1>8. due \/ applied + SumBooked = inventory
  BY <1>0 DEF Balanced, SumBooked
<1>9. coverage \in Nat /\ Unpriced = coverage - applied
  BY <1>0 DEF LedgerTypeOK, Unpriced
<1>10. applied + SumBooked = inventory =>
         coverage + SumFunctionOnSet(SignedFills, Attempts)
           = inventory + SumFunctionOnSet(Owing, U) + Unpriced
  BY <1>5, <1>6, <1>7, <1>9
<1> QED BY <1>8, <1>10 DEF Covered

\* The orders that can still execute do not take more than the fills left open.
LEMMA InvReserves == ASSUME HedgeLedgerAssumption, LedgerInv PROVE NoOverHedge
<1> SUFFICES ASSUME ~raced PROVE TrueAster + TrueLighter >= SumFunctionOnSet(Open, Attempts)
  BY DEF NoOverHedge
<1> DEFINE A == {i \in Attempts : att[i].venue = "Aster"}
           L == {i \in Attempts : att[i].venue = "Lighter"}
           room == [i \in Attempts |-> Held[i] + Executed[i]]
<1>0. LedgerTypeOK /\ \A j \in Attempts : Fits(j)
  BY InvParts
<1>1. inventory >= 0 /\ applied >= SumHeld /\ \A j \in Attempts : att[j].dir = -1
  BY InvParts DEF Reserved, SumHeld
<1>2. IsFiniteSet(Attempts)
  BY AttemptsFinite
<1>3. ASSUME NEW i \in Attempts
      PROVE  /\ Executed[i] \in Int /\ Held[i] \in Int /\ Open[i] \in Int /\ room[i] \in Int
             /\ room[i] = Held[i] + Executed[i] /\ Open[i] <= room[i]
  <2>1. /\ att[i].dir = -1 /\ att[i].qty \in Nat /\ att[i].filled \in Nat /\ wire[i].filled \in Nat
        /\ att[i].state \in {"none", "flight", "unknown", "over", "gone"}
        /\ wire[i].filled <= att[i].qty
    BY <1>0, <1>1 DEF LedgerTypeOK, Records, Fits, Lifecycle
  <2>2. Executed[i] = -wire[i].filled
    BY <2>1 DEF Executed
  <2>3. Held[i] \in Nat
    BY <1>0, SumTypes
  <2>4. CASE admitted[i] = "queued" \/ wire[i].st = "open"
    <3>1. Open[i] = att[i].qty
      BY <2>1, <2>4 DEF Open
    <3>2. wire[i].filled = 0 /\ att[i].state \in {"flight", "unknown"}
      BY <1>0, <2>1, <2>4 DEF Fits, Lifecycle, LedgerTypeOK
    <3>3. Held[i] = att[i].qty
      BY <3>2 DEF Held, Unresolved
    <3> QED BY <2>1, <2>2, <3>1, <3>2, <3>3
  <2>5. CASE ~(admitted[i] = "queued" \/ wire[i].st = "open")
    <3>1. Open[i] = 0
      BY <2>5 DEF Open
    <3>2. wire[i].filled <= Held[i]
      <4>1. CASE i \in Unresolved(att) \/ (att[i].state = "over" /\ answer[i] # "said")
        BY <2>1, <4>1 DEF Held
      <4>2. CASE ~(i \in Unresolved(att) \/ (att[i].state = "over" /\ answer[i] # "said"))
        <5>1. Held[i] = att[i].filled /\ att[i].state \in {"none", "over", "gone"}
          BY <2>1, <4>2 DEF Held, Unresolved
        <5>2. att[i].filled = wire[i].filled
          BY <1>0, <5>1 DEF Fits, Lifecycle, NoAttempt
        <5> QED BY <2>1, <5>1, <5>2
      <4> QED BY <4>1, <4>2
    <3> QED BY <2>1, <2>2, <2>3, <3>1, <3>2
  <2> QED BY <2>4, <2>5
<1>4. TrueAster + TrueLighter = cum + SumFunctionOnSet(Executed, Attempts)
  <2>1. A \in SUBSET Attempts /\ L = Attempts \ A
    BY <1>0 DEF LedgerTypeOK, Records
  <2>2. IsFiniteSet(A) /\ IsFiniteSet(L)
    BY <1>2, <2>1, FS_Subset
  <2>3. SumFunctionOnSet(Executed, A) \in Int /\ SumFunctionOnSet(Executed, L) \in Int
    BY <1>3, <2>2, SumType
  <2>4. SumFunctionOnSet(Executed, Attempts) = SumFunctionOnSet(Executed, A) + SumFunctionOnSet(Executed, L)
    BY <1>2, <1>3, <2>1, SumSplit
  <2>5. TrueAster = cum + SumFunctionOnSet(Executed, A) /\ TrueLighter = SumFunctionOnSet(Executed, L)
    BY DEF TrueAster, TrueLighter
  <2>6. cum \in Nat
    BY <1>0 DEF LedgerTypeOK
  <2> HIDE DEF A, L
  <2> QED BY <2>3, <2>4, <2>5, <2>6
<1> HIDE DEF room
<1>5. SumFunctionOnSet(room, Attempts) = SumHeld + SumFunctionOnSet(Executed, Attempts)
  BY <1>2, <1>3, SumPlus DEF SumHeld
<1>6. SumFunctionOnSet(Open, Attempts) <= SumFunctionOnSet(room, Attempts)
  BY <1>2, <1>3, SumMonotone
<1>7. /\ SumHeld \in Int /\ SumFunctionOnSet(Executed, Attempts) \in Int
      /\ SumFunctionOnSet(Open, Attempts) \in Int /\ cum \in Nat /\ applied \in Nat /\ applied <= cum
  BY <1>0, <1>2, <1>3, SumTypes, SumType DEF LedgerTypeOK
<1> QED BY <1>1, <1>4, <1>5, <1>6, <1>7

\* Whatever order fills, answers, timeouts and snapshots come in: the exposure the recorded maker
\* fills left is in the books but for those without a price, an attempt is closed only on evidence, and no exposure is hedged twice.
THEOREM AccountedHolds == ASSUME HedgeLedgerAssumption PROVE LedgerSpec => []Accounted
<1>1. LedgerInv => Accounted
  BY InvCovers, InvReserves DEF LedgerInv, Accounted
<1> QED BY <1>1, LedgerInvHolds, PTL
=============================================================================
