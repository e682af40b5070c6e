-------------------------- MODULE ExecutionEconomics --------------------------
(***************************************************************************)
(* live_report.rs: what one logical trade of XEMM's journal earned, from   *)
(* rows that arrive in any order and more than once.  The realized-PnL     *)
(* stop books this number (RealizedTrades).                                *)
(*                                                                         *)
(* A fill row carries one venue trade; a progress row the cumulative state *)
(* of one order attempt, which covers trades nobody reported; an           *)
(* unidentified row a trade without an identity.  Of several rows of one   *)
(* trade, or of one attempt and quantity, the last is the one that counts: *)
(* fee, quote and end depend on their order.  Prices are multiples of an   *)
(* integer every average divides, so that \div is exact.                   *)
(***************************************************************************)
EXTENDS Integers, Sequences, FiniteSets, FiniteSetsExt, SequencesExt, Functions, TLC

CONSTANTS
    JournalRows,  \* the rows that may be written
    MaxRows,      \* bound: rows in the journal
    Unknown       \* an amount that was not reported

Venues == {"aster", "lighter"}
Kinds  == {"fill", "progress", "unidentified"}

EconomicsAssumption ==
    /\ MaxRows \in Nat
    /\ \A r \in JournalRows :
         r.kind \in Kinds /\ r.venue \in Venues /\ r.side \in {1, -1} /\ r.qty \in Nat

VARIABLES
    journal,  \* the rows written so far
    group     \* Group: fills by identity, progress by attempt, unidentified rows

vars == <<journal, group>>

-----------------------------------------------------------------------------
(* summarize: a row enters its group                                       *)

Known(amount) == amount # Unknown

\* parse_fill: a trade is known by its venue and its trade id.
Identity(row, ordinal) == <<row.venue, row.id>>

Put(map, key, value) == [k \in DOMAIN map \cup {key} |-> IF k = key THEN value ELSE map[k]]

\* A fill replaces the one of its identity, at the place of the first.
AddFill(g, row, ordinal) ==
    LET i  == Identity(row, ordinal)
        at == IF i \in DOMAIN g.fills THEN g.fills[i].ordinal ELSE ordinal
    IN  [g EXCEPT !.fills = Put(@, i, [row |-> row, ordinal |-> at])]

\* Progress is cumulative: a smaller quantity is older; an equal one keeps its
\* place in time.
AddProgress(g, row, ordinal) ==
    LET seen == row.attempt \in DOMAIN g.progress
        old  == g.progress[row.attempt]
        at   == IF seen /\ old.row.qty = row.qty THEN old.ordinal ELSE ordinal
    IN  IF seen /\ row.qty < old.row.qty THEN g
        ELSE [g EXCEPT !.progress = Put(@, row.attempt, [row |-> row, ordinal |-> at])]

AddRow(g, row, ordinal) ==
    CASE row.kind = "fill"         -> AddFill(g, row, ordinal)
      [] row.kind = "progress"     -> AddProgress(g, row, ordinal)
      [] row.kind = "unidentified" -> [g EXCEPT !.unidentified = @ \cup {row}]

Fills(g) == {g.fills[i] : i \in DOMAIN g.fills}

-----------------------------------------------------------------------------
(* coverage: what an attempt's trades do not cover of its progress         *)

SumOf(fs, Amount(_)) ==
    IF \E f \in fs : ~Known(Amount(f.row)) THEN Unknown
    ELSE MapThenSumSet(LAMBDA f : Amount(f.row), fs)
Less(total, part) == IF Known(total) /\ Known(part) THEN total - part ELSE Unknown

\* The rest of an attempt, at the quote and the fee that remain.
Uncovered(p, covered) ==
    [row |-> [p.row EXCEPT !.kind = "fill",
                           !.qty = @ - SumOf(covered, LAMBDA r : r.qty),
                           !.quote = Less(@, SumOf(covered, LAMBDA r : r.quote)),
                           !.fee = Less(@, SumOf(covered, LAMBDA r : r.fee))],
     ordinal |-> p.ordinal]

CoveredBy(fills, p) == {f \in fills : f.row.attempt = p.row.attempt /\ f.row.venue = p.row.venue}

\* The rest of every attempt that has one; a rest without a positive quote is
\* malformed.
Rests(g) ==
    LET fills == Fills(g)
    IN  {Uncovered(p, CoveredBy(fills, p)) :
            p \in {q \in {g.progress[a] : a \in DOMAIN g.progress} :
                     q.row.qty > SumOf(CoveredBy(fills, q), LAMBDA r : r.qty)}}
Malformed(f) == Known(f.row.quote) /\ f.row.quote <= 0

Coverage(g) == Fills(g) \cup {f \in Rests(g) : ~Malformed(f)}

-----------------------------------------------------------------------------
(* apply and calculate                                                     *)

NoPosition == [qty |-> 0, average |-> 0, realized |-> 0, volume |-> 0, fee |-> 0,
               priced |-> TRUE, feeKnown |-> TRUE]

Magnitude(n) == IF n < 0 THEN -n ELSE n
SameSign(m, n) == (m > 0) = (n > 0)

\* A fill in the direction of the position.
Opened(p, r) ==
    [p EXCEPT !.average = (Magnitude(p.qty) * @ + r.quote) \div (Magnitude(p.qty) + r.qty)]

\* Mutant of Closed: a fill that crosses zero closes its whole quantity.
ClosedWhole(p, r) ==
    LET pnl == r.qty * ((r.quote \div r.qty) - p.average)
    IN  [p EXCEPT !.realized = @ + (IF p.qty > 0 THEN pnl ELSE -pnl),
                  !.average = IF p.qty + r.side * r.qty = 0 THEN 0
                              ELSE IF SameSign(p.qty + r.side * r.qty, p.qty) THEN @
                              ELSE r.quote \div r.qty]

\* A fill against it: what it closes is realized, what crosses zero opens.
Closed(p, r) ==
    LET closed == Min({Magnitude(p.qty), r.qty})
        pnl    == closed * ((r.quote \div r.qty) - p.average)
        qty    == p.qty + r.side * r.qty
    IN  [p EXCEPT !.realized = @ + (IF p.qty > 0 THEN pnl ELSE -pnl),
                  !.average = IF qty = 0 THEN 0 ELSE IF SameSign(qty, p.qty) THEN @
                              ELSE r.quote \div r.qty]

ApplyFill(p, f) ==
    LET r == f.row
        valued == IF ~Known(r.quote) THEN [p EXCEPT !.priced = FALSE]
                  ELSE IF p.qty = 0 \/ SameSign(p.qty, r.side) THEN Opened(p, r)
                  ELSE Closed(p, r)
    IN  [valued EXCEPT !.qty = @ + r.side * r.qty, !.volume = @ + r.qty,
                       !.fee = @ + (IF Known(r.fee) THEN r.fee ELSE 0),
                       !.feeKnown = @ /\ Known(r.fee)]

\* The fills of a venue, in the order of the journal.
Position(coverage, venue) ==
    LET after[n \in 0..MaxRows] ==
            IF n = 0 THEN NoPosition
            ELSE FoldSet(LAMBDA f, p : ApplyFill(p, f), after[n - 1],
                         {f \in coverage : f.ordinal = n /\ f.row.venue = venue})
    IN  after[MaxRows]

\* An unidentified trade hides something unless its attempt ended with at least
\* that quantity.
Hidden(g) ==
    {u \in g.unidentified :
        ~ /\ u.attempt \in DOMAIN g.progress
          /\ g.progress[u.attempt].row.terminal
          /\ g.progress[u.attempt].row.qty >= u.qty}

NetKnown(g, aster, lighter) ==
    /\ aster.priced /\ lighter.priced /\ aster.feeKnown /\ lighter.feeKnown
    /\ Hidden(g) = {}

\* calculate: realized closes, the spread of opposite remainders, less fees.
Summary(g) ==
    LET coverage == Coverage(g)
        aster    == Position(coverage, "aster")
        lighter  == Position(coverage, "lighter")
        opposite == aster.qty * lighter.qty < 0
        matched  == IF opposite THEN Min({Magnitude(aster.qty), Magnitude(lighter.qty)}) ELSE 0
        pnl      == matched * (lighter.average - aster.average)
        spread   == IF aster.qty > 0 THEN pnl ELSE -pnl
    IN  [gross |-> aster.realized + lighter.realized + spread,
         fees |-> aster.fee + lighter.fee,
         priced |-> aster.priced /\ lighter.priced,
         confirmed |-> NetKnown(g, aster, lighter),
         residual |-> aster.qty + lighter.qty,
         volume |-> ("aster" :> aster.volume @@ "lighter" :> lighter.volume)]

-----------------------------------------------------------------------------
Init ==
    /\ journal = <<>>
    /\ group = [fills |-> <<>>, progress |-> <<>>, unidentified |-> {}]

\* The journal only grows; the same trade may be written again.
Write(r) ==
    /\ Len(journal) < MaxRows
    /\ journal' = Append(journal, r)
    /\ group' = AddRow(group, r, Len(journal) + 1)

Next == \E r \in JournalRows : Write(r)

Spec == Init /\ [][Next]_vars

-----------------------------------------------------------------------------
(* Properties                                                              *)

Cash == -MapThenSumSet(LAMBDA f : f.row.side * f.row.quote, Coverage(group))

\* Every fill and every attempt has a place in the journal.
TypeOK ==
    /\ Range(journal) \subseteq JournalRows /\ Len(journal) <= MaxRows
    /\ \A a \in DOMAIN group.progress : group.progress[a].ordinal \in 1..Len(journal)
    /\ \A i \in DOMAIN group.fills : group.fills[i].ordinal \in 1..Len(journal)

\* The gross of a trade with nothing left open is the cash it moved: whatever
\* the order of opens, closes and crossings on the two venues, realized closes
\* and matched spread add up to sales less purchases.
GrossIsCash ==
    LET s == Summary(group)
    IN  s.priced /\ s.residual = 0 => s.gross = Cash

\* What a row is a report of, and whether it is the last such report of the journal.
Subject(r) ==
    CASE r.kind = "fill"         -> Identity(r, 0)
      [] r.kind = "progress"     -> <<r.attempt, r.qty>>
      [] r.kind = "unidentified" -> r

Stands(r) == r = Last(SelectSeq(journal, LAMBDA q : q.kind = r.kind /\ Subject(q) = Subject(r)))

\* The progress row that says what became of an attempt: the last of the largest quantity.
Latest(attempt) ==
    {r \in Range(journal) :
        /\ r.kind = "progress" /\ r.attempt = attempt /\ Stands(r)
        /\ \A q \in Range(journal) : q.kind = "progress" /\ q.attempt = attempt => q.qty <= r.qty}

\* Nothing is counted twice and nothing reported is left out: an attempt counts
\* for the larger of its trades and its largest progress, in the raw journal.
Reported(v) ==
    LET rows == {r \in Range(journal) : r.venue = v}
        Traded(a) == MapThenSumSet(LAMBDA r : r.qty, {r \in rows : r.kind = "fill" /\ r.attempt = a /\ Stands(r)})
        Largest(a) == Max({0} \cup {r.qty : r \in {q \in rows : q.kind = "progress" /\ q.attempt = a}})
    IN  MapThenSumSet(LAMBDA a : Max({Traded(a), Largest(a)}), {r.attempt : r \in rows})

VolumeIsCovered ==
    (\A f \in Rests(group) : ~Malformed(f)) =>
        \A v \in Venues : Summary(group).volume[v] = Reported(v)

\* A row that comes again changes nothing, however many of other trades and attempts came between:
\* unless another report of the same took its place, which it then takes back.
RepeatsChangeNothing ==
    [][journal' # journal /\ Last(journal') \in Range(journal) /\ Stands(Last(journal'))
        => Summary(group') = Summary(group)]_vars

\* A net is confirmed only on full evidence: every fill priced, every fee
\* reported, every unidentified trade inside an attempt that ended.  What the last rows say counts:
\* evidence that a later row of the same quantity took back confirms nothing.
ConfirmedIsComplete ==
    Summary(group).confirmed =>
        /\ \A f \in Coverage(group) : Known(f.row.quote) /\ Known(f.row.fee)
        /\ \A r \in Range(journal) : r.kind = "fill" /\ Stands(r) => Known(r.quote) /\ Known(r.fee)
        /\ \A r \in Range(journal) : r.kind = "unidentified" =>
              \E p \in Latest(r.attempt) : p.terminal /\ p.qty >= r.qty
===============================================================================
