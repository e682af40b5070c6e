---------------------------- MODULE RealizedTrades ----------------------------
(***************************************************************************)
(* The realized-PnL stop of controller/risk.rs: the taker's ledger tailed  *)
(* by offset while engines append to it and an operator trims it, and      *)
(* XEMM's journal summarized again whenever it changed.                    *)
(*                                                                         *)
(* A ledger row is two cells of the file, its text and its newline, so     *)
(* that a write can be seen half done.  The file and the journal change    *)
(* between the metadata call and the read of a poll.                       *)
(***************************************************************************)
EXTENDS Integers, Sequences, FiniteSets, FiniteSetsExt, Functions

CONSTANTS
    Rows,          \* the ledger rows engines may write: [key, old, impact]
    Trades,        \* XEMM's logical trades
    XemmImpacts,   \* what a summary may say of a trade
    MaxCells,      \* bound: cells in the ledger file
    MaxSize,       \* bound: changes of the journal
    MaxTrims,      \* bound: times the ledger is trimmed
    NoTrade        \* no impact, no summary

ImpactIn == [v2 : BOOLEAN, confirmed : BOOLEAN, gross : Int, fees : Int, net : Int]

\* What is booked of a trade: whether its net is known, what it counts, and its net.
Booked == [known : BOOLEAN, risk : Int, net : Int]

\* A taker's key ("taker:...") is no trade of XEMM's ("xemm:...").
ASSUME RealizedAssumption ==
    /\ IsFiniteSet(Rows) /\ IsFiniteSet(Trades)
    /\ \A r \in Rows : r.impact \in ImpactIn /\ r.old \in BOOLEAN /\ r.key \notin Trades
    /\ XemmImpacts \subseteq ImpactIn
    /\ NoTrade \notin ImpactIn \cup Booked
    /\ {MaxCells, MaxSize, MaxTrims} \subseteq Nat

VARIABLES
    ledger,    \* the cells of trades_<M>.jsonl
    journal,   \* XEMM's journal: its size and what it says of each trade
    stage,     \* between polls; after the ledger's metadata; after the journal's
    offset, rows, totals, journalSeen,   \* RealizedTrades
    stat,      \* the journal's metadata, read before it is summarized
    \* history
    duty,      \* the keys this poll has to book
    trims

tradeVars == <<ledger, journal, stage, offset, rows, totals, journalSeen, stat, duty, trims>>

Text(r)    == [row |-> r, part |-> "text"]
Newline(r) == [row |-> r, part |-> "newline"]
Keys       == {r.key : r \in Rows} \cup Trades

-----------------------------------------------------------------------------
(* Impact and Totals                                                       *)

Least(a, b) == IF a <= b THEN a ELSE b

\* Impact::new: a net is known when confirmed and equal to gross less fees; else
\* only a loss counts.
Impact(i) ==
    LET known == i.v2 /\ i.confirmed /\ i.gross - i.fees = i.net
    IN  [known |-> known,
         risk |-> IF known THEN i.net ELSE Least(i.net, 0),
         net |-> IF known THEN i.net ELSE 0]

NoTotals == [trades |-> 0, incomplete |-> 0, wins |-> 0, risk |-> 0, net |-> 0]

\* Totals::adjust
Adjust(t, i, sign) ==
    [trades |-> t.trades + sign,
     incomplete |-> t.incomplete + (IF i.known THEN 0 ELSE sign),
     wins |-> t.wins + (IF i.known /\ i.net > 0 THEN sign ELSE 0),
     risk |-> t.risk + sign * i.risk,
     net |-> t.net + sign * i.net]

\* RealizedTrades::book on a book [rows, totals]: one current record per key.
Book(b, key, i) ==
    [rows |-> [b.rows EXCEPT ![key] = i],
     totals |-> Adjust(IF b.rows[key] = NoTrade THEN b.totals
                       ELSE Adjust(b.totals, b.rows[key], -1), i, 1)]

\* Mutant of Rebook: a summary is added to the one it replaces.
BookAgain(b, key, i) ==
    [rows |-> [b.rows EXCEPT ![key] = i], totals |-> Adjust(b.totals, i, 1)]

Rebook(b, key, i) == Book(b, key, i)

\* book_taker: the first record of a key, unless it is older than the start.
BookRow(b, r) ==
    IF b.rows[r.key] # NoTrade \/ r.old THEN b ELSE Book(b, r.key, Impact(r.impact))

\* Every trade a summary tells of.
BookTold(b, says) ==
    FoldSet(LAMBDA t, c : Rebook(c, t, Impact(says[t])), b, {t \in Trades : says[t] # NoTrade})

-----------------------------------------------------------------------------
(* Reading the ledger                                                      *)

\* The ends of the complete lines at or after offset.
LineEnds(file, from) == {n \in (from + 1)..Len(file) : file[n].part = "newline"}

\* The new offset: past the last complete line.
Consumed(file, from) ==
    IF LineEnds(file, from) = {} THEN from ELSE Max(LineEnds(file, from))

\* The first cell of the line that ends at n.
Begin(file, from, n) == Max({from} \cup {m \in LineEnds(file, from) : m < n}) + 1

\* The lines read_line and the parser accept: complete, and one row.
Parsed(file, from) ==
    {n \in LineEnds(file, from) :
        SubSeq(file, Begin(file, from, n), n) = <<Text(file[n].row), Newline(file[n].row)>>}

\* They are booked in the order of the file.
BookLines(b, file, from) ==
    MapThenFoldSet(LAMBDA r, c : BookRow(c, r), b, LAMBDA n : file[n].row, Max, Parsed(file, from))

TradesInit ==
    /\ ledger \in {<<>>} \cup {<<Text(r), Newline(r)>> : r \in {q \in Rows : q.old}}
    /\ journal = [size |-> 0, says |-> [t \in Trades |-> NoTrade]]
    /\ stage = "idle"
    /\ offset = Len(ledger)                      \* prime
    /\ rows = [k \in Keys |-> NoTrade] /\ totals = NoTotals
    /\ journalSeen = -1 /\ stat = -1
    /\ duty = {} /\ trims = 0

\* A file shorter than the offset was trimmed and is read from the start.
StartFrom(length) == IF length < offset THEN 0 ELSE offset

\* read_taker_rows, the metadata.
Stat ==
    /\ stage = "idle" /\ stage' = "ledger"
    /\ offset' = StartFrom(Len(ledger))
    /\ duty' = {ledger[n].row.key : n \in {m \in LineEnds(ledger, 0) : ~ledger[m].row.old}}
    /\ UNCHANGED <<ledger, journal, rows, totals, journalSeen, stat, trims>>

\* The read: complete lines are booked and consumed.  It does not fail half way.
ReadLedger ==
    LET booked == BookLines([rows |-> rows, totals |-> totals], ledger, offset)
    IN  /\ stage = "ledger" /\ stage' = "journal"
        /\ rows' = booked.rows /\ totals' = booked.totals
        /\ offset' = Consumed(ledger, offset)
        /\ stat' = journal.size
        /\ UNCHANGED <<ledger, journal, journalSeen, duty, trims>>

\* poll_xemm remembers the metadata it read before the summary.
Seen == stat

\* poll_xemm on a changed journal: every trade's record is replaced.
Summarize ==
    LET booked == BookTold([rows |-> rows, totals |-> totals], journal.says)
    IN  /\ stage = "journal" /\ stat # journalSeen
        /\ rows' = booked.rows /\ totals' = booked.totals
        /\ journalSeen' = Seen
        /\ stage' = "idle"
        /\ UNCHANGED <<ledger, journal, offset, stat, duty, trims>>

\* An unchanged journal, or one whose summary failed, which is tried again.
SkipSummary ==
    /\ stage = "journal" /\ stage' = "idle"
    /\ UNCHANGED <<ledger, journal, offset, rows, totals, journalSeen, stat, duty, trims>>

\* An engine appends: the text of a row, then its newline (one locked write).
AppendText(r) ==
    /\ ~r.old /\ Len(ledger) < MaxCells
    /\ ledger # <<>> => ledger[Len(ledger)].part = "newline"
    \* a trimmed file does not grow past the offset before the next poll
    /\ trims > 0 => Len(ledger) + 2 < offset \/ Len(ledger) >= offset
    /\ ledger' = Append(ledger, Text(r))
    /\ UNCHANGED <<journal, stage, offset, rows, totals, journalSeen, stat, duty, trims>>

AppendNewline ==
    /\ ledger # <<>> /\ ledger[Len(ledger)].part = "text"
    /\ ledger' = Append(ledger, Newline(ledger[Len(ledger)].row))
    /\ UNCHANGED <<journal, stage, offset, rows, totals, journalSeen, stat, duty, trims>>

\* An operator trims or rotates a ledger that was read: its first n cells go, whole lines.
Trim(n) ==
    /\ trims < MaxTrims /\ stage = "idle"
    /\ offset = Len(ledger) /\ n <= Len(ledger) /\ ledger[n].part = "newline"
    /\ ledger' = SubSeq(ledger, n + 1, Len(ledger))
    /\ trims' = trims + 1
    /\ UNCHANGED <<journal, stage, offset, rows, totals, journalSeen, stat, duty>>

\* XEMM's journal grows, and says something else of a trade.
Journal(t, i) ==
    /\ journal.size < MaxSize
    /\ journal' = [size |-> journal.size + 1, says |-> [journal.says EXCEPT ![t] = i]]
    /\ UNCHANGED <<ledger, stage, offset, rows, totals, journalSeen, stat, duty, trims>>

TradesNext ==
    \/ Stat \/ ReadLedger \/ Summarize \/ SkipSummary
    \/ \E r \in Rows : AppendText(r)
    \/ AppendNewline
    \/ \E n \in 1..MaxCells : Trim(n)
    \/ \E t \in Trades, i \in XemmImpacts : Journal(t, i)

TradesSpec == TradesInit /\ [][TradesNext]_tradeVars

-----------------------------------------------------------------------------
(* Properties                                                              *)

RecordsIn(book) == {k \in Keys : book[k] # NoTrade}

Records == RecordsIn(rows)

TradesTypeOK ==
    /\ ledger \in Seq([row : Rows, part : {"text", "newline"}])
    /\ journal \in [size : Nat, says : [Trades -> XemmImpacts \cup {NoTrade}]]
    /\ stage \in {"idle", "ledger", "journal"}
    /\ offset \in Nat /\ trims \in Nat
    /\ rows \in [Keys -> Booked \cup {NoTrade}]
    /\ journalSeen \in Int /\ stat \in Int
    /\ duty \subseteq Keys

\* What one record per trade adds up to.
SumsOf(book) ==
    LET told == RecordsIn(book)
    IN  [trades |-> Cardinality(told),
         incomplete |-> Cardinality({k \in told : ~book[k].known}),
         wins |-> Cardinality({k \in told : book[k].known /\ book[k].net > 0}),
         risk |-> SumFunctionOnSet([k \in told |-> book[k].risk], told),
         net |-> SumFunctionOnSet([k \in told |-> book[k].net], told)]

\* The totals the stop and the reports read are the sums over one record per
\* trade, however often a trade was read, re-read or summarized again.
TotalsAreSums == totals = SumsOf(rows)

\* What the stop counts is never better than what is known to be true.
Conservative == totals.risk <= totals.net

\* Every row complete in the ledger when a poll measured it is booked when the
\* poll has read, whatever was torn, trimmed or read before; and what is booked
\* of a row's key is what a row written since the start says of it.
NoRowMissed ==
    /\ stage = "journal" => duty \subseteq Records
    /\ \A k \in Records \ Trades : \E r \in Rows : ~r.old /\ r.key = k /\ rows[k] = Impact(r.impact)

\* A journal taken as summarized says what is booked of every trade: a change
\* between its metadata and its summary is looked at again.
NoChangeMissed ==
    journalSeen = journal.size =>
        \A t \in Trades : journal.says[t] # NoTrade => rows[t] = Impact(journal.says[t])

\* One record per trade, no row or change missed, and nothing counted better than
\* it is known to be.
BooksAreTrue == TotalsAreSums /\ Conservative /\ NoRowMissed /\ NoChangeMissed

-----------------------------------------------------------------------------
(* Why they are: an inductive invariant                                    *)

\* The file holds whole lines, the last perhaps without its newline.
Lines ==
    \A n \in 1..Len(ledger) :
        /\ ledger[n].part = "newline" => n > 1 /\ ledger[n - 1] = Text(ledger[n].row)
        /\ ledger[n].part = "text" => n = Len(ledger) \/ ledger[n + 1] = Newline(ledger[n].row)

\* The offset is the end of a line, and every line up to it is booked or old; or
\* the file was trimmed below it, and is still shorter when its next line ends.
Tailed ==
    /\ offset <= Len(ledger) =>
        /\ offset > 0 => ledger[offset].part = "newline"
        /\ \A n \in 1..offset :
             ledger[n].part = "newline" => ledger[n].row.old \/ ledger[n].row.key \in Records
    /\ offset > Len(ledger) =>
        /\ trims > 0 /\ stage # "ledger"
        /\ ledger # <<>> /\ ledger[Len(ledger)].part = "text" => Len(ledger) + 1 < offset

\* What a poll has to book is in the file it reads.
Owed ==
    stage = "ledger" =>
        \A k \in duty : \E n \in 1..Len(ledger) :
            ledger[n].part = "newline" /\ ~ledger[n].row.old /\ ledger[n].row.key = k

\* No record counts more than its net, and no metadata is of a later journal.
Cautious == \A k \in Records : rows[k].risk <= rows[k].net
JournalDated == journalSeen <= journal.size /\ stat <= journal.size

TradesInv ==
    /\ TradesTypeOK /\ Lines /\ Tailed /\ Owed /\ Cautious /\ JournalDated
    /\ TotalsAreSums /\ NoRowMissed /\ NoChangeMissed
===============================================================================
