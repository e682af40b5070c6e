------------------------------ MODULE ColdJournal ------------------------------
(***************************************************************************)
(* The taker's ColdJournal (taker/pnl.rs): rows go through a bounded queue *)
(* to a thread that appends them to a file.  The engine appends without    *)
(* waiting before an execution sends its orders, and with a confirmation   *)
(* when it accounts for one; a failed write or a full queue closes the     *)
(* journal for the rest of the run.  Two files are kept so: the PnL        *)
(* ledger, confirmed row by row, which the next start reads and refuses if *)
(* a line is malformed, and the execution journal, which nothing reads.    *)
(***************************************************************************)
EXTENDS Integers, Sequences, SequencesExt

CONSTANTS
    Places,   \* JOURNAL_QUEUE_CAPACITY
    MaxRows   \* bound: rows offered, over all runs

ColdJournalAssumption == Places \in Nat \ {0} /\ MaxRows \in Nat

VARIABLES
    ledger,    \* the file is the PnL ledger
    engine,    \* "up", "stopping", "ended" (shutdown returned), or "down"
    offered,   \* the rows offered so far: the next row's number
    file,      \* the rows on disk, and lines that are none
    sound,     \* the journal's healthy flag
    commands,  \* the queue of the worker
    awaited,   \* the row whose confirmation the engine awaits, or 0
    clean,     \* shutdown returned Ok
    accepted,  \* history: the rows this run took
    confirmed, \* history: the rows ever confirmed
    lost       \* history: the worker has failed or skipped a row of this run

journalVars == <<ledger, engine, offered, file, sound, commands, awaited, clean, accepted, confirmed, lost>>

Torn == 0        \* a line that was only begun
Malformed == -1  \* a whole line that is no row
Row(n, ack) == [kind |-> "append", row |-> n, ack |-> ack]
Stop == [kind |-> "stop", row |-> 0, ack |-> FALSE]
Full == Len(commands) >= Places

WellFormed == {Torn, Malformed} \cap ToSet(file) = {}

Init ==
    /\ ledger \in BOOLEAN /\ engine = "down" /\ offered = 0 /\ file = <<>>
    /\ sound = TRUE /\ commands = <<>> /\ awaited = 0 /\ clean = FALSE
    /\ accepted = <<>> /\ confirmed = {} /\ lost = FALSE

\* PnlTracker::new reads the ledger before it opens the journal; a malformed line is an
\* error, and nothing starts.
RefuseStart ==
    /\ engine \in {"down", "ended"} /\ ledger /\ ~WellFormed
    /\ UNCHANGED journalVars

Start ==
    /\ engine \in {"down", "ended"} /\ (ledger => WellFormed)
    /\ engine' = "up" /\ sound' = TRUE /\ commands' = <<>> /\ awaited' = 0 /\ clean' = FALSE
    /\ accepted' = <<>> /\ lost' = FALSE
    /\ UNCHANGED <<ledger, offered, file, confirmed>>

-----------------------------------------------------------------------------
(* The engine                                                              *)

Offer == engine = "up" /\ awaited = 0 /\ offered < MaxRows /\ offered' = offered + 1

\* try_append, of the execution journal only: never waits; a full queue closes the journal.
TryAppend ==
    /\ Offer /\ ~ledger /\ sound
    /\ IF Full THEN sound' = FALSE /\ UNCHANGED <<commands, accepted>>
       ELSE /\ commands' = Append(commands, Row(offered', FALSE))
            /\ accepted' = Append(accepted, offered') /\ UNCHANGED sound
    /\ UNCHANGED <<ledger, engine, file, awaited, clean, confirmed, lost>>

\* append_confirmed waits for a place, and for the acknowledgement.
AppendConfirmed ==
    /\ Offer /\ ~Full
    /\ commands' = Append(commands, Row(offered', TRUE))
    /\ awaited' = offered'
    /\ UNCHANGED <<ledger, engine, file, sound, clean, accepted, confirmed, lost>>

\* shutdown waits for a place, and for the worker's acknowledgement.
Shutdown ==
    /\ engine = "up" /\ awaited = 0 /\ ~Full
    /\ engine' = "stopping" /\ commands' = Append(commands, Stop)
    /\ UNCHANGED <<ledger, offered, file, sound, awaited, clean, accepted, confirmed, lost>>

\* The five seconds run out, or the process dies.
Abandon ==
    /\ engine \in {"up", "stopping"} /\ engine' = "down"
    /\ commands' = <<>> /\ awaited' = 0
    /\ UNCHANGED <<ledger, offered, file, sound, clean, accepted, confirmed, lost>>

-----------------------------------------------------------------------------
(* The worker                                                              *)

\* After a failure the rows still in the queue are not written.
Writes == sound

\* What a write leaves: the whole row, nothing, or its beginning; an error may follow a
\* whole row (the sync, the unlock).  Behind a line that was only begun the row makes one
\* malformed line with it.
Begun == file # <<>> /\ Last(file) = Torn
Outcomes(n) ==
    LET whole == IF Begun THEN Append(Front(file), Malformed) ELSE Append(file, n)
        part == IF Begun THEN file ELSE Append(file, Torn)
    IN  {[file |-> whole, ok |-> ok] : ok \in BOOLEAN}
        \cup {[file |-> f, ok |-> FALSE] : f \in {file, part}}

Refused == [file |-> file, ok |-> FALSE]

Answer(command, ok) ==
    IF command.ack
    THEN /\ awaited' = 0
         /\ confirmed' = IF ok THEN confirmed \cup {command.row} ELSE confirmed
         /\ accepted' = IF ok THEN Append(accepted, command.row) ELSE accepted
    ELSE UNCHANGED <<awaited, confirmed, accepted>>

WriteRow ==
    /\ commands # <<>> /\ Head(commands).kind = "append"
    /\ \E outcome \in IF Writes THEN Outcomes(Head(commands).row) ELSE {Refused} :
        /\ file' = outcome.file
        /\ sound' = (sound /\ outcome.ok)
        /\ lost' = (lost \/ ~outcome.ok)
        /\ Answer(Head(commands), outcome.ok)
    /\ commands' = Tail(commands)
    /\ UNCHANGED <<ledger, engine, offered, clean>>

Drained ==
    /\ commands # <<>> /\ Head(commands).kind = "stop"
    /\ engine' = "ended" /\ clean' = sound
    /\ commands' = Tail(commands)
    /\ UNCHANGED <<ledger, offered, file, sound, awaited, accepted, confirmed, lost>>

Next ==
    \/ RefuseStart \/ Start \/ TryAppend \/ AppendConfirmed \/ Shutdown \/ Abandon
    \/ WriteRow \/ Drained

Spec == Init /\ [][Next]_journalVars

-----------------------------------------------------------------------------
(* Properties                                                              *)

\* A confirmed row of the ledger is on disk, and a whole line, whatever failed or was
\* restarted since.
ConfirmedStays == ledger => confirmed \subseteq ToSet(file)

\* A stop that drained has every row this run took on disk, in order; the execution
\* journal may miss the first, behind a line that an earlier run only began.
DrainedIsWritten ==
    clean => LET kept == SelectSeq(file, LAMBDA n : n \in ToSet(accepted))
             IN  \/ kept = accepted
                 \/ ~ledger /\ kept = Tail(accepted) /\ Malformed \in ToSet(file)

\* Nothing is taken after the worker has lost a row.
ClosedByLoss == [][lost /\ engine' = engine => Len(accepted') = Len(accepted)]_journalVars
=============================================================================
