-------------------------------- MODULE MCTaker --------------------------------
(***************************************************************************)
(* What the bots trade from, one scenario each: the taker's session and    *)
(* its marker, the entry gate that admits its edges, the journal that      *)
(* records them, and the book cells that XEMM prices its orders from.  A   *)
(* scenario takes the steps of one model; the others stay as they start.   *)
(***************************************************************************)
EXTENDS TakerSession

\* the gate: three samples of two edges, rank two of three, one tick less than all of them live
Edges == {1, 2}
Floor == 1
Percent == 60
Window == 2
Interval == 1
MinSamples == 1
Capacity == 2
Shadow == FALSE
MaxTime == 4
MaxRecorded == 3

\* the journal: a queue that fills, over restarts
Places == 2
MaxRows == 5

\* the cells: two publications of any kind while one order is priced and claimed
MaxPublications == 2
MaxPricings == 1

VARIABLES
    scenario,
    \* EntryGate
    now, engine, history, torn, recorded, expiry, lower, upper, done, unpublished, queue, snapshot,
    healthy, sequence, prunePending, lastSampleAt, answer,
    \* ColdJournal
    ledger, owner, offered, file, sound, commands, awaited, clean, accepted, confirmed, lost,
    \* BookCell
    hotMath, cell, script, frame, dirty, permit, at, seen, quote, queued, claim, epoch, checked,
    published, priced

G == INSTANCE EntryGate
J == INSTANCE ColdJournal WITH engine <- owner
B == INSTANCE BookCell

ASSUME G!EntryGateAssumption
ASSUME J!ColdJournalAssumption

gateVars == <<now, engine, history, torn, recorded, expiry, lower, upper, done, unpublished, queue,
              snapshot, healthy, sequence, prunePending, lastSampleAt, answer>>
journalVars == <<ledger, owner, offered, file, sound, commands, awaited, clean, accepted, confirmed,
                 lost>>
cellVars == <<hotMath, cell, script, frame, dirty, permit, at, seen, quote, queued, claim, epoch,
              checked, published, priced>>

TInit ==
    /\ scenario \in {"session", "gate", "journal", "cells"}
    /\ Init /\ G!Init
    /\ J!Init /\ (scenario # "journal" => ledger)
    /\ B!Init /\ (scenario # "cells" => ~hotMath)

Session == scenario = "session" /\ Next /\ UNCHANGED <<scenario, gateVars, journalVars, cellVars>>
Gate == scenario = "gate" /\ G!Next /\ UNCHANGED <<scenario, vars, journalVars, cellVars>>
Journal == scenario = "journal" /\ J!Next /\ UNCHANGED <<scenario, vars, gateVars, cellVars>>
Cells == scenario = "cells" /\ B!Next /\ UNCHANGED <<scenario, vars, gateVars, journalVars>>

\* The cells' bounds are reached and every thread is idle.
CellsIdle ==
    /\ scenario = "cells" /\ published = MaxPublications /\ priced = MaxPricings
    /\ \A c \in B!Cells : script[c] = <<>>
    /\ at = <<>> /\ queued \notin {"queued", "claiming"}
    /\ UNCHANGED <<scenario, vars, gateVars, journalVars, cellVars>>

TNext == Session \/ Gate \/ Journal \/ Cells \/ CellsIdle

TSpec == TInit /\ [][TNext]_<<scenario, vars, gateVars, journalVars, cellVars>>

-----------------------------------------------------------------------------
\* EntryGate, ColdJournal: the gate admits an edge by the exact percentile of all samples of its
\* window, and the journal keeps what it took: a confirmed row stays readable, a drained stop
\* has every row on disk, and nothing is taken after a row was lost.
EntriesAreBacked ==
    [](G!AllowedAtPercentile /\ J!ConfirmedStays /\ J!DrainedIsWritten) /\ J!ClosedByLoss

\* BookCell: a maker order is sent only when both venues showed the books it was priced from at one
\* instant after the worker took it up and no integer book was ahead of them, and the strategy
\* never sleeps through a finished publication.
CellsArePriced == B!PricedFromOneInstant /\ B!NoneAhead /\ []B!NoneSleptThrough
=============================================================================
