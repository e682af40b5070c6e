----------------------------- MODULE AsterNonce -----------------------------
(***************************************************************************)
(* The nonce counter the bot's processes share for one Aster signer        *)
(* (livebot/exec/shared_nonce.rs): a file mapped by every process.  A       *)
(* process opens it under an exclusive file lock, sizes it and writes the  *)
(* header if it is new, and then draws nonces with a compare-and-swap on   *)
(* the mapped counter and no lock.                                         *)
(*                                                                         *)
(* Each step of open_at that touches the file is an action, so a process   *)
(* may stop between any two of them.  The mapping survives processes; loss *)
(* of the file itself is not modelled.                                     *)
(***************************************************************************)
EXTENDS Integers, Sequences

CONSTANTS
    Process,        \* the processes of one signer
    Clock,          \* microsecond times the system clock may show
    MaxLead,        \* MAX_CLOCK_LEAD_US
    MaxNonce,       \* i64::MAX
    Nobody          \* the holder of a free lock

ASSUME NonceAssumption ==
    /\ MaxNonce \in Nat /\ MaxLead \in Nat
    /\ Clock \subseteq 0..MaxNonce
    /\ Nobody \notin Process

VARIABLES
    sized,      \* the file has its full length
    header,     \* and its header says it is a nonce counter
    counter,    \* the mapped counter
    lock,       \* the holder of the file lock
    pc,         \* per process: where it is in open_at or next_at
    now,        \* per process: the time it read for the draw under way
    previous,   \* per process: the counter as it last saw it
    issued      \* history: every nonce taken, in the order of the swaps

fileVars == <<sized, header, counter, lock>>
localVars == <<now, previous>>
vars == <<fileVars, pc, localVars, issued>>

PCs == {"closed", "locking", "measuring", "sizing", "zeroing", "stamping", "checking", "unlocking",
        "ready", "drawing"}

Init ==
    /\ sized = FALSE /\ header = FALSE /\ counter = 0 /\ lock = Nobody
    /\ pc = [p \in Process |-> "closed"]
    /\ now = [p \in Process |-> 0]
    /\ previous = [p \in Process |-> 0]
    /\ issued = <<>>

Goto(p, from, to) == pc[p] = from /\ pc' = [pc EXCEPT ![p] = to]

-----------------------------------------------------------------------------
(* open_at                                                                 *)

Open(p) ==
    /\ Goto(p, "closed", "locking")
    /\ UNCHANGED <<fileVars, localVars, issued>>

\* Mutant of Lock: two processes initialize at once.
LockShared(p) ==
    /\ Goto(p, "locking", "measuring")
    /\ lock' = p
    /\ UNCHANGED <<sized, header, counter, localVars, issued>>

Lock(p) ==
    /\ Goto(p, "locking", "measuring")
    /\ lock = Nobody /\ lock' = p
    /\ UNCHANGED <<sized, header, counter, localVars, issued>>

Measure(p) ==
    /\ Goto(p, "measuring", IF sized THEN "checking" ELSE "sizing")
    /\ UNCHANGED <<fileVars, localVars, issued>>

\* Only a process that found the file empty sizes it and writes into it.
Size(p) ==
    /\ Goto(p, "sizing", "zeroing")
    /\ sized' = TRUE
    /\ UNCHANGED <<header, counter, lock, localVars, issued>>

Zero(p) ==
    /\ Goto(p, "zeroing", "stamping")
    /\ counter' = 0
    /\ UNCHANGED <<sized, header, lock, localVars, issued>>

Stamp(p) ==
    /\ Goto(p, "stamping", "unlocking")
    /\ header' = TRUE
    /\ UNCHANGED <<sized, counter, lock, localVars, issued>>

CheckHeader(p) ==
    /\ header
    /\ Goto(p, "checking", "unlocking")
    /\ UNCHANGED <<fileVars, localVars, issued>>

Unlock(p) ==
    /\ Goto(p, "unlocking", "ready")
    /\ lock' = Nobody
    /\ UNCHANGED <<sized, header, counter, localVars, issued>>

\* A step of open_at fails, the header is missing, or the process dies: the
\* file stays as it is and closing it releases the lock.
Abandon(p) ==
    /\ pc[p] # "closed"
    /\ pc' = [pc EXCEPT ![p] = "closed"]
    /\ lock' = IF lock = p THEN Nobody ELSE lock
    /\ UNCHANGED <<sized, header, counter, localVars, issued>>

-----------------------------------------------------------------------------
(* next_at                                                                 *)

\* The time is read once per draw, before the counter, and not again however
\* long the loop takes.
ReadClock(p) ==
    /\ Goto(p, "ready", "drawing")
    /\ \E t \in Clock : now' = [now EXCEPT ![p] = t]
    /\ previous' = [previous EXCEPT ![p] = counter]
    /\ UNCHANGED <<fileVars, issued>>

Candidate(p) == IF now[p] > previous[p] THEN now[p] ELSE previous[p] + 1

\* Mutant of Overflows: the addition is not checked.
NeverOverflows(p) == FALSE

Overflows(p) == previous[p] = MaxNonce

TooFarAhead(p) == Candidate(p) - now[p] > MaxLead

Refuse(p) ==
    /\ Overflows(p) \/ TooFarAhead(p)
    /\ Goto(p, "drawing", "ready")
    /\ UNCHANGED <<fileVars, localVars, issued>>

\* Mutant of Take: the candidate is stored over whatever the counter has become.
Store(p) ==
    /\ ~Overflows(p) /\ ~TooFarAhead(p)
    /\ Goto(p, "drawing", "ready")
    /\ counter' = Candidate(p)
    /\ issued' = Append(issued, Candidate(p))
    /\ UNCHANGED <<sized, header, lock, localVars>>

\* The swap succeeds: the counter is still what the process last saw.
Take(p) ==
    /\ ~Overflows(p) /\ ~TooFarAhead(p)
    /\ counter = previous[p]
    /\ Goto(p, "drawing", "ready")
    /\ counter' = Candidate(p)
    /\ issued' = Append(issued, Candidate(p))
    /\ UNCHANGED <<sized, header, lock, localVars>>

\* The swap fails, for a counter that moved or for no reason (the weak form).
Retry(p) ==
    /\ pc[p] = "drawing"
    /\ ~Overflows(p) /\ ~TooFarAhead(p)
    /\ previous' = [previous EXCEPT ![p] = counter]
    /\ UNCHANGED <<fileVars, pc, now, issued>>

-----------------------------------------------------------------------------

Step(p) ==
    \/ Open(p) \/ Lock(p) \/ Measure(p) \/ Size(p) \/ Zero(p) \/ Stamp(p)
    \/ CheckHeader(p) \/ Unlock(p) \/ Abandon(p)
    \/ ReadClock(p) \/ Refuse(p) \/ Take(p) \/ Retry(p)

Next == \E p \in Process : Step(p)

Spec == Init /\ [][Next]_vars

-----------------------------------------------------------------------------
(* Properties                                                              *)

\* The types of the state.
TypeOK ==
    /\ sized \in BOOLEAN /\ header \in BOOLEAN
    /\ counter \in 0..MaxNonce
    /\ lock \in Process \cup {Nobody}
    /\ pc \in [Process -> PCs]
    /\ now \in [Process -> Clock \cup {0}]
    /\ previous \in [Process -> 0..MaxNonce]
    /\ issued \in Seq(1..MaxNonce)

\* No nonce is ever taken twice, and each is larger than all taken before it,
\* by whichever process, through restarts and clocks that step back (the test
\* concurrent_processes_with_the_same_clock_never_repeat_a_nonce runs two
\* processes at one time; here they also stop anywhere in open_at).
Increasing == \A i, j \in 1..Len(issued) : i < j => issued[i] < issued[j]

\* The counter is a nonce dispenser: it moves only by handing out a larger
\* nonce.  In particular opening the file never sets it back.
Dispenser == INSTANCE NonceDispenser WITH last <- counter
DispenserSpec == Dispenser!Spec
=============================================================================
