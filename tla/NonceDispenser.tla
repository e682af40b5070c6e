--------------------------- MODULE NonceDispenser ---------------------------
(***************************************************************************)
(* What the shared Aster nonce counter promises the processes that sign    *)
(* for one account: nonces are handed out one at a time, each larger than  *)
(* every one before it, whoever asks.                                      *)
(***************************************************************************)
EXTENDS Integers

VARIABLE last   \* the latest nonce handed out, 0 before the first

Init == last = 0

Draw == last' \in Nat /\ last' > last

Spec == Init /\ [][Draw]_last
=============================================================================
