---------------------------- MODULE MCAsterNonce ----------------------------
(***************************************************************************)
(* Two processes, a clock of three times and a counter of five values, so  *)
(* that it also runs into its limit.                                       *)
(***************************************************************************)
EXTENDS AsterNonce

MCClock == {1, 3, 5}
=============================================================================
