---------------------------- MODULE MCConfirmWindow ----------------------------
(***************************************************************************)
(* The supervisor with crashes, leases that can be extended and the        *)
(* confirm windows' history, on MCReports; and the same with every         *)
(* readable report counted.                                                *)
(***************************************************************************)
EXTENDS ConfirmWindow, MCReports
=============================================================================
