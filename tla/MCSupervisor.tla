----------------------------- MODULE MCSupervisor -----------------------------
(* The supervisor on small instances. *)
EXTENDS Supervisor, MCReports
=============================================================================
