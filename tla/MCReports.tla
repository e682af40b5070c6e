------------------------------- MODULE MCReports -------------------------------
(* The reports the supervisor reads: one per case decide() tells apart. *)

Report(available, position) ==
    [required |-> 0, opportunities |-> {}, clip |-> 1, headroom |-> 9,
     available |-> available, buffer |-> 0, position |-> position]

\* Below the switch clips; above the resume clips; near flat.
Blocked == Report(1, 5)
Ready   == Report(3, 5)
Flat    == Report(3, 1)

MCTakerReports == {Blocked, Ready, Flat}

ReduceOnly   == [position |-> 5, clip |-> 1, reduceOnly |-> TRUE]
MayOpen      == [position |-> 5, clip |-> 1, reduceOnly |-> FALSE]
MCXemmReports == {ReduceOnly, MayOpen}
=============================================================================
