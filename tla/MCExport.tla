------------------------------ MODULE MCExport ------------------------------
(***************************************************************************)
(* Instances of Export for TLC: two workers and two jobs, the first an     *)
(* export's, the second of a type nobody has a handler for, so that two    *)
(* workers can hold one export while another job waits behind it.          *)
(***************************************************************************)
EXTENDS Export, TLC

TwoJobs == {1, 2}
OneJob == {1}

\* Workers are interchangeable: no operator orders them.
WorkerSymmetry == Permutations(Worker)
=============================================================================
