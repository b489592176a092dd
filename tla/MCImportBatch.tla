---------------------------- MODULE MCImportBatch ----------------------------
(***************************************************************************)
(* Instances of ImportBatch for TLC: a workbook of two rows, the validate  *)
(* job and one commit job, or two when the commit button is pressed twice. *)
(***************************************************************************)
EXTENDS ImportBatch, TLC

TwoJobs == {1, 2}
ThreeJobs == {1, 2, 3}
TwoRows == {1, 2}
NoRows == {}

\* Workers are interchangeable: no operator orders them.
WorkerSymmetry == Permutations(Worker)
==============================================================================
