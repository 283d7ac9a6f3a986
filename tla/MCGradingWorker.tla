-------------------------- MODULE MCGradingWorker --------------------------
(***************************************************************************)
(* GradingWorker with the values and symmetries its TLC runs use.          *)
(***************************************************************************)
EXTENDS GradingWorker, TLC

WorkerSymmetry == Permutations(Worker)

=============================================================================
