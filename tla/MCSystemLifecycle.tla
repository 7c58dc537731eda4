------------------------- MODULE MCSystemLifecycle -------------------------
(* SystemLifecycle on one System, with two workers or with one.            *)
EXTENDS SystemLifecycle, TLC

\* Sound where no liveness property is checked.
WorkerSymmetry == Permutations(Workers)
=============================================================================
