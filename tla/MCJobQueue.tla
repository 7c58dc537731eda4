---------------------------- MODULE MCJobQueue ----------------------------
(* Instances of JobQueue for TLC.  Jobs and workers are model values.        *)
EXTENDS JobQueue

CONSTANTS j1, j2, w1, w2

=============================================================================
