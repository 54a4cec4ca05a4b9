---------------------------- MODULE MCCoordinator ----------------------------
(* Small instances of Coordinator for TLC.                                 *)
EXTENDS Coordinator, TLC

\* Requests are interchangeable goroutines.
Symmetry == Permutations(Req)
=============================================================================
