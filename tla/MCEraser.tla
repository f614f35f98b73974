------------------------------ MODULE MCEraser ------------------------------
(* EraserHistory on small instances. *)
EXTENDS EraserHistory, TLC

\* Locks are interchangeable: no action tells one from another.
LockSymmetry == Permutations(Lock)
=============================================================================
