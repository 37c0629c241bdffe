-------------------------- MODULE MCOperationLease --------------------------
(***************************************************************************)
(* Three processes compete for one operation.  They are interchangeable,   *)
(* so permuting them is a symmetry of the specification and its properties. *)
(***************************************************************************)
EXTENDS OperationLease, TLC

CONSTANTS p1, p2, p3

Processes == {p1, p2, p3}
Symmetry == Permutations(Processes)
=============================================================================
