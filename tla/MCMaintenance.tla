-------------------------- MODULE MCMaintenance --------------------------
(* Small instances of Maintenance: callers are model values. *)
EXTENDS Maintenance, TLC

CONSTANTS c1, c2

\* Callers are interchangeable.
Symmetric == Permutations(Callers)
=============================================================================
