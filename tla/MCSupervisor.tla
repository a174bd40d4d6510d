---------------------------- MODULE MCSupervisor ----------------------------
EXTENDS Supervisor, TLC
CONSTANTS c1, c2
Symmetry == Permutations(Clients)
=============================================================================
