------------------------------ MODULE MCSim8xx ------------------------------
(* Small instances of Sim8xx for TLC.                                      *)
EXTENDS Sim8xx, TLC

CONSTANTS system, gps

MCCallers == {system, gps}
Symmetry  == Permutations(MCCallers)
=============================================================================
