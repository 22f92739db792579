------------------------------ MODULE MCDevices ------------------------------
(* Symmetry of the instances TLC checks.                                      *)
EXTENDS Devices, TLC

Symmetry == Permutations(Workers)

==============================================================================
