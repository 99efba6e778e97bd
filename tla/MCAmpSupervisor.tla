--------------------------- MODULE MCAmpSupervisor ---------------------------
(* A small instance of AmpSupervisor for TLC. *)
EXTENDS AmpSupervisor, TLC

CONSTANTS A, B

MCChannel == {A, B}
Symmetry == Permutations(MCChannel)
=============================================================================
