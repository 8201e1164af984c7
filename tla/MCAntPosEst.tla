---------------------------- MODULE MCAntPosEst ----------------------------
(***************************************************************************)
(* AntPosEst for TLC.  Satellites are interchangeable: every constant that *)
(* mentions one is all of SV or empty.                                     *)
(***************************************************************************)
EXTENDS AntPosEst, TLC

Symmetry == Permutations(SV)
=============================================================================
