------------------------------ MODULE MCCohort ------------------------------
(***************************************************************************)
(* Cohort for TLC: the peers are alike.                                    *)
(***************************************************************************)
EXTENDS Cohort, TLC

PeersAlike == Permutations(Peers)
=============================================================================
