---------------------------- MODULE MCSignaling ----------------------------
(***************************************************************************)
(* Signaling for TLC: clients are interchangeable, so permuting them is    *)
(* sound for the safety runs.                                              *)
(***************************************************************************)
EXTENDS Signaling, TLC

ClientSymmetry == Permutations(Clients)
=============================================================================
