------------------------------- MODULE MCEngine -------------------------------
(* Small engines for TLC; see the configurations for the sizes. *)
EXTENDS Engine, TLC

(* Clients are only compared. *)
MCSymmetry == Permutations(Handles)
================================================================================
