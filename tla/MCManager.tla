----------------------------- MODULE MCManager ------------------------------
(***************************************************************************)
(* Instances of Manager for TLC.                                           *)
(***************************************************************************)
EXTENDS Manager, TLC

(* The actions treat goroutines and discriminators alike; the policy tells *)
(* keys apart.                                                             *)
Symmetry == Permutations(Procs) \cup Permutations(Discrs)
=============================================================================
