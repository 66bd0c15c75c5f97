------------------------------ MODULE MCReader ------------------------------
(* Instances of DepotReader for TLC. *)
EXTENDS DepotReader, TLC

Symmetric == Permutations(Content) \cup Permutations(Thread)
=============================================================================
