------------------------------- MODULE MCFuse -------------------------------
(* Instances of FusePending for TLC: the sets are given in the cfg.  No      *)
(* symmetry, since the run has a liveness property.                         *)
EXTENDS FusePending
=============================================================================
