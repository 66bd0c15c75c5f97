----------------------------- MODULE MCManifest -----------------------------
(* Instances of ManifestSync for TLC: two processes, called after the tray  *)
(* and the command line, or one with two threads.                          *)
EXTENDS ManifestInv, TLC

CONSTANTS ResidentOps, CliOps, resident

MCOps == [p \in Proc |-> IF p = resident THEN ResidentOps ELSE CliOps]

Symmetric == Permutations(Uid) \cup Permutations(Dir)
=============================================================================
