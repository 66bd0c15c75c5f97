------------------------------ MODULE MCBatch ------------------------------
(* Instances of VaultBatch for TLC: a thread that adds folders, one that    *)
(* adds single files, and one that removes.                                *)
EXTENDS VaultBatch, TLC

CONSTANTS f1, f2, f3, c1, c2, p1, p2, web, mount, janitor

MCContentOf == f1 :> c1 @@ f2 :> c2 @@ f3 :> c1
MCPathOf    == f1 :> p1 @@ f2 :> p2 @@ f3 :> p2
MCFolders   == {<<f1, f3>>, <<f2, f1>>}

MCCalls == web :> {"folder"} @@ mount :> {"import", "file"}
             @@ janitor :> {"remove", "compact"}

\* For the race "adds".
TwoFolders == web :> {"folder"} @@ mount :> {"folder"} @@ janitor :> {"remove"}
=============================================================================
