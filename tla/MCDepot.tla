------------------------------ MODULE MCDepot ------------------------------
(* Instances of Depot for TLC: one content that is a single block, and one *)
(* made of several; a block outside both gets in by a Put that fails.      *)
EXTENDS DepotInv

CONSTANTS solo, many, First, Bundle

MCContent == {solo, many}
MCMono    == {solo}
MCParts   == [x \in MCContent |-> IF x = solo THEN {First} ELSE Bundle]

\* The content of several blocks alone, where the faults take the room.
MCBundleOnly  == {many}
MCBundleParts == [x \in MCBundleOnly |-> Bundle]
============================================================================
