-------------------------- MODULE MCSnapshotExchange --------------------------
(* Instances of SnapshotExchange for TLC. *)
EXTENDS SnapshotExchange

CONSTANTS left, right

BothPeers == {left, right}

(* The newest block is large. *)
Size(c) == IF c = 3 THEN 2 ELSE 1
=============================================================================
