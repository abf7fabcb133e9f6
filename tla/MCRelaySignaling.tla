--------------------------- MODULE MCRelaySignaling ---------------------------
(* Instances of RelaySignaling for TLC. *)
EXTENDS RelaySignaling, TLC

=============================================================================
