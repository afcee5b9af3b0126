--------------------------- MODULE MCServerBridge ---------------------------
(* Small instances of ServerBridge for TLC. *)
EXTENDS ServerBridge, TLC
=============================================================================
