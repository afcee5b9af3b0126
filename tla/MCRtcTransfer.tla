--------------------------- MODULE MCRtcTransfer ---------------------------
(* Small instances of RtcTransfer for TLC. *)
EXTENDS RtcTransfer, TLC
=============================================================================
