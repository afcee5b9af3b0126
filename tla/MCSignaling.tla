---------------------------- MODULE MCSignaling ----------------------------
(* A small instance of Signaling for TLC. *)
EXTENDS Signaling
=============================================================================
