---------------------------- MODULE MCHttpCalls ----------------------------
(* Small instances of HttpCalls for TLC. *)
EXTENDS HttpCalls
=============================================================================
