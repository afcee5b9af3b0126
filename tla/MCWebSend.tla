----------------------------- MODULE MCWebSend -----------------------------
(* Small instances of WebSend for TLC. *)
EXTENDS WebSend, TLC

\* Requests, downloads, files and clients are interchangeable.
Symmetry == Permutations(Requests) \cup Permutations(Downloads)
              \cup Permutations(Ips) \cup Permutations(Files)
=============================================================================
