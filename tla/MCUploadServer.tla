--------------------------- MODULE MCUploadServer ---------------------------
(* Small instances of UploadServer for TLC. *)
EXTENDS UploadServer, TLC

\* Requests, uploads, files and addresses are interchangeable: no definition
\* names one of them.
Symmetry == Permutations(Requests) \cup Permutations(Uploads)
              \cup Permutations(Files) \cup Permutations(Ips)
=============================================================================
