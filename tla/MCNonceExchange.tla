--------------------------- MODULE MCNonceExchange ---------------------------
EXTENDS NonceExchange, TLC

CONSTANTS x1, x2, x3, x4, c1, c2, c3, ip1, ip2

\* c1 calls twice; c1 and c2 share an address.
MCClientOf == x1 :> c1 @@ x2 :> c1 @@ x3 :> c2 @@ x4 :> c3
MCIpOf == c1 :> ip1 @@ c2 :> ip1 @@ c3 :> ip2
=============================================================================
