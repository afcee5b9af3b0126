------------------------------ MODULE Identity ------------------------------
(***************************************************************************)
(* How a peer proves who it is: the certificate check of both ends of a    *)
(* TLS connection (crypto/cert.rs), used by NonceExchange, and the signed  *)
(* tokens of the WebRTC protocol (crypto/token.rs), used by RtcTransfer.   *)
(*                                                                         *)
(* Keys stand for key pairs, a hash for the pair of its arguments and a    *)
(* signature for its signer and what was signed: SHA-256 and Ed25519 are   *)
(* taken to be what they promise.                                          *)
(***************************************************************************)
EXTENDS Naturals

CONSTANTS
  RsaKeys, \* the keys of which are RSA keys: this code verifies with them, it signs with none
  NoKey    \* no public key is expected, or there is no certificate

-----------------------------------------------------------------------------
(* Certificates                                                            *)

Certificate(k, v, s) == [key |-> k, inTime |-> v, selfSigned |-> s]

\* Validity, then the expected key if there is one, then the signature.
VerifyCert(cert, expected) ==
  /\ cert.inTime
  /\ expected # NoKey => cert.key = expected
  /\ cert.selfSigned

\* The name a server knows a client by.
Identifier(client) == IF client.cert # NoKey THEN client.cert.key ELSE client.ip

-----------------------------------------------------------------------------
(* Tokens: hash method . hash . salt . signature method . signature.       *)

SignatureMethod(k) == IF k \in RsaKeys THEN "rsa-pss" ELSE "ed25519"

Digest(k, salt) == <<k, salt>>
Signature(k, d) == [signer |-> k, of |-> d]

TokenNonce(k, salt) ==
  [parts |-> 5, hashMethod |-> "sha256", hash |-> Digest(k, salt), salt |-> salt,
   signMethod |-> "ed25519", signature |-> Signature(k, Digest(k, salt))]

\* Slicing off the first five parts of a shorter token panics before the
\* pattern can refuse it; parts after the fifth are ignored.
VerifyToken(k, token, saltOk) ==
  IF token.parts < 5 THEN "panic"
  ELSE IF /\ token.hashMethod = "sha256"
          /\ token.signMethod = SignatureMethod(k)
          /\ saltOk
          /\ token.hash = Digest(k, token.salt)
          /\ token.signature = Signature(k, token.hash)
       THEN "ok" ELSE "rejected"

VerifyTokenNonce(k, token, nonce) == VerifyToken(k, token, token.salt = nonce)
=============================================================================
