------------------------------ MODULE MCTokens ------------------------------
(***************************************************************************)
(* Keys, identities, GCOs and tokens for the small instances.              *)
(***************************************************************************)
EXTENDS Authority

CONSTANTS dA, dB, j1, kA, kA2, kB, kL, caA, caB, audX, audY

Key(id, kty) == [id |-> id, kty |-> kty]
KeyA == Key(kA, "RSA")
KeyA2 == Key(kA2, "EC")
KeyB == Key(kB, "RSA")
LeafKey == Key(kL, "EC")
OddKey == Key(kL, "OKP")

Id(d, path) == [domain |-> d, path |-> path]

Gco(identity, span) ==
    [span_id |-> span, model_identity |-> identity, lineage |-> <<>>,
     attestation |-> NONE]

Payload(g, exp, jti) ==
    [sub |-> g.model_identity, gco_hash |-> canonical_gco_hash(g),
     aud |-> {audX}, exp |-> exp, nbf |-> NONE, iat |-> NONE, jti |-> jti]

Token(payload, signer) ==
    [shape |-> "ok", signer |-> signer, payload |-> payload,
     header |-> [kid |-> "k", alg |-> "RS256", x5c |-> NONE]]

Present(format, token, g) ==
    [gco |-> g, attestation |-> [format |-> format, value |-> token]]

GcoA == Gco(Id(dA, 1), 1)
GcoB == Gco(Id(dB, 1), 2)
=============================================================================
