------------------------------ MODULE MCTrust ------------------------------
(***************************************************************************)
(* An instance of TrustConfig: configurations in every shape the parser    *)
(* knows, usable and not, and tokens that differ from a good one in one    *)
(* claim, header field, key or GCO.                                        *)
(***************************************************************************)
EXTENDS TrustConfig, MCTokens

Jwk(kid, key) == [kid |-> kid, key |-> key]
Jwks(keys) == "jwks" :> [keys |-> keys]
JwkSetOf(keys) == "jwk_set" :> [keys |-> keys]

MaterialA == Jwks(<<Jwk("k", KeyA2), Jwk("k", KeyA)>>) @@ "ca_certs" :> <<caA>>
MaterialB == JwkSetOf(<<Jwk("k", KeyB)>>)
Both == dA :> MaterialA @@ dB :> MaterialB

Audience(a) == "expected_audience" :> a
Wrapped(domains) == "trust_domains" :> domains

Starting ==
    {Wrapped(Both) @@ Audience({audX}),
     Both @@ Audience({audX, audY}),
     dA :> MaterialA,
     \* what is written beside the wrapper counts for nothing
     Wrapped(dB :> MaterialB) @@ dA :> MaterialA,
     Wrapped(dB :> MaterialB) @@ dA :> MALFORMED @@ Audience({audX}),
     \* rotated; the two names of the lists
     dA :> (Jwks(<<Jwk("k", KeyA2)>>) @@ JwkSetOf(<<Jwk("k", KeyA)>>)
               @@ "ca_certs" :> <<>> @@ "ca_certificates" :> <<caA, caB>>),
     dA :> ("jwks" :> <<>> @@ JwkSetOf(<<Jwk("k", KeyA)>>) @@ "ca_certs" :> NONE),
     dA :> Jwks(<<>>),
     \* keys without kid, and a kid like the name given to one
     dA :> Jwks(<<Jwk(NONE, KeyA), Jwk(NONE, KeyA2)>>),
     dA :> Jwks(<<Jwk("key-1", KeyA), Jwk(NONE, KeyA2)>>),
     <<>>}

\* One thing that cannot be used, beside what can.
NotStarting ==
    {MALFORMED, Wrapped(MALFORMED), Wrapped(NONE) @@ Both,
     Both @@ Audience({}), Both @@ Audience(MALFORMED)}
      \cup {dA :> MaterialA @@ dB :> m :
               m \in {MALFORMED, "jwks" :> MALFORMED,
                      Jwks(<<Jwk("k", KeyB), Jwk("l", MALFORMED)>>),
                      Jwks(<<Jwk("k", OddKey)>>),
                      "jwks" :> [keys |-> MALFORMED],
                      "ca_certs" :> MALFORMED,
                      "ca_certs" :> <<caB, MALFORMED>>}}

MCConfigs == Starting \cup NotStarting
MCHostAudiences == {NONE, {audY}, {}}

-----------------------------------------------------------------------------
(* Checks: every claim, header field and pairing with a GCO *)

Subjects == {Id(dA, 1), Id(dA, 2), Id(dB, 1), Id(NONE, 1), NONE}
Bodies == {GcoA, GcoB, Gco(Id(dA, 1), 3), Gco(Id(NONE, 1), 1)}

Good == Payload(GcoA, 2, j1)

SubTampers == {[Good EXCEPT !.sub = s] : s \in Subjects}

PayloadTampers ==
    {[Good EXCEPT !.aud = a] : a \in {NONE, {}, {audY}, {audX, audY}}}
      \cup {[Good EXCEPT !.exp = e] : e \in {NONE, BAD, 1}}
      \cup {[Good EXCEPT !.nbf = n] : n \in {BAD, 1, 2}}
      \cup {[Good EXCEPT !.iat = n] : n \in {BAD, 1, 2}}
      \cup {[Good EXCEPT !.jti = NONE],
            Payload(GcoB, 2, j1), Payload(Gco(Id(NONE, 1), 1), 2, j1)}

Signers == {KeyA, KeyA2, KeyB, LeafKey}

JwtTokens ==
    {Token(p, k) : p \in SubTampers, k \in Signers}
      \cup {Token(p, KeyA) : p \in PayloadTampers}
      \cup {Token(Payload(GcoB, 2, j1), KeyB)}
      \cup {[Token(Good, k) EXCEPT !.header.kid = id, !.header.alg = a] :
               <<k, a>> \in {<<KeyA, "RS256">>, <<KeyA2, "ES256">>},
               id \in {NONE, "k", "key-0", "key-1", "other"}}
      \cup {[Token(Good, KeyA) EXCEPT !.header.alg = a] :
               a \in {"missing", "none", "PS256", "ES256", "HS256"}}
      \cup {[Token(Good, KeyA) EXCEPT !.shape = s] :
               s \in {"bad_header", "bad_payload"}}

Leaf(spiffe, issuer, key) ==
    [spiffe |-> spiffe, issuer |-> issuer, key |-> key,
     not_before |-> 0, not_after |-> 1]

Chains == {NONE, BAD, Leaf(NONE, caA, LeafKey), Leaf(Id(dA, 1), caA, OddKey),
           Leaf(Id(dA, 1), BAD, LeafKey),
           [Leaf(Id(dA, 1), caA, LeafKey) EXCEPT !.not_after = 0]}
            \cup {Leaf(s, c, LeafKey) : s \in Subjects, c \in {caA, caB}}

X509(payload, x5c, signer) ==
    [Token(payload, signer) EXCEPT !.header.alg = "ES256", !.header.x5c = x5c]

X509Tokens ==
    {X509(p, c, LeafKey) : p \in {Good, Payload(GcoB, 2, j1)}, c \in Chains}
      \cup {X509(Good, Leaf(Id(dA, 1), caA, LeafKey), k) : k \in Signers}
      \cup {[X509(Good, Leaf(Id(dA, 1), caA, LeafKey), LeafKey)
                EXCEPT !.shape = s] : s \in {"bad_header", "bad_payload"}}
      \cup {[X509(Good, Leaf(Id(dA, 1), caA, k), k)
                EXCEPT !.header.alg = "missing"] : k \in {LeafKey, OddKey}}

MCPresentations ==
    {Present("JWT_SVID", t, g) : t \in JwtTokens, g \in Bodies}
      \cup {Present("X509_SVID", t, g) : t \in X509Tokens, g \in Bodies}
      \cup {Present("OTHER", Token(Good, KeyA), GcoA),
            Present("JWT_SVID", NONE, GcoA),
            [gco |-> GcoA, attestation |-> NONE]}
=============================================================================
