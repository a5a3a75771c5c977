---------------------------- MODULE Attestation ----------------------------
(***************************************************************************)
(* AttestationVerifier (gco/attestation.py) over a TrustBundle             *)
(* (gco/trust.py): the checks verify() makes on an attestation and a GCO,  *)
(* and the operations of InMemoryReplayCache.  Cryptography is external:   *)
(* a token remembers the key that signed it, and a signature verifies      *)
(* exactly under that key.                                                 *)
(*                                                                         *)
(* What a verifier trusts is [domains, expected_audience]: the domains map *)
(* each trust domain to its [jwks, ca_store], jwks a list of [kid, key],   *)
(* ca_store a set of CAs or NONE; the audience is a set or NONE.           *)
(*                                                                         *)
(* A token is [shape, header, payload, signer]: shape says which part of   *)
(* the JWS does not parse, the header holds kid, alg and the x5c chain,    *)
(* the payload holds the claims.  A SPIFFE id is [domain, path], its       *)
(* domain NONE when the URI is not a SPIFFE one.                           *)
(***************************************************************************)
EXTENDS Authority

CONSTANT BAD  \* a claim that is no usable number, a chain that is unreadable

ASSUME BadAssumption == BAD # NONE

IsTrust(trust) ==
    \A domain \in DOMAIN trust.domains : IsList(trust.domains[domain].jwks)

\* An attestation, as far as pydantic and the JSON of its claims type it; a
\* token whose header does not parse has no other part that is looked at.
IsDate(claim) == claim \in Int \cup {NONE, BAD}

IsAttestation(a) ==
    a = NONE \/ a.value = NONE \/
        LET token == a.value
        IN  /\ IsDate(token.payload.exp)
            /\ token.shape # "bad_header" =>
                   /\ IsDate(token.payload.nbf) /\ IsDate(token.payload.iat)
                   /\ token.header.x5c \notin {NONE, BAD} =>
                          /\ token.header.x5c.not_before \in Int
                          /\ token.header.x5c.not_after \in Int

\* _trust_domain
TrustDomain(spiffe) == IF spiffe = NONE THEN NONE ELSE spiffe.domain

\* TrustBundle.get
DomainBundle(trust, domain) ==
    IF domain \in DOMAIN trust.domains THEN trust.domains[domain] ELSE NONE

\* TrustDomainBundle.key: jwks is the list a dict was built from.
TrustedKey(bundle, kid) ==
    LET entry == DictGet(bundle.jwks, "kid", kid)
    IN  IF entry = NONE THEN NONE ELSE entry.key

ALGORITHMS == [RSA |-> {"RS256", "PS256"}, EC |-> {"ES256"}]

\* _decode_with_key.  No other key type reaches it: a trust bundle refuses
\* them, and _verify_x509_svid looks at that of a certificate itself.
DecodeFault(token, key) ==
    IF token.header.alg \in {"missing", "none"} THEN "MALFORMED_ATTESTATION"
    ELSE IF key.kty \notin DOMAIN ALGORITHMS THEN "UNTRUSTED_KEY"
    ELSE FirstFault(<<
        Check(token.header.alg \in ALGORITHMS[key.kty], "MALFORMED_ATTESTATION"),
        Check(token.signer = key, "UNVERIFIED_SIGNATURE"),
        Check(token.shape # "bad_payload", "MALFORMED_ATTESTATION")>>)

\* _verify_audience
AudienceMatches(trust, aud) ==
    LET expected == trust.expected_audience
    IN  expected # NONE => aud # NONE /\ aud \cap expected # {}

IsNumericDate(claim) == claim \notin {NONE, BAD}

\* _verify_bindings up to the replay check.  On the X.509 path expected_sub is
\* the leaf's SPIFFE id, which has been found equal to the model identity.
BindingsFault(trust, payload, g, now) ==
    FirstFault(<<
        Check(payload.sub = g.model_identity, "SPIFFE_ID_MISMATCH"),
        Check(payload.gco_hash = canonical_gco_hash(g), "GCO_DIGEST_MISMATCH"),
        Check(AudienceMatches(trust, payload.aud), "AUDIENCE_MISMATCH"),
        Check(IsNumericDate(payload.exp), "MALFORMED_ATTESTATION"),
        Check(IsNumericDate(payload.exp) => payload.exp > now,
              "EXPIRED_ATTESTATION"),
        Check(payload.nbf # BAD, "MALFORMED_ATTESTATION"),
        Check(IsNumericDate(payload.nbf) => payload.nbf <= now,
              "MALFORMED_ATTESTATION"),
        Check(payload.iat # BAD, "MALFORMED_ATTESTATION"),
        Check(IsNumericDate(payload.iat) => payload.iat <= now,
              "MALFORMED_ATTESTATION")>>)

\* _verify_jwt_svid: the trust domain is that of the sub the token claims,
\* before anything is verified.
JwtFault(trust, token, g, now) ==
    LET bundle == DomainBundle(trust, TrustDomain(token.payload.sub))
        key    == TrustedKey(bundle, token.header.kid)
    IN  IF token.shape # "ok" THEN "MALFORMED_ATTESTATION"
        ELSE IF bundle = NONE \/ token.header.kid = NONE THEN "UNTRUSTED_KEY"
        ELSE IF key = NONE THEN "UNTRUSTED_KEY"
        ELSE FirstFault(<<DecodeFault(token, key),
                          BindingsFault(trust, token.payload, g, now)>>)

\* _validated_x509_chain.  x5c is NONE, BAD, or the leaf: its SPIFFE id (NONE
\* unless it has exactly one), the CA it chains to (BAD when validating the
\* chain raises anything but VerificationError), its validity and its key.
ChainFault(trust, x5c, now) ==
    LET bundle == DomainBundle(trust, TrustDomain(x5c.spiffe))
    IN  IF x5c \in {NONE, BAD} THEN "MALFORMED_ATTESTATION"
        ELSE IF x5c.spiffe = NONE THEN "SPIFFE_ID_MISMATCH"
        ELSE IF bundle = NONE THEN "UNTRUSTED_KEY"
        ELSE IF bundle.ca_store = NONE THEN "UNTRUSTED_KEY"
        ELSE IF x5c.issuer = BAD THEN "MALFORMED_ATTESTATION"
        ELSE Check(/\ x5c.issuer \in bundle.ca_store
                   /\ now \in x5c.not_before .. x5c.not_after,
                   "UNTRUSTED_KEY")

\* _verify_x509_svid
X509Fault(trust, token, g, now) ==
    LET x5c == token.header.x5c
    IN  IF token.shape = "bad_header" THEN "MALFORMED_ATTESTATION"
        ELSE IF ChainFault(trust, x5c, now) # "OK" THEN ChainFault(trust, x5c, now)
        ELSE IF x5c.spiffe # g.model_identity THEN "SPIFFE_ID_MISMATCH"
        ELSE IF x5c.key.kty \notin DOMAIN ALGORITHMS THEN "UNTRUSTED_KEY"
        ELSE IF DecodeFault(token, x5c.key) # "OK" THEN DecodeFault(token, x5c.key)
        ELSE BindingsFault(trust, token.payload, g, now)

\* verify() up to the replay check, at the instant it sampled.
VerifyFault(trust, attestation, g, now) ==
    IF attestation = NONE THEN "MALFORMED_ATTESTATION"
    ELSE IF attestation.value = NONE THEN "MALFORMED_ATTESTATION"
    ELSE CASE attestation.format = "JWT_SVID" ->
                  JwtFault(trust, attestation.value, g, now)
           [] attestation.format = "X509_SVID" ->
                  X509Fault(trust, attestation.value, g, now)
           [] OTHER -> "UNSUPPORTED_FORMAT"

-----------------------------------------------------------------------------
(* InMemoryReplayCache: entries is a function from jti to recorded expiry *)

\* Mutant: entries are evicted one instant before their expiry.
EvictEarly(entries, now) ==
    [j \in {k \in DOMAIN entries : entries[k] > now + 1} |-> entries[j]]

\* Mutant: nothing is ever evicted.
EvictNothing(entries, now) == entries

\* _evict_expired
Evict(entries, now) ==
    [j \in {k \in DOMAIN entries : entries[k] > now} |-> entries[j]]

\* Mutant: a full cache drops the bound instead of refusing.
CanRecordUnbounded(entries, jti, maxEntries) == jti \notin DOMAIN entries

\* Mutant: the bound is off by one.
CanRecordOneMore(entries, jti, maxEntries) ==
    /\ jti \notin DOMAIN entries
    /\ Cardinality(DOMAIN entries) <= maxEntries

CanRecord(entries, jti, maxEntries) ==
    /\ jti \notin DOMAIN entries
    /\ Cardinality(DOMAIN entries) < maxEntries

Recorded(entries, jti, exp) ==
    [j \in DOMAIN entries \cup {jti} |-> IF j = jti THEN exp ELSE entries[j]]
=============================================================================
