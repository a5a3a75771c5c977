---------------------------- MODULE TrustProofs ----------------------------
(***************************************************************************)
(* Proofs about TrustConfig, for any configurations, hosts, tokens and     *)
(* instants.                                                               *)
(***************************************************************************)
EXTENDS TrustConfig, AuthorityProofs

-----------------------------------------------------------------------------
(* The operators of Attestation *)

\* A lookup by kid gives the entry that goes by it, the last one listed.
LastOf(list, kid, i) ==
    list[i].kid = kid /\ \A l \in DOMAIN list : l > i => list[l].kid # kid

Finds(list, kid, found) ==
    /\ found # NONE => \E i \in DOMAIN list : found = list[i] /\ LastOf(list, kid, i)
    /\ \A i \in DOMAIN list : LastOf(list, kid, i) => found = list[i]

LEMMA LookupFinds ==
    ASSUME NEW list, DOMAIN list = 1 .. Len(list), Len(list) \in Nat, NEW kid
    PROVE  Finds(list, kid, DictGet(list, "kid", kid))
<1> DEFINE I == {i \in 1 .. Len(list) : list[i].kid = kid}
           n == SelectLastInSeq(list, LAMBDA x : x["kid"] = kid)
<1>1. n = IF I # {} THEN Max(I) ELSE 0
  BY DEF SelectLastInSeq
<1>2. CASE I = {}
  <2>1. n = 0
    BY <1>1, <1>2
  <2>2. DictGet(list, "kid", kid) = NONE
    BY <2>1 DEF DictGet
  <2> QED BY <1>2, <2>2 DEF Finds, LastOf
<1>3. CASE I # {}
  <2>1. PICK m : m = Max(I)
    OBVIOUS
  <2>2. m \in I /\ \A l \in I : l <= m
    BY <1>3, <2>1, MaxInSet
  <2>3. DictGet(list, "kid", kid) = list[m]
    BY <1>1, <1>3, <2>1, <2>2 DEF DictGet
  <2>4. \A l \in DOMAIN list : l > m => list[l].kid # kid
    BY <2>2
  <2>5. ASSUME NEW i \in DOMAIN list, list[i].kid = kid,
               \A l \in DOMAIN list : l > i => list[l].kid # kid
        PROVE  i = m
    BY <2>2, <2>5
  <2> QED BY <2>2, <2>3, <2>4, <2>5 DEF Finds, LastOf
<1> QED BY <1>2, <1>3

LEMMA DecodeTrusts ==
    ASSUME NEW token, NEW key, key.kty \in {"RSA", "EC"}
    PROVE  DecodeFault(token, key) # "UNTRUSTED_KEY"
<1> DEFINE checks == <<
        Check(token.header.alg \in ALGORITHMS[key.kty], "MALFORMED_ATTESTATION"),
        Check(token.signer = key, "UNVERIFIED_SIGNATURE"),
        Check(token.shape # "bad_payload", "MALFORMED_ATTESTATION")>>
<1>1. Len(checks) = 3 /\ DOMAIN checks = 1 .. Len(checks)
  OBVIOUS
<1>2. \A i \in DOMAIN checks : checks[i] # "UNTRUSTED_KEY"
  BY DEF Check
<1>3. FirstFault(checks) # "UNTRUSTED_KEY"
  <2> HIDE DEF checks
  <2> QED BY <1>1, <1>2, FirstFaultAmong
<1>4. key.kty \in DOMAIN ALGORITHMS
  BY DEF ALGORITHMS
<1> QED BY <1>3, <1>4 DEF DecodeFault

\* What _verify_bindings finds of the claims it passes.
LEMMA BindingsHold ==
    ASSUME NEW trust, NEW payload, NEW g, NEW now,
           BindingsFault(trust, payload, g, now) = "OK"
    PROVE  /\ payload.sub = g.model_identity
           /\ payload.gco_hash = canonical_gco_hash(g)
           /\ AudienceMatches(trust, payload.aud)
           /\ payload.exp \notin {NONE, BAD} /\ payload.exp > now
           /\ \A c \in {payload.nbf, payload.iat} : c # NONE => c <= now
<1> DEFINE checks == <<
        Check(payload.sub = g.model_identity, "SPIFFE_ID_MISMATCH"),
        Check(payload.gco_hash = canonical_gco_hash(g), "GCO_DIGEST_MISMATCH"),
        Check(AudienceMatches(trust, payload.aud), "AUDIENCE_MISMATCH"),
        Check(IsNumericDate(payload.exp), "MALFORMED_ATTESTATION"),
        Check(IsNumericDate(payload.exp) => payload.exp > now,
              "EXPIRED_ATTESTATION"),
        Check(payload.nbf # BAD, "MALFORMED_ATTESTATION"),
        Check(IsNumericDate(payload.nbf) => payload.nbf <= now,
              "MALFORMED_ATTESTATION"),
        Check(payload.iat # BAD, "MALFORMED_ATTESTATION"),
        Check(IsNumericDate(payload.iat) => payload.iat <= now,
              "MALFORMED_ATTESTATION")>>
<1>1. FirstFault(checks) = "OK"
  BY DEF BindingsFault
<1>2. Len(checks) = 9 /\ DOMAIN checks = 1 .. Len(checks)
  OBVIOUS
<1>3. \A i \in DOMAIN checks : checks[i] = "OK"
  <2> HIDE DEF checks
  <2> QED BY <1>1, <1>2, FirstFaultOK
<1>4. /\ checks[1] = "OK" /\ checks[2] = "OK" /\ checks[3] = "OK"
      /\ checks[4] = "OK" /\ checks[5] = "OK" /\ checks[6] = "OK"
      /\ checks[7] = "OK" /\ checks[8] = "OK" /\ checks[9] = "OK"
  BY <1>2, <1>3
<1> QED BY <1>4 DEF Check, IsNumericDate

LEMMA BindingsTrust ==
    ASSUME NEW trust, NEW payload, NEW g, NEW now
    PROVE  BindingsFault(trust, payload, g, now) # "UNTRUSTED_KEY"
<1> DEFINE checks == <<
        Check(payload.sub = g.model_identity, "SPIFFE_ID_MISMATCH"),
        Check(payload.gco_hash = canonical_gco_hash(g), "GCO_DIGEST_MISMATCH"),
        Check(AudienceMatches(trust, payload.aud), "AUDIENCE_MISMATCH"),
        Check(IsNumericDate(payload.exp), "MALFORMED_ATTESTATION"),
        Check(IsNumericDate(payload.exp) => payload.exp > now,
              "EXPIRED_ATTESTATION"),
        Check(payload.nbf # BAD, "MALFORMED_ATTESTATION"),
        Check(IsNumericDate(payload.nbf) => payload.nbf <= now,
              "MALFORMED_ATTESTATION"),
        Check(payload.iat # BAD, "MALFORMED_ATTESTATION"),
        Check(IsNumericDate(payload.iat) => payload.iat <= now,
              "MALFORMED_ATTESTATION")>>
<1>1. Len(checks) = 9 /\ DOMAIN checks = 1 .. Len(checks)
  OBVIOUS
<1>2. \A i \in DOMAIN checks : checks[i] # "UNTRUSTED_KEY"
  BY DEF Check
<1>3. FirstFault(checks) # "UNTRUSTED_KEY"
  <2> HIDE DEF checks
  <2> QED BY <1>1, <1>2, FirstFaultAmong
<1> QED BY <1>3 DEF BindingsFault

-----------------------------------------------------------------------------
(* The parser, against what is written *)

LEMMA DomainsAreWritten ==
    ASSUME NEW config, ConfigParses(config)
    PROVE  /\ DOMAIN TrustDomains(config) = WrittenDomains(config)
           /\ \A d \in WrittenDomains(config) :
                  /\ TrustDomains(config)[d] = Written(config, d)
                  /\ DomainParses(Written(config, d))
<1>1. CASE Get(config, "trust_domains") # NONE
  <2>1. "trust_domains" \in DOMAIN config /\ config["trust_domains"] # NONE
    BY <1>1 DEF Get
  <2>2. TrustDomains(config) = config["trust_domains"]
    BY <1>1 DEF TrustDomains
  <2>3. WrittenDomains(config) = DOMAIN config["trust_domains"]
    BY <2>1 DEF WrittenDomains
  <2>4. \A d : Written(config, d) = config["trust_domains"][d]
    BY <2>1 DEF Written
  <2> QED BY <2>2, <2>3, <2>4 DEF ConfigParses
<1>2. CASE Get(config, "trust_domains") = NONE
  <2>1. ~("trust_domains" \in DOMAIN config /\ config["trust_domains"] # NONE)
    BY <1>2 DEF Get
  <2>2. TrustDomains(config) =
            [d \in DOMAIN config \ {"expected_audience"} |-> config[d]]
    BY <1>2 DEF TrustDomains
  <2>3. WrittenDomains(config) = DOMAIN config \ {"trust_domains", "expected_audience"}
    BY <2>1 DEF WrittenDomains
  <2>4. \A d : Written(config, d) = config[d]
    BY <2>1 DEF Written
  \* A wrapper that is null is not a domain that parses.
  <2>5. "trust_domains" \notin DOMAIN config
    <3> SUFFICES ASSUME "trust_domains" \in DOMAIN config PROVE FALSE
      OBVIOUS
    <3>1. config["trust_domains"] = NONE
      BY <2>1
    <3>2. /\ "trust_domains" \in DOMAIN TrustDomains(config)
          /\ TrustDomains(config)["trust_domains"] = NONE
      BY <2>2, <3>1
    <3> QED BY <3>2 DEF ConfigParses, DomainParses
  <2> QED BY <2>2, <2>3, <2>4, <2>5 DEF ConfigParses
<1> QED BY <1>1, <1>2

LEMMA MaterialIsWritten ==
    ASSUME NEW material, DomainParses(material)
    PROVE  /\ JwkSet(material).keys = WrittenKeys(material)
           /\ Range(CaCerts(material)) = WrittenCAs(material)
<1>1. JwkSet(material).keys = WrittenKeys(material)
  BY DEF JwkSet, WrittenKeys, Filled, Or, Get
<1>2. Range(CaCerts(material)) = WrittenCAs(material)
  <2>1. CASE "ca_certs" \in Filled(material, {"ca_certs", "ca_certificates"})
    BY <2>1 DEF CaCerts, WrittenCAs, Filled, Or, Get
  <2>2. CASE /\ "ca_certs" \notin Filled(material, {"ca_certs", "ca_certificates"})
             /\ "ca_certificates" \in Filled(material, {"ca_certs", "ca_certificates"})
    BY <2>2 DEF CaCerts, WrittenCAs, Filled, Or, Get
  <2>3. CASE Filled(material, {"ca_certs", "ca_certificates"}) = {}
    <3>1. CaCerts(material) = <<>>
      BY <2>3 DEF CaCerts, Filled, Or, Get
    <3>2. Range(<<>>) = {}
      BY DEF Range
    <3> QED BY <2>3, <3>1, <3>2 DEF WrittenCAs
  <2>4. Filled(material, {"ca_certs", "ca_certificates"})
            \subseteq {"ca_certs", "ca_certificates"}
    BY DEF Filled
  <2> QED BY <2>1, <2>2, <2>3, <2>4
<1> QED BY <1>1, <1>2

\* The key found under a kid is the one that is written under it.
LEMMA KeyIsWritten ==
    ASSUME NEW set, IsList(set.keys), NEW bundle, bundle.jwks = ParseJwks(set),
           NONE \notin {set.keys[i].key : i \in DOMAIN set.keys}
                          \cup Range(ParseJwks(set)),
           NEW kid, kid # NONE
    PROVE  LET key == TrustedKey(bundle, kid)
           IN  /\ key # NONE => key \in SignsFor(set.keys, kid)
               /\ \A k \in SignsFor(set.keys, kid) : key = k /\ k # NONE
<1>1. PICK keys : keys = set.keys
  OBVIOUS
<1>2. PICK list : list = ParseJwks(set)
  OBVIOUS
<1>3. Len(keys) \in Nat /\ DOMAIN keys = 1 .. Len(keys)
  BY <1>1 DEF IsList
<1>4. /\ DOMAIN list = DOMAIN keys
      /\ list = [i \in DOMAIN keys |-> [kid |-> Kid(keys, i), key |-> keys[i].key]]
  BY <1>1, <1>2 DEF ParseJwks
<1>5. DOMAIN list = 1 .. Len(list) /\ Len(list) \in Nat
  <2>1. PICK S : S = {list[i] : i \in DOMAIN list}
    OBVIOUS
  <2>2. PICK n \in Nat : n = Len(keys)
    BY <1>3
  <2>3. list \in [1 .. n -> S]
    BY <1>3, <1>4, <2>1, <2>2
  <2>4. list \in Seq(S)
    BY <2>3
  <2> QED BY <2>4
<1>6. \A i \in DOMAIN keys : list[i].kid = Kid(keys, i) /\ list[i].key = keys[i].key
  BY <1>4
<1>7. \A i \in DOMAIN keys : GoesBy(keys, i, kid) <=> list[i].kid = kid
  <2>1. \A i : GoesBy(keys, i, kid) <=> kid = Kid(keys, i)
    BY Zenon DEF GoesBy, Kid
  <2> QED BY <1>6, <2>1
<1>8. PICK found : found = DictGet(list, "kid", kid)
  OBVIOUS
<1>9. Finds(list, kid, found)
  BY <1>5, <1>8, LookupFinds
<1>10. TrustedKey(bundle, kid) = IF found = NONE THEN NONE ELSE found.key
  BY <1>2, <1>8 DEF TrustedKey
<1>11. \A i \in DOMAIN list : list[i] # NONE /\ keys[i].key # NONE
  BY <1>1, <1>2, <1>4 DEF Range
<1>12. ASSUME TrustedKey(bundle, kid) # NONE
       PROVE  TrustedKey(bundle, kid) \in SignsFor(keys, kid)
  <2>1. PICK i \in DOMAIN list :
            found = list[i] /\ LastOf(list, kid, i)
    BY <1>9, <1>10, <1>12 DEF Finds
  <2>2. TrustedKey(bundle, kid) = keys[i].key
    BY <1>4, <1>6, <1>10, <1>12, <2>1
  <2>3. /\ GoesBy(keys, i, kid)
        /\ \A l \in DOMAIN keys : l > i => ~GoesBy(keys, l, kid)
    BY <1>4, <1>7, <2>1 DEF LastOf
  <2> QED BY <1>4, <2>2, <2>3 DEF SignsFor
<1>13. ASSUME NEW k \in SignsFor(keys, kid)
       PROVE  TrustedKey(bundle, kid) = k /\ k # NONE
  <2>1. PICK i \in DOMAIN keys :
            /\ k = keys[i].key /\ GoesBy(keys, i, kid)
            /\ \A l \in DOMAIN keys : l > i => ~GoesBy(keys, l, kid)
    BY <1>13 DEF SignsFor
  <2>2. found = list[i]
    BY <1>4, <1>7, <1>9, <2>1 DEF Finds, LastOf
  <2> QED BY <1>4, <1>6, <1>10, <1>11, <2>1, <2>2
<1> QED BY <1>1, <1>12, <1>13

-----------------------------------------------------------------------------
(* The verifier *)

(***************************************************************************)
(* The inductive invariant: a verifier stands on the whole of one          *)
(* configuration the file has held, which parses.                          *)
(***************************************************************************)
Built ==
    /\ file \in Configs
    /\ verifier # NONE =>
           /\ verifier.config \in Configs
           /\ ConfigParses(verifier.config)
           /\ verifier.bundle.domains = Parse(verifier.config).domains
           /\ verifier.bundle.expected_audience =
                  EffectiveAudience(verifier.host, Parse(verifier.config))

\* Whether a domain is known, and what is trusted in it, is as written.
TrustedAsWritten(d) ==
    LET material == Written(verifier.config, d)
    IN  d \in WrittenDomains(verifier.config) =>
            /\ d \in DOMAIN verifier.bundle.domains
            /\ verifier.bundle.domains[d] = ParseDomain(material)
            /\ ParseDomain(material) # NONE
            /\ DomainParses(material)
            /\ IsList(JwkSet(material).keys)
            /\ NONE \notin {JwkSet(material).keys[i].key :
                                i \in DOMAIN JwkSet(material).keys}
                             \cup Range(ParseJwks(JwkSet(material)))

LEMMA BuiltAsWritten ==
    ASSUME Built, verifier # NONE, NEW d
    PROVE  /\ d \in DOMAIN verifier.bundle.domains =>
                  d \in WrittenDomains(verifier.config) /\ d # NONE
           /\ TrustedAsWritten(d)
<1>1. PICK config \in Configs :
          /\ config = verifier.config /\ ConfigParses(config)
          /\ verifier.bundle.domains = Parse(config).domains
  BY DEF Built
<1>2. /\ DOMAIN TrustDomains(config) = WrittenDomains(config)
      /\ \A e \in WrittenDomains(config) :
             /\ TrustDomains(config)[e] = Written(config, e)
             /\ DomainParses(Written(config, e))
  BY <1>1, DomainsAreWritten
<1>3. verifier.bundle.domains =
          [e \in DOMAIN TrustDomains(config) |-> ParseDomain(TrustDomains(config)[e])]
  BY <1>1 DEF Parse
<1>4. d \in DOMAIN verifier.bundle.domains <=> d \in WrittenDomains(config)
  BY <1>2, <1>3
<1>5. ASSUME d \in WrittenDomains(config) PROVE TrustedAsWritten(d) /\ d # NONE
  <2>1. PICK material : material = Written(config, d)
    OBVIOUS
  <2>2. /\ d \in DOMAIN TrustDomains(config) /\ TrustDomains(config)[d] = material
        /\ DomainParses(material)
    BY <1>2, <1>5, <2>1
  <2>3. /\ IsList(JwkSet(material).keys)
        /\ NONE \notin {d, ParseDomain(material)}
               \cup {JwkSet(material).keys[i].key : i \in DOMAIN JwkSet(material).keys}
               \cup Range(ParseJwks(JwkSet(material)))
    BY <1>1, <2>2, ConfigsAssumption
  <2>4. verifier.bundle.domains[d] = ParseDomain(material)
    BY <1>3, <2>2
  <2> QED BY <1>1, <1>4, <1>5, <2>1, <2>2, <2>3, <2>4 DEF TrustedAsWritten
<1>6. d \notin WrittenDomains(config) => TrustedAsWritten(d)
  BY <1>1 DEF TrustedAsWritten
<1> QED BY <1>1, <1>4, <1>5, <1>6

\* What a key looked up in a known domain is.
LEMMA DomainKeys ==
    ASSUME NEW d, TrustedAsWritten(d), d \in WrittenDomains(verifier.config),
           NEW kid, kid # NONE
    PROVE  LET key  == TrustedKey(verifier.bundle.domains[d], kid)
               keys == WrittenKeys(Written(verifier.config, d))
           IN  /\ key # NONE => key \in SignsFor(keys, kid)
               /\ \A k \in SignsFor(keys, kid) :
                      key = k /\ k # NONE /\ k.kty \in {"RSA", "EC"}
<1>1. PICK material : material = Written(verifier.config, d)
  OBVIOUS
<1>2. PICK set : set = JwkSet(material)
  OBVIOUS
<1>3. PICK bundle : bundle = verifier.bundle.domains[d]
  OBVIOUS
<1>4. /\ bundle = ParseDomain(material) /\ DomainParses(material)
      /\ IsList(set.keys)
      /\ NONE \notin {set.keys[i].key : i \in DOMAIN set.keys}
                       \cup Range(ParseJwks(set))
  BY <1>1, <1>2, <1>3 DEF TrustedAsWritten
<1>5. bundle.jwks = ParseJwks(set)
  BY <1>2, <1>4 DEF ParseDomain
<1>6. /\ TrustedKey(bundle, kid) # NONE =>
             TrustedKey(bundle, kid) \in SignsFor(set.keys, kid)
      /\ \A k \in SignsFor(set.keys, kid) :
             TrustedKey(bundle, kid) = k /\ k # NONE
  BY <1>4, <1>5, KeyIsWritten
<1>7. set.keys = WrittenKeys(material)
  BY <1>2, <1>4, MaterialIsWritten
<1>8. \A k \in SignsFor(set.keys, kid) : k.kty \in {"RSA", "EC"}
  BY <1>2, <1>4 DEF SignsFor, DomainParses, JwkSetParses
<1> QED BY <1>1, <1>3, <1>6, <1>7, <1>8

\* What a verification establishes of what it accepts.
Established(p, now) ==
    LET claims == p.attestation.value.payload
    IN  /\ Anchored(p, verifier.config, now)
        /\ claims.sub = p.gco.model_identity
        /\ claims.gco_hash = canonical_gco_hash(p.gco)
        /\ Intended(claims)
        /\ now < claims.exp
        /\ \A c \in {claims.nbf, claims.iat} : c # NONE => c <= now

LEMMA AudienceIntended ==
    ASSUME Built, verifier # NONE, NEW claims, AudienceMatches(verifier.bundle, claims.aud)
    PROVE  Intended(claims)
BY DEF Built, AudienceMatches, Intended, EffectiveAudience, Parse, Get

LEMMA AcceptedIsEstablished ==
    ASSUME Built, verifier # NONE, NEW p \in Presentations, NEW now \in Instants,
           VerifyFault(verifier.bundle, p.attestation, p.gco, now) = "OK"
    PROVE  Established(p, now)
<1>1. PICK token : token = p.attestation.value
  OBVIOUS
<1>2. PICK g : g = p.gco
  OBVIOUS
<1>3. p.attestation # NONE /\ token # NONE
  BY <1>1 DEF VerifyFault
<1>4. /\ \/ p.attestation.format = "JWT_SVID" /\ JwtFault(verifier.bundle, token, g, now) = "OK"
         \/ p.attestation.format = "X509_SVID" /\ X509Fault(verifier.bundle, token, g, now) = "OK"
  BY <1>1, <1>2, <1>3 DEF VerifyFault
<1>5. ASSUME BindingsFault(verifier.bundle, token.payload, g, now) = "OK",
             Anchored(p, verifier.config, now)
      PROVE  Established(p, now)
  <2>1. /\ token.payload.sub = g.model_identity
        /\ token.payload.gco_hash = canonical_gco_hash(g)
        /\ AudienceMatches(verifier.bundle, token.payload.aud)
        /\ token.payload.exp \notin {NONE, BAD} /\ token.payload.exp > now
        /\ \A c \in {token.payload.nbf, token.payload.iat} : c # NONE => c <= now
    BY <1>5, BindingsHold
  <2>2. token.payload.exp \in Int /\ now \in Int
    BY <1>1, <1>3, <2>1, PresentationsAssumption
  <2>3. now < token.payload.exp
    BY <2>1, <2>2
  <2>4. Intended(token.payload)
    BY <2>1, AudienceIntended
  <2> QED BY <1>1, <1>2, <1>5, <2>1, <2>3, <2>4 DEF Established
<1>6. CASE /\ p.attestation.format = "JWT_SVID"
           /\ JwtFault(verifier.bundle, token, g, now) = "OK"
  <2>1. PICK d : d = TrustDomain(token.payload.sub)
    OBVIOUS
  <2>2. PICK kid : kid = token.header.kid
    OBVIOUS
  <2>3. PICK bundle : bundle = DomainBundle(verifier.bundle, d)
    OBVIOUS
  <2>4. PICK key : key = TrustedKey(bundle, kid)
    OBVIOUS
  <2>5. /\ bundle # NONE /\ kid # NONE /\ key # NONE
        /\ FirstFault(<<DecodeFault(token, key),
                                 BindingsFault(verifier.bundle, token.payload, g, now)>>) = "OK"
    BY <1>6, <2>1, <2>2, <2>3, <2>4 DEF JwtFault
  <2>6. /\ DecodeFault(token, key) = "OK"
        /\ BindingsFault(verifier.bundle, token.payload, g, now) = "OK"
    <3>1. PICK checks : checks = <<DecodeFault(token, key),
                                   BindingsFault(verifier.bundle, token.payload, g, now)>>
      OBVIOUS
    <3>2. Len(checks) = 2 /\ DOMAIN checks = 1 .. Len(checks)
      BY <3>1
    <3>3. \A i \in DOMAIN checks : checks[i] = "OK"
      BY <2>5, <3>1, <3>2, FirstFaultOK
    <3> QED BY <3>1, <3>2, <3>3
  <2>7. d \in DOMAIN verifier.bundle.domains /\ bundle = verifier.bundle.domains[d]
    BY <2>3, <2>5 DEF DomainBundle
  <2>8. d \in WrittenDomains(verifier.config) /\ d # NONE /\ TrustedAsWritten(d)
    BY <2>7, BuiltAsWritten
  <2>9. key \in SignsFor(WrittenKeys(Written(verifier.config, d)), kid)
    BY <2>4, <2>5, <2>7, <2>8, DomainKeys
  <2>10. token.signer = key
    BY <2>6, DecodedSigned
  <2>11. d = g.model_identity.domain
    <3>1. token.payload.sub = g.model_identity
      BY <2>6, BindingsHold
    <3> QED BY <2>1, <2>8, <3>1 DEF TrustDomain
  <2>12. Anchored(p, verifier.config, now)
    BY <1>1, <1>2, <1>6, <2>2, <2>8, <2>9, <2>10, <2>11 DEF Anchored
  <2> QED BY <1>5, <2>6, <2>12
<1>7. CASE /\ p.attestation.format = "X509_SVID"
           /\ X509Fault(verifier.bundle, token, g, now) = "OK"
  <2>1. PICK x5c : x5c = token.header.x5c
    OBVIOUS
  <2>2. /\ ChainFault(verifier.bundle, x5c, now) = "OK"
        /\ x5c.spiffe = g.model_identity
        /\ DecodeFault(token, x5c.key) = "OK"
        /\ BindingsFault(verifier.bundle, token.payload, g, now) = "OK"
    BY <1>7, <2>1 DEF X509Fault
  <2>3. PICK d : d = TrustDomain(x5c.spiffe)
    OBVIOUS
  <2>4. PICK bundle : bundle = DomainBundle(verifier.bundle, d)
    OBVIOUS
  <2>5. /\ x5c.spiffe # NONE /\ bundle # NONE /\ bundle.ca_store # NONE
        /\ x5c.issuer \in bundle.ca_store
        /\ now \in x5c.not_before .. x5c.not_after
    BY <2>2, <2>3, <2>4 DEF ChainFault, Check
  <2>6. d \in DOMAIN verifier.bundle.domains /\ bundle = verifier.bundle.domains[d]
    BY <2>4, <2>5 DEF DomainBundle
  <2>7. d \in WrittenDomains(verifier.config) /\ TrustedAsWritten(d)
    BY <2>6, BuiltAsWritten
  <2>8. PICK material : material = Written(verifier.config, d)
    OBVIOUS
  <2>9. bundle = ParseDomain(material) /\ DomainParses(material)
    BY <2>6, <2>7, <2>8 DEF TrustedAsWritten
  <2>10. x5c.issuer \in WrittenCAs(material)
    <3>1. bundle.ca_store = CaStore(CaCerts(material))
      BY <2>9 DEF ParseDomain
    <3>2. bundle.ca_store = Range(CaCerts(material))
      BY <2>5, <3>1 DEF CaStore
    <3> QED BY <2>5, <2>9, <3>2, MaterialIsWritten
  <2>11. token.signer = x5c.key
    BY <2>2, DecodedSigned
  <2>12. d = g.model_identity.domain
    BY <2>2, <2>3, <2>5 DEF TrustDomain
  <2>13. now <= x5c.not_after
    BY <2>5
  <2>14. Anchored(p, verifier.config, now)
    BY <1>1, <1>2, <1>7, <2>1, <2>7, <2>8, <2>10, <2>11, <2>12, <2>13 DEF Anchored
  <2> QED BY <1>5, <2>2, <2>14
<1> QED BY <1>4, <1>6, <1>7

\* A key that is written under the kid, in the domain of the sub, is found.
Untrusted(p) ==
    LET token == p.attestation.value
        sub   == token.payload.sub
    IN  \/ sub = NONE
        \/ sub.domain \notin WrittenDomains(verifier.config)
        \/ token.signer \notin
               SignsFor(WrittenKeys(Written(verifier.config, sub.domain)),
                        token.header.kid)

LEMMA RefusedIsUntrusted ==
    ASSUME Built, verifier # NONE, NEW p, NEW now,
           VerifyFault(verifier.bundle, p.attestation, p.gco, now) = "UNTRUSTED_KEY",
           p.attestation.format = "JWT_SVID"
    PROVE  Untrusted(p)
<1>1. PICK token : token = p.attestation.value
  OBVIOUS
<1>2. PICK g : g = p.gco
  OBVIOUS
<1>3. JwtFault(verifier.bundle, token, g, now) = "UNTRUSTED_KEY"
  BY <1>1, <1>2 DEF VerifyFault
<1>4. SUFFICES ASSUME /\ token.payload.sub # NONE
                      /\ token.payload.sub.domain \in WrittenDomains(verifier.config)
                      /\ token.signer \in
                             SignsFor(WrittenKeys(Written(verifier.config,
                                                          token.payload.sub.domain)),
                                      token.header.kid)
               PROVE  FALSE
  BY <1>1 DEF Untrusted
<1>5. PICK d : d = token.payload.sub.domain
  OBVIOUS
<1>6. PICK kid : kid = token.header.kid
  OBVIOUS
<1>7. PICK bundle : bundle = DomainBundle(verifier.bundle, TrustDomain(token.payload.sub))
  OBVIOUS
<1>8. PICK key : key = TrustedKey(bundle, kid)
  OBVIOUS
<1>9. kid # NONE
  BY <1>4, <1>6 DEF SignsFor, GoesBy
<1>10. TrustedAsWritten(d) /\ d \in WrittenDomains(verifier.config)
  BY <1>4, <1>5, BuiltAsWritten
<1>11. bundle = verifier.bundle.domains[d] /\ bundle # NONE
  <2>1. TrustDomain(token.payload.sub) = d
    BY <1>4, <1>5 DEF TrustDomain
  <2>2. /\ d \in DOMAIN verifier.bundle.domains
        /\ verifier.bundle.domains[d] = ParseDomain(Written(verifier.config, d))
        /\ ParseDomain(Written(verifier.config, d)) # NONE
    BY <1>10 DEF TrustedAsWritten
  <2> QED BY <1>7, <2>1, <2>2 DEF DomainBundle
<1>12. key = token.signer /\ key # NONE /\ key.kty \in {"RSA", "EC"}
  BY <1>4, <1>5, <1>6, <1>8, <1>9, <1>10, <1>11, DomainKeys
<1>13. PICK checks : checks = <<DecodeFault(token, key),
                                BindingsFault(verifier.bundle, token.payload, g, now)>>
  OBVIOUS
<1>14. FirstFault(checks) # "UNTRUSTED_KEY"
  <2>1. Len(checks) = 2 /\ DOMAIN checks = 1 .. Len(checks)
    BY <1>13
  <2>2. \A i \in DOMAIN checks : checks[i] # "UNTRUSTED_KEY"
    <3>1. checks[1] # "UNTRUSTED_KEY" /\ checks[2] # "UNTRUSTED_KEY"
      BY <1>12, <1>13, DecodeTrusts, BindingsTrust
    <3> QED BY <2>1, <3>1
  <2> QED BY <2>1, <2>2, FirstFaultAmong
<1> QED BY <1>3, <1>6, <1>7, <1>8, <1>9, <1>11, <1>12, <1>13, <1>14
        DEF JwtFault

LEMMA BuiltIsWhole == Built => AllOrNothing
<1> SUFFICES ASSUME Built, verifier # NONE PROVE AllOrNothing
  BY DEF AllOrNothing
<1>1. PICK config : config = verifier.config /\ ConfigParses(config)
  BY DEF Built
<1>2. ASSUME NEW d \in WrittenDomains(config)
      PROVE  /\ Written(config, d) # MALFORMED
             /\ \A i \in DOMAIN WrittenKeys(Written(config, d)) :
                    LET key == WrittenKeys(Written(config, d))[i].key
                    IN  key # MALFORMED /\ key.kty \in {"RSA", "EC"}
             /\ MALFORMED \notin WrittenCAs(Written(config, d))
  <2>1. PICK material : material = Written(config, d)
    OBVIOUS
  <2>2. DomainParses(material)
    BY <1>1, <1>2, <2>1, DomainsAreWritten
  <2>3. /\ JwkSet(material).keys = WrittenKeys(material)
        /\ Range(CaCerts(material)) = WrittenCAs(material)
    BY <2>2, MaterialIsWritten
  <2> QED BY <2>1, <2>2, <2>3 DEF DomainParses, JwkSetParses, CaCertsParse, Range
<1>3. config # MALFORMED
  BY <1>1 DEF ConfigParses
<1>4. "expected_audience" \in DOMAIN config =>
          config["expected_audience"] \notin {MALFORMED, {}}
  BY <1>1 DEF ConfigParses, AudienceParses, Get
<1> QED BY <1>1, <1>2, <1>3, <1>4 DEF AllOrNothing

-----------------------------------------------------------------------------
Inv == Built /\ AcceptedIsBound /\ UntrustedHasCause

LEMMA InitInv == Init => Inv
BY DEF Init, Inv, Built, AcceptedIsBound, UntrustedHasCause, Accepted

LEMMA StepInv == Inv /\ [Next]_vars => Inv'
<1> SUFFICES ASSUME Inv, [Next]_vars PROVE Inv'
  OBVIOUS
<1>0. Built /\ AcceptedIsBound /\ UntrustedHasCause
  BY DEF Inv
<1>1. CASE UNCHANGED <<verifier, outcome>> /\ file' \in Configs
  BY <1>0, <1>1 DEF Inv, Built, AcceptedIsBound, Accepted, UntrustedHasCause,
                    Intended
<1>2. CASE UNCHANGED vars \/ Edit
  BY <1>0, <1>1, <1>2 DEF vars, Edit, Built
<1>3. ASSUME NEW host \in HostAudiences, Start(host) PROVE Inv'
  <2>1. PICK config : config = file
    OBVIOUS
  <2>2. PICK bundle : bundle = Parse(config)
    OBVIOUS
  <2>3. /\ ConfigParses(config) /\ config \in Configs
        /\ verifier' = [bundle |-> [bundle EXCEPT !.expected_audience =
                                        EffectiveAudience(host, bundle)],
                        config |-> config, host |-> host]
        /\ outcome' = NONE /\ file' = file
    BY <1>0, <1>3, <2>1, <2>2 DEF Start, Built
  <2>4. Built'
    <3>1. /\ verifier'.config = config /\ verifier'.host = host
          /\ verifier'.bundle.domains = bundle.domains
          /\ verifier'.bundle.expected_audience = EffectiveAudience(host, bundle)
      BY <2>2, <2>3 DEF Parse
    <3> QED BY <2>1, <2>2, <2>3, <3>1 DEF Built
  <2> QED BY <2>3, <2>4 DEF Inv, AcceptedIsBound, Accepted, UntrustedHasCause
<1>4. ASSUME NEW host \in HostAudiences, StartFails(host) PROVE Inv'
  BY <1>0, <1>4 DEF StartFails, Inv, Built, AcceptedIsBound, Accepted,
                    UntrustedHasCause
<1>5. ASSUME NEW p \in Presentations, NEW now \in Instants, Verify(p, now)
      PROVE  Inv'
  <2>1. PICK fault : fault = VerifyFault(verifier.bundle, p.attestation, p.gco, now)
    OBVIOUS
  <2>2. /\ verifier # NONE
        /\ outcome' = [what |-> p, now |-> now, fault |-> fault]
        /\ UNCHANGED <<file, verifier>>
    BY <1>5, <2>1 DEF Verify
  <2>3. Built'
    BY <1>0, <2>2 DEF Built
  <2>4. fault = "OK" => Established(p, now)
    BY <1>0, <2>1, <2>2, AcceptedIsEstablished
  <2>5. fault = "UNTRUSTED_KEY" /\ p.attestation.format = "JWT_SVID" => Untrusted(p)
    BY <1>0, <2>1, <2>2, RefusedIsUntrusted
  <2>6. outcome'.what = p /\ outcome'.now = now /\ outcome'.fault = fault
    BY <2>2
  <2>7. AcceptedIsBound'
    BY <2>2, <2>4, <2>6 DEF AcceptedIsBound, Accepted, Established, Intended
  <2>8. UntrustedHasCause'
    BY <2>2, <2>5, <2>6 DEF UntrustedHasCause, Untrusted
  <2> QED BY <2>3, <2>7, <2>8 DEF Inv
<1> QED BY <1>2, <1>3, <1>4, <1>5 DEF Next

(***************************************************************************)
(* A verifier's acceptance means what the operator wrote: the token is     *)
(* signed by a key or leaf of the domain of the GCO's own identity in the  *)
(* configuration the host started on, and says the GCO, for its audience   *)
(* and in its time, although verify() first believes the sub it is given.  *)
(***************************************************************************)
THEOREM AcceptancesAreAnchored == Spec => []AcceptedIsBound
<1>1. Inv => AcceptedIsBound
  BY DEF Inv
<1> QED BY InitInv, StepInv, <1>1, PTL DEF Spec

(***************************************************************************)
(* UNTRUSTED_KEY is never said of a JWT signed by the key that is listed,  *)
(* last of its kid, in the domain of its sub.                              *)
(***************************************************************************)
THEOREM ListedKeysAreTrusted == Spec => []UntrustedHasCause
<1>1. Inv => UntrustedHasCause
  BY DEF Inv
<1> QED BY InitInv, StepInv, <1>1, PTL DEF Spec

(***************************************************************************)
(* A host starts on the whole of a configuration or does not start.        *)
(***************************************************************************)
THEOREM ConfigIsAllOrNothing == Spec => []AllOrNothing
<1>1. Inv => AllOrNothing
  BY BuiltIsWhole DEF Inv
<1> QED BY InitInv, StepInv, <1>1, PTL DEF Spec
=============================================================================
