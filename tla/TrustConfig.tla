---------------------------- MODULE TrustConfig ----------------------------
(***************************************************************************)
(* From the trust configuration an operator writes to the verdicts of the  *)
(* verifier a host builds on it: TrustBundle.from_json_file and            *)
(* from_mapping (gco/trust.py), the audience a host may give instead       *)
(* (AttestationVerifier.__init__), and verify().  The host reads the file  *)
(* when it starts and never again, while the file is edited.               *)
(*                                                                         *)
(* A configuration is a dict: a function on the keys it has.  A JWK is     *)
(* [kid, key], its kid NONE when it has none, its key MALFORMED when PyJWK *)
(* refuses it; a set of JWKs is [keys], a list; an audience is the set of  *)
(* strings given; MALFORMED stands for a value of the wrong type, <<>> for *)
(* an empty dict or list.                                                  *)
(***************************************************************************)
EXTENDS Attestation, TLC

CONSTANTS
    Configs,       \* what the file may hold; MALFORMED when it is not a dict
    HostAudiences, \* what hosts pass as expected_audience; NONE for nothing
    Presentations, \* the (attestation, GCO) pairs presented
    Instants       \* the times verify() samples

\* dict.get
Get(dict, key) == IF key \in DOMAIN dict THEN dict[key] ELSE NONE

\* "a or b" on material that may be missing or empty
Or(a, b) == IF a \in {NONE, <<>>} THEN b ELSE a

-----------------------------------------------------------------------------
(* Parsing *)

\* Mutant: an entry that does not parse is taken for one that is not there.
JwkSetParsesLeniently(set) == set # MALFORMED /\ set.keys # MALFORMED

\* _parse_jwks refuses the whole set for one bad key.
JwkSetParses(set) ==
    /\ set # MALFORMED
    /\ set.keys # MALFORMED
    /\ \A i \in DOMAIN set.keys :
           /\ set.keys[i].key # MALFORMED
           /\ set.keys[i].key.kty \in {"RSA", "EC"}

\* Mutant: the index is counted from one.
KidFromOne(keys, i) ==
    IF keys[i].kid = NONE THEN "key-" \o ToString(i) ELSE keys[i].kid

\* A key without kid is named after its index in the list.
Kid(keys, i) ==
    IF keys[i].kid = NONE THEN "key-" \o ToString(i - 1) ELSE keys[i].kid

\* _parse_jwks; TrustedKey reads the list as the dict it builds.
ParseJwks(set) ==
    [i \in DOMAIN set.keys |->
        [kid |-> Kid(set.keys, i), key |-> set.keys[i].key]]

\* _parse_ca_certs, and the Store of them if there is one
CaCertsParse(certs) ==
    /\ certs # MALFORMED
    /\ \A i \in DOMAIN certs : certs[i] # MALFORMED

CaStore(certs) == IF certs = <<>> THEN NONE ELSE Range(certs)

\* _parse_domain: the material it parses, under either name
JwkSet(material) ==
    Or(Or(Get(material, "jwks"), Get(material, "jwk_set")), [keys |-> <<>>])

CaCerts(material) ==
    Or(Or(Get(material, "ca_certs"), Get(material, "ca_certificates")), <<>>)

DomainParses(material) ==
    /\ material \notin {MALFORMED, NONE}
    /\ JwkSetParses(JwkSet(material))
    /\ CaCertsParse(CaCerts(material))

ParseDomain(material) ==
    [jwks |-> ParseJwks(JwkSet(material)), ca_store |-> CaStore(CaCerts(material))]

\* _parse_expected_audience and _coerce_expected_audience
AudienceParses(value) == value \notin {MALFORMED, {}}

\* from_mapping: the wrapper, or every other top-level entry is a domain.
TrustDomains(config) ==
    IF Get(config, "trust_domains") # NONE THEN config["trust_domains"]
    ELSE [d \in DOMAIN config \ {"expected_audience"} |-> config[d]]

ConfigParses(config) ==
    /\ config # MALFORMED
    /\ TrustDomains(config) # MALFORMED
    /\ \A d \in DOMAIN TrustDomains(config) :
           DomainParses(TrustDomains(config)[d])
    /\ AudienceParses(Get(config, "expected_audience"))

Parse(config) ==
    [domains |-> [d \in DOMAIN TrustDomains(config) |->
                     ParseDomain(TrustDomains(config)[d])],
     expected_audience |-> Get(config, "expected_audience")]

\* What is parsed is there, and JSON names its domains.
ASSUME ConfigsAssumption ==
    \A config \in Configs : ConfigParses(config) =>
        \A d \in DOMAIN TrustDomains(config) :
            LET material == TrustDomains(config)[d]
                set      == JwkSet(material)
            IN  /\ IsList(set.keys)
                /\ NONE \notin {d, ParseDomain(material)}
                                 \cup {set.keys[i].key : i \in DOMAIN set.keys}
                                 \cup Range(ParseJwks(set))

\* The exp claim is a number or is unusable.
ASSUME PresentationsAssumption ==
    /\ Instants \subseteq Int
    /\ \A p \in Presentations :
           \/ p.attestation = NONE
           \/ p.attestation.value = NONE
           \/ p.attestation.value.payload.exp \in Int \cup {NONE, BAD}

-----------------------------------------------------------------------------
VARIABLES
    file,      \* the configuration on disk
    verifier,  \* the verifier the host has built, NONE if it has none
    outcome    \* what its verify() returned; NONE before the call

vars == <<file, verifier, outcome>>

Init == file \in Configs /\ verifier = NONE /\ outcome = NONE

Edit ==
    /\ file' \in Configs
    /\ UNCHANGED <<verifier, outcome>>

\* Mutant: what the bundle says of the audience wins over the host.
EffectiveFromBundle(host, bundle) ==
    IF bundle.expected_audience = NONE THEN host ELSE bundle.expected_audience

\* AttestationVerifier.__init__
EffectiveAudience(host, bundle) ==
    IF host = NONE THEN bundle.expected_audience ELSE host

\* The host starts, or starts again, on what the file holds now.
Start(host) ==
    LET bundle == Parse(file)
    IN  /\ ConfigParses(file)
        /\ AudienceParses(host)
        /\ verifier' = [bundle |-> [bundle EXCEPT !.expected_audience =
                                       EffectiveAudience(host, bundle)],
                        config |-> file, host |-> host]
        /\ outcome' = NONE
        /\ UNCHANGED file

\* TrustBundleError, or the ValueError of an unusable audience: no verifier.
StartFails(host) ==
    /\ ~ConfigParses(file) \/ ~AudienceParses(host)
    /\ verifier' = NONE
    /\ outcome' = NONE
    /\ UNCHANGED file

\* verify() without a replay cache.  It keeps nothing from one call to the
\* next, so one call for each start stands for all.
Verify(p, now) ==
    /\ verifier # NONE
    /\ outcome = NONE
    /\ outcome' = [what |-> p, now |-> now,
                   fault |-> VerifyFault(verifier.bundle, p.attestation, p.gco, now)]
    /\ UNCHANGED <<file, verifier>>

Next ==
    \/ Edit
    \/ \E host \in HostAudiences : Start(host) \/ StartFails(host)
    \/ \E p \in Presentations, now \in Instants : Verify(p, now)

Spec == Init /\ [][Next]_vars

-----------------------------------------------------------------------------
(* What the operator wrote, read without the parser: the list of keys of a *)
(* domain (the first of the two names that lists anything), the key that   *)
(* goes by a kid (the last listed), its CAs, the audience.                 *)
Written(config, d) ==
    IF "trust_domains" \in DOMAIN config /\ config["trust_domains"] # NONE
    THEN config["trust_domains"][d] ELSE config[d]

WrittenDomains(config) ==
    IF "trust_domains" \in DOMAIN config /\ config["trust_domains"] # NONE
    THEN DOMAIN config["trust_domains"]
    ELSE DOMAIN config \ {"trust_domains", "expected_audience"}

Filled(material, names) ==
    {n \in names \cap DOMAIN material : material[n] \notin {NONE, <<>>}}

WrittenKeys(material) ==
    IF "jwks" \in Filled(material, {"jwks"}) THEN material["jwks"].keys
    ELSE IF Filled(material, {"jwk_set"}) # {} THEN material["jwk_set"].keys
    ELSE <<>>

GoesBy(keys, i, kid) ==
    /\ kid # NONE
    /\ kid = IF keys[i].kid # NONE THEN keys[i].kid ELSE "key-" \o ToString(i - 1)

SignsFor(keys, kid) ==
    {keys[i].key : i \in {k \in DOMAIN keys :
        GoesBy(keys, k, kid) /\ \A l \in DOMAIN keys :
                                    l > k => ~GoesBy(keys, l, kid)}}

WrittenCAs(material) ==
    LET names == Filled(material, {"ca_certs", "ca_certificates"})
        name  == IF "ca_certs" \in names THEN "ca_certs" ELSE "ca_certificates"
    IN  IF names = {} THEN {} ELSE Range(material[name])

(***************************************************************************)
(* What an acceptance means.  The GCO presented is the one the token was   *)
(* signed for, in its time window, by the key that the configuration the   *)
(* host started on lists for the trust domain of the GCO's own model       *)
(* identity and for the kid in the header, or by a leaf under a CA of that *)
(* domain, although verify() picks the domain from a claim it has not      *)
(* verified yet; and if host or configuration name an audience, the token  *)
(* is for it.                                                              *)
(***************************************************************************)
Anchored(p, config, now) ==
    LET token  == p.attestation.value
        domain == p.gco.model_identity.domain
        x5c    == token.header.x5c
    IN  /\ domain \in WrittenDomains(config)
        /\ IF p.attestation.format = "JWT_SVID"
           THEN token.signer \in SignsFor(WrittenKeys(Written(config, domain)),
                                          token.header.kid)
           ELSE /\ x5c.key = token.signer
                /\ x5c.issuer \in WrittenCAs(Written(config, domain))
                /\ now <= x5c.not_after

Intended(claims) ==
    LET audience == IF verifier.host # NONE THEN verifier.host
                    ELSE IF "expected_audience" \in DOMAIN verifier.config
                         THEN verifier.config["expected_audience"] ELSE NONE
    IN  audience = NONE \/ \E a \in audience : claims.aud # NONE /\ a \in claims.aud

Accepted == outcome # NONE /\ outcome.fault = "OK"

AcceptedIsBound ==
    Accepted =>
        LET p      == outcome.what
            claims == p.attestation.value.payload
        IN  /\ Anchored(p, verifier.config, outcome.now)
            /\ claims.sub = p.gco.model_identity
            /\ claims.gco_hash = canonical_gco_hash(p.gco)
            /\ Intended(claims)
            /\ outcome.now < claims.exp
            /\ \A c \in {claims.nbf, claims.iat} : c # NONE => c <= outcome.now

(***************************************************************************)
(* UNTRUSTED_KEY has a cause in the file the host started on: the key that *)
(* signed a JWT, if the file lists it under the kid of its header in the   *)
(* domain of its sub, is never refused as untrusted.                       *)
(***************************************************************************)
UntrustedHasCause ==
    outcome # NONE /\ outcome.fault = "UNTRUSTED_KEY"
        /\ outcome.what.attestation.format = "JWT_SVID" =>
            LET token == outcome.what.attestation.value
                sub   == token.payload.sub
            IN  \/ sub = NONE
                \/ sub.domain \notin WrittenDomains(verifier.config)
                \/ token.signer \notin
                       SignsFor(WrittenKeys(Written(verifier.config, sub.domain)),
                                token.header.kid)

(***************************************************************************)
(* No verifier stands on part of a configuration: one key, certificate or  *)
(* audience that cannot be used, in any domain, and the host does not      *)
(* start, so a token of another domain is not accepted either.             *)
(***************************************************************************)
AllOrNothing ==
    verifier # NONE =>
        LET config == verifier.config
        IN  /\ config # MALFORMED
            /\ \A d \in WrittenDomains(config) :
                   /\ Written(config, d) # MALFORMED
                   /\ \A i \in DOMAIN WrittenKeys(Written(config, d)) :
                          LET key == WrittenKeys(Written(config, d))[i].key
                          IN  key # MALFORMED /\ key.kty \in {"RSA", "EC"}
                   /\ MALFORMED \notin WrittenCAs(Written(config, d))
            /\ "expected_audience" \in DOMAIN config =>
                   config["expected_audience"] \notin {MALFORMED, {}}
=============================================================================
