--------------------------- MODULE RuntimeProofs ---------------------------
(***************************************************************************)
(* Proofs about GovernanceRuntime and Boundaries, for any number of        *)
(* threads and hosts, any roots and requests, and whatever is forged of    *)
(* what circulates.  The second half takes what a call of the runtime      *)
(* keeps to the programs of the MCP boundary and of gco derive, whose own  *)
(* stages are few: what they send each other is what they made.            *)
(***************************************************************************)
EXTENDS Boundaries, AuthorityProofs

-----------------------------------------------------------------------------
(* What may circulate *)

\* A root holds at least the authority of g, and for longer.
Rooted(g) == \E r \in Roots : Within(g, r) /\ g.expires_at <= r.expires_at

\* An attestation no verification accepts: what a preview carries.
Dud(a) == a.format = "JWT_SVID" /\ a.value.shape # "ok"

\* An attestation that can be accepted names the GCO it is on.
Bound(g) == Dud(g.attestation) \/ Claims(g).gco_hash = canonical_gco_hash(g)

\* Members of the pool.
Backed(g) == IsAttested(g) /\ Rooted(g) /\ Bound(g)

\* Some host's verifier accepts it.
Passes(g, now) ==
    \E h \in Hosts : VerifyFault(Trust[h], g.attestation, g, now) = "OK"

\* What a call may be about: if it passes verification it is rooted.
Sound(g) ==
    g # MALFORMED =>
        /\ IsAttested(g)
        /\ (\E now \in 0 .. MaxClock : Passes(g, now)) => Rooted(g)

\* It passed verification between two instants.
Verified(g, from, to) ==
    g # MALFORMED /\ \E now \in from .. to : Passes(g, now)

LEMMA DudFails ==
    ASSUME NEW g, NEW now, Dud(g.attestation)
    PROVE  ~Passes(g, now)
BY Zenon DEF Dud, Passes, VerifyFault, JwtFault

(***************************************************************************)
(* verify() accepts no attestation without a trusted signature.            *)
(***************************************************************************)
LEMMA PassesSigned ==
    ASSUME NEW g, NEW now, Passes(g, now)
    PROVE  Signed(g.attestation)
<1> DEFINE a == g.attestation
           token == a.value
<1>0. PICK host \in Hosts : VerifyFault(Trust[host], a, g, now) = "OK"
  BY DEF Passes
<1> DEFINE trust == Trust[host]
           domains == trust.domains
<1>1. a # NONE /\ a.value # NONE
  BY <1>0 DEF VerifyFault
<1>2. \A domain : DomainBundle(trust, domain) # NONE =>
          domain \in DOMAIN domains /\ DomainBundle(trust, domain) = domains[domain]
  BY DEF DomainBundle
<1>3. CASE a.format = "JWT_SVID"
  <2> DEFINE domain == TrustDomain(token.payload.sub)
             bundle == DomainBundle(trust, domain)
             key == TrustedKey(bundle, token.header.kid)
             entry == DictGet(bundle.jwks, "kid", token.header.kid)
  <2>1. JwtFault(trust, token, g, now) = "OK"
    BY <1>0, <1>1, <1>3 DEF VerifyFault
  <2>2. bundle # NONE /\ key # NONE /\ DecodeFault(token, key) = "OK"
    BY <2>1, FirstOfTwo DEF JwtFault
  <2>3. domain \in DOMAIN domains /\ bundle = domains[domain]
    <3> HIDE DEF domain
    <3> QED BY <1>2, <2>2
  <2>4. token.signer = key
    BY <2>2, DecodedSigned
  <2>5. entry # NONE /\ key = entry.key
    BY <2>2 DEF TrustedKey
  <2>6. IsList(bundle.jwks)
    BY <2>3, TrustAssumption DEF IsTrust
  <2>7. bundle.jwks \in Seq({bundle.jwks[i] : i \in DOMAIN bundle.jwks})
    BY <2>6 DEF IsList
  <2>8. \E i \in DOMAIN bundle.jwks : entry = bundle.jwks[i]
    <3> DEFINE jwks == bundle.jwks
               kid == token.header.kid
    <3>1. jwks \in Seq({jwks[i] : i \in DOMAIN jwks}) /\ DictGet(jwks, "kid", kid) # NONE
      BY <2>5, <2>7
    <3> HIDE DEF jwks, kid
    <3>2. \E i \in DOMAIN jwks : DictGet(jwks, "kid", kid) = jwks[i]
      BY <3>1, DictGetFinds
    <3> QED BY <3>2 DEF jwks, kid
  <2>9. \E e \in Range(bundle.jwks) : e.key = token.signer
    <3> HIDE DEF bundle, entry, key
    <3> QED BY <2>4, <2>5, <2>8 DEF Range
  <2> HIDE DEF bundle, domain, key, entry
  <2> QED BY <1>1, <2>3, <2>9 DEF Signed
<1>4. CASE a.format = "X509_SVID"
  <2> DEFINE x5c == token.header.x5c
             domain == TrustDomain(x5c.spiffe)
             bundle == DomainBundle(trust, domain)
  <2>1. X509Fault(trust, token, g, now) = "OK"
    BY <1>0, <1>1, <1>4 DEF VerifyFault
  <2>2. ChainFault(trust, x5c, now) = "OK" /\ DecodeFault(token, x5c.key) = "OK"
    BY <2>1 DEF X509Fault
  <2>3. /\ x5c \notin {NONE, BAD} /\ bundle # NONE /\ bundle.ca_store # NONE
        /\ x5c.issuer \in bundle.ca_store
    BY <2>2 DEF ChainFault, Check
  <2>4. domain \in DOMAIN domains /\ bundle = domains[domain]
    <3> HIDE DEF domain
    <3> QED BY <1>2, <2>3
  <2>5. token.signer = x5c.key
    BY <2>2, DecodedSigned
  <2> HIDE DEF bundle, domain
  <2> QED BY <1>1, <1>4, <2>3, <2>4, <2>5 DEF Signed
<1> QED BY <1>0, <1>1, <1>3, <1>4 DEF VerifyFault

\* The canonical hash leaves out the attestation only.
LEMMA SameBody ==
    ASSUME NEW g, NEW h, IsAttested(g), IsAttested(h),
           canonical_gco_hash(g) = canonical_gco_hash(h)
    PROVE  /\ g.tool_authority = h.tool_authority
           /\ g.state_access_permissions = h.state_access_permissions
           /\ g.expires_at = h.expires_at
<1>1. \A x \in {g, h} : \A f \in DOMAIN x \ {"attestation"} :
          canonical_gco_hash(x)[f] = x[f]
  BY DEF canonical_gco_hash
<1>2. \A x \in {g, h} : {"tool_authority", "state_access_permissions", "expires_at"}
                            \subseteq DOMAIN x \ {"attestation"}
  BY DEF IsAttested
<1>3. \A f \in {"tool_authority", "state_access_permissions", "expires_at"} : g[f] = h[f]
  BY <1>1, <1>2
<1> QED BY <1>3

\* Being rooted is about three fields.
LEMMA FieldsRooted ==
    ASSUME NEW g, NEW h, Rooted(h), g.tool_authority = h.tool_authority,
           g.state_access_permissions = h.state_access_permissions,
           g.expires_at = h.expires_at
    PROVE  Rooted(g)
<1>1. \A uri, scope : ToolCallFault(g, uri, scope) = ToolCallFault(h, uri, scope)
  BY DEF ToolCallFault
<1>2. \A namespace, mode :
          StateAccessFault(g, namespace, mode) = StateAccessFault(h, namespace, mode)
  BY DEF StateAccessFault
<1> QED BY <1>1, <1>2 DEF Rooted, Within

(***************************************************************************)
(* What GCOValidator.validate accepts of a rooted parent is rooted.        *)
(***************************************************************************)
LEMMA DelegationRooted ==
    ASSUME NEW parent, NEW child, NEW now, IsGCO(parent), IsGCO(child),
           Rooted(parent), ValidateFault(parent, child, now) = "OK"
    PROVE  Rooted(child)
<1>1. Delegated(parent, child)
  BY ValidateImpliesDelegated
<1>2. PICK r \in Roots : Within(parent, r) /\ parent.expires_at <= r.expires_at
  BY DEF Rooted
<1>3. Within(child, r)
  BY <1>1, <1>2, DelegatedCalls, DelegatedAccess DEF Within
<1>4. child.expires_at <= r.expires_at
  <2>1. child.expires_at <= parent.expires_at
    BY <1>1 DEF Delegated
  <2>2. /\ child.expires_at \in Int /\ parent.expires_at \in Int
        /\ r.expires_at \in Int
    BY RootsAssumption DEF IsGCO, IsAttested
  <2> QED BY <1>2, <2>1, <2>2
<1> QED BY <1>3, <1>4 DEF Rooted

\* What derive() returns, with whatever attestation.
LEMMA DerivedRooted ==
    ASSUME NEW parent, NEW request, NEW span, NEW now, NEW a, IsGCO(parent),
           IsRequest(request), Rooted(parent), IsAttestation(a),
           DeriveFault(parent, request) = "OK",
           ValidateFault(parent,
               ForValidation(DerivedChild(parent, request, span)), now) = "OK"
    PROVE  LET g == WithAttestation(DerivedChild(parent, request, span), a)
           IN  IsAttested(g) /\ Rooted(g)
<1> DEFINE body == DerivedChild(parent, request, span)
           g == WithAttestation(body, a)
           h == ForValidation(body)
<1>1. IsGCO(g) /\ IsGCO(h)
  BY MintedIsGCO DEF ForValidation
<1>2. Rooted(h)
  BY <1>1, DelegationRooted
<1>3. /\ g.tool_authority = h.tool_authority
      /\ g.state_access_permissions = h.state_access_permissions
      /\ g.expires_at = h.expires_at
      /\ g.attestation = a
      /\ {"tool_authority", "state_access_permissions", "expires_at", "attestation"}
             \subseteq DOMAIN g
  BY DEF WithAttestation, ForValidation, DerivedChild
<1> HIDE DEF g, h
<1>4. Rooted(g)
  BY <1>2, <1>3, FieldsRooted
<1>5. IsAttested(g)
  BY <1>1, <1>3 DEF IsAttested
<1> QED BY <1>4, <1>5 DEF g

LEMMA AttestedRooted ==
    ASSUME NEW g, NEW a, IsAttested(g), Rooted(g), IsAttestation(a)
    PROVE  LET h == WithAttestation(g, a)
           IN  IsAttested(h) /\ Rooted(h) /\ h.attestation = a
<1> DEFINE h == WithAttestation(g, a)
<1>1. /\ h.tool_authority = g.tool_authority
      /\ h.state_access_permissions = g.state_access_permissions
      /\ h.expires_at = g.expires_at /\ h.lineage = g.lineage
      /\ h.attestation = a /\ DOMAIN h = DOMAIN g
  BY DEF WithAttestation, IsAttested
<1> HIDE DEF h
<1>2. Rooted(h)
  BY <1>1, FieldsRooted
<1>3. IsAttested(h)
  BY <1>1 DEF IsAttested, IsGCO
<1> QED BY <1>1, <1>2, <1>3 DEF h

LEMMA RootsBacked == \A r \in Roots : Backed(r)
<1> SUFFICES ASSUME NEW r \in Roots PROVE Backed(r)
  OBVIOUS
<1>1. IsAttested(r) /\ Bound(r)
  BY RootsAssumption DEF Bound
<1>2. r.expires_at <= r.expires_at
  BY <1>1 DEF IsAttested, IsGCO
<1>3. Within(r, r)
  BY DEF Within
<1> QED BY <1>1, <1>2, <1>3 DEF Backed, Rooted

(***************************************************************************)
(* A forgery that passes verification has the attestation of a member of   *)
(* the pool, which names the body of that member.                          *)
(***************************************************************************)
LEMMA ForgeriesSound ==
    ASSUME NEW P, \A h \in P : Backed(h), NEW f, IsAttested(f),
           (\E h \in P : f.attestation = h.attestation) \/ ~Signed(f.attestation)
    PROVE  Sound(f)
<1> SUFFICES ASSUME NEW now \in 0 .. MaxClock, Passes(f, now) PROVE Rooted(f)
  BY DEF Sound
<1>1. PICK h \in P : f.attestation = h.attestation
  BY PassesSigned
<1>2. ~Dud(h.attestation)
  BY <1>1, DudFails
<1>3. Claims(h).gco_hash = canonical_gco_hash(h)
  BY <1>2 DEF Backed, Bound
<1>4. Claims(f).gco_hash = canonical_gco_hash(f)
  BY VerifiedFresh DEF Passes, Claims
<1>5. canonical_gco_hash(f) = canonical_gco_hash(h)
  BY <1>1, <1>3, <1>4 DEF Claims
<1> QED BY <1>5, SameBody, FieldsRooted DEF Backed

-----------------------------------------------------------------------------
(* Programs *)

\* The stages that attest the child of a call; those of Boundaries' programs,
\* which print a preview without verifying it, are among them.
Attests == {"issue", "sign_pem", "preview"}
Check1 == <<"check", 1>>
Check2 == <<"check", 2>>
Derives == <<"request", 1>>
Prints == <<"print", 1>>

(***************************************************************************)
(* What the invariant needs of what is left of a program: a check follows  *)
(* its sample, a child is attested right after it was derived, and is      *)
(* checked later, or only printed.                                         *)
(***************************************************************************)
Legal(todo) ==
    /\ Listed(todo)
    /\ \A i \in DOMAIN todo :
           /\ \A k \in 1 .. 2 :
                  todo[i] = <<"check", k>> /\ i > 1 => todo[i - 1] = <<"sample", k>>
           /\ todo[i] = Derives =>
                  /\ \A j \in DOMAIN todo :
                         j > i => todo[j] # Check1 /\ todo[j] # Derives
                  /\ \E j \in DOMAIN todo : j > i /\ todo[j] \in {Check2, Prints}
           /\ todo[i][1] \in Attests =>
                  /\ i > 1 => todo[i - 1] = Derives
                  /\ \A j \in DOMAIN todo : j > i => todo[j] # Derives
                  /\ \E j \in DOMAIN todo : j > i /\ todo[j] \in {Check2, Prints}
                  /\ todo[i][1] # "preview" =>
                         \E j \in DOMAIN todo : j > i /\ todo[j] = Check2
           /\ todo[i] = Prints => i = Len(todo)

LEMMA TailFacts ==
    ASSUME NEW p, Listed(p), p # <<>>
    PROVE  /\ Listed(Tail(p)) /\ Len(Tail(p)) = Len(p) - 1
           /\ DOMAIN Tail(p) = 1 .. Len(p) - 1
           /\ Tail(p) = <<>> <=> Len(p) = 1
           /\ \A i \in 1 .. Len(p) - 1 : Tail(p)[i] = p[i + 1]
           /\ \A i \in DOMAIN p : i # 1 => i - 1 \in DOMAIN Tail(p) /\ p[i] = Tail(p)[i - 1]
           /\ Head(p) = p[1] /\ Len(p) \in Nat /\ Len(p) >= 1 /\ DOMAIN p = 1 .. Len(p)
<1> DEFINE R == Range(p)
<1>1. p \in Seq(R)
  BY DEF Listed
<1> HIDE DEF R
<1>2. Tail(p) \in Seq(R) /\ Len(Tail(p)) = Len(p) - 1 /\ Head(p) = p[1]
  BY <1>1
<1>3. Listed(Tail(p))
  BY <1>2, SeqListed
<1>4. /\ \A i \in 1 .. Len(p) - 1 : Tail(p)[i] = p[i + 1]
      /\ Len(p) \in Nat /\ Len(p) >= 1 /\ DOMAIN p = 1 .. Len(p)
  BY <1>1
<1>5. DOMAIN Tail(p) = 1 .. Len(p) - 1
  BY <1>2
<1>6. \A i \in DOMAIN p : i # 1 => i - 1 \in DOMAIN Tail(p) /\ p[i] = Tail(p)[i - 1]
  BY <1>4, <1>5
<1> QED BY <1>2, <1>3, <1>4, <1>5, <1>6, ListedFacts

LEMMA RangeOfTail ==
    ASSUME NEW p, Listed(p), p # <<>>
    PROVE  /\ Range(Tail(p)) \subseteq Range(p)
           /\ Head(p) \in Range(p)
           /\ \A s \in Range(p) : s = Head(p) \/ s \in Range(Tail(p))
<1> DEFINE q == Tail(p)
<1>1. /\ DOMAIN q = 1 .. Len(p) - 1 /\ DOMAIN p = 1 .. Len(p) /\ Len(p) \in Nat
      /\ Len(p) >= 1 /\ Head(p) = p[1]
      /\ \A i \in DOMAIN q : i + 1 \in DOMAIN p /\ q[i] = p[i + 1]
      /\ \A i \in DOMAIN p : i # 1 => i - 1 \in DOMAIN q /\ p[i] = q[i - 1]
  BY TailFacts
<1> HIDE DEF q
<1>2. Range(q) \subseteq Range(p)
  BY <1>1 DEF Range
<1>3. Head(p) \in Range(p)
  BY <1>1 DEF Range
<1>4. ASSUME NEW i \in DOMAIN p PROVE p[i] = Head(p) \/ p[i] \in Range(q)
  BY <1>1, <1>4 DEF Range
<1> QED BY <1>2, <1>3, <1>4 DEF q, Range

(***************************************************************************)
(* What is left of a legal program is legal, and what has just been done   *)
(* tells what comes.                                                       *)
(***************************************************************************)
LEMMA NextStage ==
    ASSUME NEW p, Legal(p), p # <<>>, Tail(p) # <<>>
    PROVE  /\ Legal(Tail(p))
           /\ \A k \in 1 .. 2 : Head(Tail(p)) = <<"check", k>>
                                   => Head(p) = <<"sample", k>>
           /\ Head(Tail(p))[1] \in Attests => Head(p) = Derives
<1> DEFINE q == Tail(p)
<1>1. /\ Listed(q) /\ DOMAIN q = 1 .. Len(p) - 1 /\ DOMAIN p = 1 .. Len(p)
      /\ Len(q) = Len(p) - 1
      /\ Len(p) \in Nat /\ Len(p) >= 1 /\ Head(p) = p[1] /\ Len(p) # 1
      /\ \A i \in DOMAIN q : i + 1 \in DOMAIN p /\ q[i] = p[i + 1]
      /\ \A i \in DOMAIN p : i # 1 => i - 1 \in DOMAIN q /\ p[i] = q[i - 1]
  BY TailFacts DEF Legal
<1>2. Head(q) = q[1]
  BY <1>1, TailFacts
<1> HIDE DEF q
<1>3. q[1] = p[2] /\ 2 \in DOMAIN p
  BY <1>1
<1>4. \A k \in 1 .. 2 : Head(q) = <<"check", k>> => Head(p) = <<"sample", k>>
  <2> TAKE k \in 1 .. 2
  <2>1. p[2] = <<"check", k>> => p[2 - 1] = <<"sample", k>>
    BY <1>3 DEF Legal
  <2> QED BY <1>1, <1>2, <1>3, <2>1
<1>5. Head(q)[1] \in Attests => Head(p) = Derives
  <2>1. p[2][1] \in Attests => p[2 - 1] = Derives
    BY <1>3 DEF Legal
  <2> QED BY <1>1, <1>2, <1>3, <2>1
<1>6. ASSUME NEW i \in DOMAIN q
      PROVE  /\ \A k \in 1 .. 2 :
                    q[i] = <<"check", k>> /\ i > 1 => q[i - 1] = <<"sample", k>>
             /\ q[i] = Derives =>
                    /\ \A j \in DOMAIN q : j > i => q[j] # Check1 /\ q[j] # Derives
                    /\ \E j \in DOMAIN q : j > i /\ q[j] \in {Check2, Prints}
             /\ q[i][1] \in Attests =>
                    /\ i > 1 => q[i - 1] = Derives
                    /\ \A j \in DOMAIN q : j > i => q[j] # Derives
                    /\ \E j \in DOMAIN q : j > i /\ q[j] \in {Check2, Prints}
                    /\ q[i][1] # "preview" => \E j \in DOMAIN q : j > i /\ q[j] = Check2
             /\ q[i] = Prints => i = Len(q)
  <2>1. /\ i + 1 \in DOMAIN p /\ q[i] = p[i + 1] /\ i \in Nat
        /\ \A j \in DOMAIN q : j \in Nat /\ j + 1 \in DOMAIN p /\ q[j] = p[j + 1]
        /\ \A j \in DOMAIN p : j > i + 1 =>
               j - 1 \in DOMAIN q /\ j - 1 > i /\ p[j] = q[j - 1]
    BY <1>1
  <2>2. i > 1 => i - 1 \in DOMAIN q /\ q[i - 1] = p[(i + 1) - 1] /\ i + 1 > 1
    BY <1>1, <2>1
  <2>3. \A k \in 1 .. 2 : q[i] = <<"check", k>> /\ i > 1 => q[i - 1] = <<"sample", k>>
    BY <2>1, <2>2 DEF Legal
  <2>4. ASSUME q[i] = Derives
        PROVE  /\ \A j \in DOMAIN q : j > i => q[j] # Check1 /\ q[j] # Derives
               /\ \E j \in DOMAIN q : j > i /\ q[j] \in {Check2, Prints}
    <3>1. /\ \A j \in DOMAIN p : j > i + 1 => p[j] # Check1 /\ p[j] # Derives
          /\ \E j \in DOMAIN p : j > i + 1 /\ p[j] \in {Check2, Prints}
      BY <2>1, <2>4 DEF Legal
    <3>2. \A j \in DOMAIN q : j > i => j + 1 > i + 1
      BY <2>1
    <3> QED BY <2>1, <3>1, <3>2
  <2>5. ASSUME q[i][1] \in Attests
        PROVE  /\ i > 1 => q[i - 1] = Derives
               /\ \A j \in DOMAIN q : j > i => q[j] # Derives
               /\ \E j \in DOMAIN q : j > i /\ q[j] \in {Check2, Prints}
               /\ q[i][1] # "preview" => \E j \in DOMAIN q : j > i /\ q[j] = Check2
    <3>1. p[i + 1][1] \in Attests /\ p[i + 1] = q[i]
      BY <2>1, <2>5
    <3>2. /\ i + 1 > 1 => p[i + 1 - 1] = Derives
          /\ \A j \in DOMAIN p : j > i + 1 => p[j] # Derives
          /\ \E j \in DOMAIN p : j > i + 1 /\ p[j] \in {Check2, Prints}
          /\ p[i + 1][1] # "preview" => \E j \in DOMAIN p : j > i + 1 /\ p[j] = Check2
      BY <2>1, <3>1 DEF Legal
    <3>3. \A j \in DOMAIN q : j > i => j + 1 > i + 1
      BY <2>1
    <3>4. \A j \in DOMAIN q : j > i => q[j] # Derives
      BY <2>1, <3>2, <3>3
    <3>5. \E j \in DOMAIN q : j > i /\ q[j] \in {Check2, Prints}
      BY <2>1, <3>2
    <3>6. q[i][1] # "preview" => \E j \in DOMAIN q : j > i /\ q[j] = Check2
      BY <2>1, <3>1, <3>2
    <3> QED BY <2>2, <3>2, <3>4, <3>5, <3>6
  <2>6. q[i] = Prints => i = Len(q)
    <3>1. p[i + 1] = Prints => i + 1 = Len(p)
      BY <2>1 DEF Legal
    <3> QED BY <1>1, <2>1, <3>1
  <2> QED BY <2>3, <2>4, <2>5, <2>6
<1>7. Legal(q)
  BY <1>1, <1>6 DEF Legal
<1> QED BY <1>4, <1>5, <1>7 DEF q

\* After a derivation, and after the child is attested.
LEMMA AfterDerives ==
    ASSUME NEW p, Legal(p), p # <<>>, Head(p) = Derives
    PROVE  /\ Check1 \notin Range(Tail(p)) /\ Derives \notin Range(Tail(p))
           /\ Check2 \in Range(Tail(p)) \/ Prints \in Range(Tail(p))
           /\ Tail(p) # <<>>
<1> DEFINE q == Tail(p)
<1>1. /\ DOMAIN q = 1 .. Len(p) - 1 /\ DOMAIN p = 1 .. Len(p)
      /\ Len(p) \in Nat /\ Len(p) >= 1 /\ p[1] = Derives
      /\ \A i \in DOMAIN q : i + 1 \in DOMAIN p /\ i + 1 > 1 /\ q[i] = p[i + 1]
      /\ \A i \in DOMAIN p : i > 1 => i - 1 \in DOMAIN q /\ p[i] = q[i - 1]
      /\ q = <<>> <=> Len(p) = 1
  BY TailFacts DEF Legal
<1> HIDE DEF q
<1>2. 1 \in DOMAIN p
  BY <1>1
<1>3. /\ \A j \in DOMAIN p : j > 1 => p[j] # Check1 /\ p[j] # Derives
      /\ \E j \in DOMAIN p : j > 1 /\ p[j] \in {Check2, Prints}
  BY <1>1, <1>2 DEF Legal
<1>4. \A i \in DOMAIN q : q[i] # Check1 /\ q[i] # Derives
  BY <1>1, <1>3
<1>5. \E i \in DOMAIN q : q[i] \in {Check2, Prints}
  BY <1>1, <1>3
<1>6. q # <<>>
  BY <1>1, <1>5
<1> QED BY <1>4, <1>5, <1>6 DEF q, Range

LEMMA AfterAttests ==
    ASSUME NEW p, Legal(p), p # <<>>, Head(p)[1] \in Attests
    PROVE  /\ Derives \notin Range(Tail(p)) /\ Tail(p) # <<>>
           /\ Check2 \in Range(Tail(p)) \/ Prints \in Range(Tail(p))
           /\ Head(p)[1] # "preview" => Check2 \in Range(Tail(p))
<1> DEFINE q == Tail(p)
<1>1. /\ DOMAIN q = 1 .. Len(p) - 1 /\ DOMAIN p = 1 .. Len(p)
      /\ Len(p) \in Nat /\ Len(p) >= 1 /\ p[1] = Head(p)
      /\ \A i \in DOMAIN q : i + 1 \in DOMAIN p /\ i + 1 > 1 /\ q[i] = p[i + 1]
      /\ \A i \in DOMAIN p : i > 1 => i - 1 \in DOMAIN q /\ p[i] = q[i - 1]
      /\ q = <<>> <=> Len(p) = 1
  BY TailFacts DEF Legal
<1> HIDE DEF q
<1>2. 1 \in DOMAIN p
  BY <1>1
<1>3. /\ \A j \in DOMAIN p : j > 1 => p[j] # Derives
      /\ \E j \in DOMAIN p : j > 1 /\ p[j] \in {Check2, Prints}
      /\ p[1][1] # "preview" => \E j \in DOMAIN p : j > 1 /\ p[j] = Check2
  BY <1>1, <1>2 DEF Legal
<1>4. \A i \in DOMAIN q : q[i] # Derives
  BY <1>1, <1>3
<1>5. \E i \in DOMAIN q : q[i] \in {Check2, Prints}
  BY <1>1, <1>3
<1>6. p[1][1] # "preview" => \E i \in DOMAIN q : q[i] = Check2
  BY <1>1, <1>3
<1>7. q # <<>>
  BY <1>1, <1>5
<1> QED BY <1>1, <1>4, <1>5, <1>6, <1>7 DEF q, Range

-----------------------------------------------------------------------------
(***************************************************************************)
(* The inductive invariant of the calls: a GCO of a call has passed        *)
(* verification since the call began, or a check of it is still to come    *)
(* (a preview's child is only printed), and so has the child it attested.  *)
(***************************************************************************)
Flow(c, time) ==
    /\ Legal(c.todo)
    /\ c.host \in Hosts
    /\ c.began \in 0 .. time /\ c.now \in 0 .. time
    /\ Len(c.gcos) \in 0 .. 2 /\ DOMAIN c.gcos = 1 .. Len(c.gcos)
    /\ \A k \in DOMAIN c.gcos :
           /\ Sound(c.gcos[k])
           /\ \/ <<"check", k>> \in Range(c.todo)
              \/ Verified(c.gcos[k], c.began, time)
              \/ k = 2 /\ Prints \in Range(c.todo)
    /\ \A k \in 1 .. 2 : Head(c.todo) = <<"check", k>> =>
           c.began <= c.now /\ c.gcos[k] # MALFORMED
    /\ Head(c.todo)[1] \in Attests =>
           Len(c.gcos) = 2 /\ IsAttested(c.gcos[2]) /\ Rooted(c.gcos[2])
    /\ Derives \in Range(c.todo) =>
           c.child = NONE /\ c.request \in Requests /\ Len(c.gcos) = 1
    /\ c.child # NONE =>
           /\ IsAttested(c.child) /\ Rooted(c.child)
           /\ \/ Bound(c.child)
              \/ /\ Check2 \in Range(c.todo)
                 /\ Len(c.gcos) = 2 /\ c.child = c.gcos[2]

\* What an allowed decision rests on.
Settled(d, time) ==
    /\ d.host \in Hosts /\ d.began \in 0 .. d.at /\ d.at \in 0 .. time
    /\ \A g \in Range(d.gcos) : Sound(g) /\ Verified(g, d.began, d.at)
    /\ d.child # NONE => Backed(d.child)

CallsShaped ==
    DOMAIN call = Threads /\ \A t \in Threads : DOMAIN call[t] = DOMAIN Idle

FlowInv ==
    /\ clock \in 0 .. MaxClock
    /\ CallsShaped
    /\ \A t \in Threads : call[t].todo # <<>> => Flow(call[t], clock)
    /\ Listed(decisions)
    /\ \A i \in DOMAIN decisions : Settled(decisions[i], clock)
    /\ \A g \in issued : Rooted(g)

LEMMA PrintsLast ==
    ASSUME NEW p, Legal(p), p # <<>>, Head(p) = Prints
    PROVE  Tail(p) = <<>>
<1>1. 1 \in DOMAIN p /\ p[1] = Prints /\ (Tail(p) = <<>> <=> Len(p) = 1)
  BY TailFacts DEF Legal
<1> QED BY <1>1 DEF Legal

LEMMA VerifiedRooted ==
    ASSUME NEW g, NEW from \in Nat, NEW to \in 0 .. MaxClock, Sound(g),
           Verified(g, from, to)
    PROVE  IsAttested(g) /\ Rooted(g) /\ Bound(g)
<1>1. PICK now \in from .. to : Passes(g, now)
  BY DEF Verified
<1>2. now \in 0 .. MaxClock
  BY RuntimeBounds
<1>3. Bound(g)
  BY <1>1, VerifiedFresh DEF Passes, Bound, Claims
<1> QED BY <1>1, <1>2, <1>3 DEF Sound, Verified

LEMMA FlowLater ==
    ASSUME NEW time \in Nat, NEW later \in Nat, time <= later, NEW c, Flow(c, time)
    PROVE  Flow(c, later)
<1>1. \A g : Verified(g, c.began, time) => Verified(g, c.began, later)
  BY DEF Verified, Flow
<1>2. c.began \in 0 .. later /\ c.now \in 0 .. later
  BY DEF Flow
<1>3. \A k \in DOMAIN c.gcos :
          \/ <<"check", k>> \in Range(c.todo)
          \/ Verified(c.gcos[k], c.began, later)
          \/ k = 2 /\ Prints \in Range(c.todo)
  BY <1>1 DEF Flow
<1> QED BY <1>2, <1>3 DEF Flow

LEMMA SettledLater ==
    ASSUME NEW time \in Nat, NEW later \in Nat, time <= later, NEW d,
           Settled(d, time)
    PROVE  Settled(d, later)
BY DEF Settled

(***************************************************************************)
(* A stage that passes and leaves the GCOs of the call as they are.        *)
(***************************************************************************)
LEMMA FlowPasses ==
    ASSUME NEW time \in 0 .. MaxClock, NEW c, NEW d, Flow(c, time),
           c.todo # <<>>, Tail(c.todo) # <<>>,
           Head(c.todo) # Derives, Head(c.todo)[1] \notin Attests,
           d.todo = Tail(c.todo), d.host = c.host, d.began = c.began,
           d.gcos = c.gcos, d.child = c.child, d.request = c.request,
           d.now \in 0 .. time,
           \A k \in 1 .. 2 : Head(c.todo) = <<"sample", k>> =>
                               d.now = time /\ c.gcos[k] # MALFORMED,
           \A k \in DOMAIN c.gcos : Head(c.todo) = <<"check", k>> =>
                                       Verified(c.gcos[k], c.began, time)
    PROVE  Flow(d, time)
<1> DEFINE p == c.todo
           q == Tail(p)
<1>1. /\ Legal(q) /\ Legal(p)
      /\ \A k \in 1 .. 2 : Head(q) = <<"check", k>> => Head(p) = <<"sample", k>>
      /\ Head(q)[1] \notin Attests
  BY NextStage DEF Flow
<1>2. /\ Range(q) \subseteq Range(p)
      /\ \A s \in Range(p) : s = Head(p) \/ s \in Range(q)
  BY <1>1, RangeOfTail DEF Legal
<1>3. Head(p) # Prints
  BY <1>1, PrintsLast
<1>4. c.began \in 0 .. time /\ DOMAIN c.gcos = 1 .. Len(c.gcos) /\ Len(c.gcos) \in 0 .. 2
  BY DEF Flow
<1> HIDE DEF p, q
<1>5. \A k \in DOMAIN d.gcos :
          /\ Sound(d.gcos[k])
          /\ \/ <<"check", k>> \in Range(q)
             \/ Verified(d.gcos[k], d.began, time)
             \/ k = 2 /\ Prints \in Range(q)
  <2> TAKE k \in DOMAIN d.gcos
  <2>1. Sound(c.gcos[k])
    BY DEF Flow
  <2>2. \/ <<"check", k>> \in Range(p)
        \/ Verified(c.gcos[k], c.began, time)
        \/ k = 2 /\ Prints \in Range(p)
    BY DEF Flow, p
  <2>3. CASE <<"check", k>> \in Range(p)
    BY <1>2, <2>1, <2>3 DEF p
  <2> QED BY <1>2, <1>3, <2>1, <2>2, <2>3
<1>6. \A k \in 1 .. 2 : Head(q) = <<"check", k>> =>
          d.began <= d.now /\ d.gcos[k] # MALFORMED
  BY <1>1, <1>4 DEF p
<1>7. Derives \in Range(q) =>
          d.child = NONE /\ d.request \in Requests /\ Len(d.gcos) = 1
  BY <1>2 DEF Flow, p
<1>8. d.child # NONE =>
          /\ IsAttested(d.child) /\ Rooted(d.child)
          /\ \/ Bound(d.child)
             \/ /\ Check2 \in Range(q)
                /\ Len(d.gcos) = 2 /\ d.child = d.gcos[2]
  <2> SUFFICES ASSUME d.child # NONE
               PROVE  /\ IsAttested(d.child) /\ Rooted(d.child)
                      /\ \/ Bound(d.child)
                         \/ /\ Check2 \in Range(q)
                            /\ Len(d.gcos) = 2 /\ d.child = d.gcos[2]
    OBVIOUS
  <2>1. /\ IsAttested(c.child) /\ Rooted(c.child)
        /\ \/ Bound(c.child)
           \/ /\ Check2 \in Range(p)
              /\ Len(c.gcos) = 2 /\ c.child = c.gcos[2]
    BY DEF Flow, p
  <2>2. CASE Check2 = Head(p) /\ Len(c.gcos) = 2 /\ c.child = c.gcos[2]
    <3>1. 2 \in DOMAIN c.gcos /\ Verified(c.gcos[2], c.began, time)
      BY <1>4, <2>2 DEF Check2, p
    <3>2. Sound(c.gcos[2])
      BY <3>1 DEF Flow
    <3>3. Bound(c.gcos[2])
      BY <1>4, <3>1, <3>2, VerifiedRooted
    <3> QED BY <2>1, <2>2, <3>3
  <2> QED BY <1>2, <2>1, <2>2
<1> QED BY <1>1, <1>4, <1>5, <1>6, <1>7, <1>8 DEF Flow, p, q

(***************************************************************************)
(* The last stage passes: the call is allowed.                             *)
(***************************************************************************)
LEMMA FlowDecides ==
    ASSUME NEW time \in 0 .. MaxClock, NEW c, NEW d, Flow(c, time),
           c.todo # <<>>, Tail(c.todo) = <<>>, Head(c.todo) # Prints,
           d.host = c.host, d.began = c.began, d.gcos = c.gcos,
           d.child = c.child, d.at = time,
           \A k \in DOMAIN c.gcos : Head(c.todo) = <<"check", k>> =>
                                       Verified(c.gcos[k], c.began, time)
    PROVE  Settled(d, time)
<1> DEFINE p == c.todo
<1>1. Listed(p)
  BY DEF Flow, Legal
<1>2. \A s \in Range(p) : s = Head(p)
  <2>1. Range(<<>>) = {}
    BY DEF Range
  <2> QED BY <1>1, <2>1, RangeOfTail
<1>3. c.began \in 0 .. time /\ DOMAIN c.gcos = 1 .. Len(c.gcos) /\ c.host \in Hosts
  BY DEF Flow
<1>4. ASSUME NEW k \in DOMAIN c.gcos
      PROVE  Sound(c.gcos[k]) /\ Verified(c.gcos[k], c.began, time)
  <2>1. /\ Sound(c.gcos[k])
        /\ \/ <<"check", k>> \in Range(p)
           \/ Verified(c.gcos[k], c.began, time)
           \/ k = 2 /\ Prints \in Range(p)
    BY <1>4 DEF Flow
  <2> QED BY <1>2, <1>4, <2>1
<1>5. d.child # NONE => Backed(d.child)
  <2> SUFFICES ASSUME d.child # NONE PROVE Backed(d.child)
    OBVIOUS
  <2>1. /\ IsAttested(c.child) /\ Rooted(c.child)
        /\ \/ Bound(c.child)
           \/ /\ Len(c.gcos) = 2 /\ c.child = c.gcos[2]
    BY DEF Flow
  <2>2. CASE Len(c.gcos) = 2 /\ c.child = c.gcos[2]
    <3>1. 2 \in DOMAIN c.gcos
      BY <1>3, <2>2
    <3>2. Bound(c.gcos[2])
      BY <1>3, <1>4, <3>1, VerifiedRooted
    <3> QED BY <2>1, <2>2, <3>2 DEF Backed
  <2> QED BY <2>1, <2>2 DEF Backed
<1>6. \A g \in Range(d.gcos) : Sound(g) /\ Verified(g, d.began, d.at)
  BY <1>4 DEF Range
<1> QED BY <1>3, <1>5, <1>6 DEF Settled

(***************************************************************************)
(* derive() returns a child, of a parent that was verified.                *)
(***************************************************************************)
Derived(c, span) == DerivedChild(c.gcos[1], c.request, span)

LEMMA DerivedOfVerified ==
    ASSUME NEW time \in 0 .. MaxClock, NEW c, Flow(c, time),
           c.todo # <<>>, Head(c.todo) = Derives,
           c.request # MALFORMED, DeriveFault(c.gcos[1], c.request) = "OK",
           NEW span,
           ValidateFault(c.gcos[1], ForValidation(Derived(c, span)), time) = "OK"
    PROVE  /\ c.child = NONE /\ c.request \in Requests
           /\ Sound(c.gcos[1]) /\ Verified(c.gcos[1], c.began, time)
           /\ IsAttested(Derived(c, span)) /\ Rooted(Derived(c, span))
<1> DEFINE p == c.todo
           q == Tail(p)
           parent == c.gcos[1]
           child == Derived(c, span)
<1>1. Legal(p) /\ p # <<>> /\ Head(p) = Derives
  BY DEF Flow
<1>2. Check1 \notin Range(q)
  <2> HIDE DEF p
  <2> QED BY <1>1, AfterDerives
<1>3. /\ Derives \in Range(p)
      /\ \A s \in Range(p) : s = Head(p) \/ s \in Range(q)
  <2> HIDE DEF p
  <2> QED BY <1>1, RangeOfTail DEF Legal
<1>4. /\ c.child = NONE /\ c.request \in Requests
      /\ Len(c.gcos) = 1 /\ DOMAIN c.gcos = 1 .. Len(c.gcos)
      /\ c.began \in 0 .. time
  BY <1>3 DEF Flow
<1>5. Sound(parent) /\ Verified(parent, c.began, time)
  <2>1. 1 \in DOMAIN c.gcos
    BY <1>4
  <2>2. /\ Sound(c.gcos[1])
        /\ <<"check", 1>> \in Range(p) \/ Verified(c.gcos[1], c.began, time)
    BY <2>1 DEF Flow
  <2>3. <<"check", 1>> # Head(p)
    BY DEF Derives
  <2> QED BY <1>2, <1>3, <2>2, <2>3 DEF Check1
<1>6. IsAttested(parent) /\ Rooted(parent)
  BY <1>4, <1>5, VerifiedRooted
<1>7. IsRequest(c.request)
  BY <1>4, RequestsAssumption
<1>8. child = WithAttestation(child, NONE)
  <2>1. child = [f \in DOMAIN child |-> child[f]] /\ child.attestation = NONE
    BY DEF Derived, DerivedChild
  <2> HIDE DEF child
  <2> QED BY <2>1 DEF WithAttestation
<1>9. IsAttestation(NONE)
  BY DEF IsAttestation
<1>10. LET g == WithAttestation(child, NONE) IN IsAttested(g) /\ Rooted(g)
  <2> HIDE DEF parent
  <2> QED BY <1>6, <1>7, <1>9, DerivedRooted DEF IsAttested, parent, Derived
<1> HIDE DEF child
<1> QED BY <1>4, <1>5, <1>8, <1>10 DEF child

LEMMA FlowDerives ==
    ASSUME NEW time \in 0 .. MaxClock, NEW c, NEW d, Flow(c, time),
           c.todo # <<>>, Head(c.todo) = Derives,
           c.request # MALFORMED, DeriveFault(c.gcos[1], c.request) = "OK",
           NEW span,
           ValidateFault(c.gcos[1], ForValidation(Derived(c, span)), time) = "OK",
           d.todo = Tail(c.todo), d.host = c.host, d.began = c.began,
           d.gcos = <<c.gcos[1], Derived(c, span)>>,
           d.child = c.child, d.request = c.request, d.now = c.now
    PROVE  Flow(d, time)
<1> DEFINE p == c.todo
           q == Tail(p)
           parent == c.gcos[1]
           child == Derived(c, span)
<1>1. Legal(p) /\ p # <<>> /\ Head(p) = Derives
  BY DEF Flow
<1>2. /\ Check1 \notin Range(q) /\ Derives \notin Range(q) /\ q # <<>>
      /\ Check2 \in Range(q) \/ Prints \in Range(q)
  <2> HIDE DEF p
  <2> QED BY <1>1, AfterDerives
<1>3. /\ Legal(q)
      /\ \A k \in 1 .. 2 : Head(q) = <<"check", k>> => Head(p) = <<"sample", k>>
  <2> HIDE DEF p
  <2> QED BY <1>1, <1>2, NextStage
<1>4. c.began \in 0 .. time /\ c.now \in 0 .. time /\ c.host \in Hosts
  BY DEF Flow
<1>5. /\ c.child = NONE /\ c.request \in Requests
      /\ Sound(parent) /\ Verified(parent, c.began, time)
      /\ IsAttested(child) /\ Rooted(child)
  BY DerivedOfVerified
<1> HIDE DEF p, q, child, parent
<1>6. /\ Len(d.gcos) = 2 /\ DOMAIN d.gcos = 1 .. 2
      /\ d.gcos[1] = parent /\ d.gcos[2] = child
  BY DEF parent, child
<1>7. \A k \in DOMAIN d.gcos :
          /\ Sound(d.gcos[k])
          /\ \/ <<"check", k>> \in Range(q)
             \/ Verified(d.gcos[k], d.began, time)
             \/ k = 2 /\ Prints \in Range(q)
  BY <1>2, <1>5, <1>6 DEF Sound, Check2
<1>8. \A k \in 1 .. 2 : Head(q) # <<"check", k>>
  BY <1>1, <1>3 DEF Derives
<1> QED BY <1>2, <1>3, <1>4, <1>5, <1>6, <1>7, <1>8 DEF Flow, p, q

(***************************************************************************)
(* The authority attests the child of the call.                            *)
(***************************************************************************)
LEMMA FlowMints ==
    ASSUME NEW time \in 0 .. MaxClock, NEW c, NEW d, Flow(c, time),
           c.todo # <<>>, Head(c.todo)[1] \in Attests,
           NEW a, IsAttestation(a), Head(c.todo)[1] = "preview" => Dud(a),
           d.todo = Tail(c.todo), d.host = c.host, d.began = c.began,
           d.gcos = <<c.gcos[1], WithAttestation(c.gcos[2], a)>>,
           d.child = WithAttestation(c.gcos[2], a),
           d.request = c.request, d.now = c.now
    PROVE  Flow(d, time) /\ Rooted(d.child)
<1> DEFINE p == c.todo
           q == Tail(p)
           child == WithAttestation(c.gcos[2], a)
<1>1. Legal(p) /\ p # <<>> /\ Head(p)[1] \in Attests
  BY DEF Flow
<1>2. /\ Derives \notin Range(q) /\ q # <<>>
      /\ Check2 \in Range(q) \/ Prints \in Range(q)
      /\ Head(p)[1] # "preview" => Check2 \in Range(q)
  <2> HIDE DEF p
  <2> QED BY <1>1, AfterAttests
<1>3. /\ Range(q) \subseteq Range(p)
      /\ \A s \in Range(p) : s = Head(p) \/ s \in Range(q)
  <2> HIDE DEF p
  <2> QED BY <1>1, RangeOfTail DEF Legal
<1>4. /\ Legal(q)
      /\ \A k \in 1 .. 2 : Head(q) = <<"check", k>> => Head(p) = <<"sample", k>>
      /\ Head(q)[1] \in Attests => Head(p) = Derives
  <2> HIDE DEF p
  <2> QED BY <1>1, <1>2, NextStage
<1>5. /\ Len(c.gcos) = 2 /\ DOMAIN c.gcos = 1 .. 2
      /\ IsAttested(c.gcos[2]) /\ Rooted(c.gcos[2])
      /\ c.began \in 0 .. time /\ c.now \in 0 .. time /\ c.host \in Hosts
  BY DEF Flow
<1>6. IsAttested(child) /\ Rooted(child) /\ child.attestation = a
  BY <1>5, AttestedRooted
<1> HIDE DEF p, q, child
<1>7. /\ Len(d.gcos) = 2 /\ DOMAIN d.gcos = 1 .. 2
      /\ d.gcos[1] = c.gcos[1] /\ d.gcos[2] = child
  BY DEF child
<1>8. /\ Sound(c.gcos[1])
      /\ <<"check", 1>> \in Range(q) \/ Verified(c.gcos[1], c.began, time)
  <2>1. /\ Sound(c.gcos[1])
        /\ <<"check", 1>> \in Range(p) \/ Verified(c.gcos[1], c.began, time)
    BY <1>5 DEF Flow, p
  <2>2. <<"check", 1>>[1] \notin Attests
    BY DEF Attests
  <2> QED BY <1>1, <1>3, <2>1, <2>2
<1>9. \A k \in DOMAIN d.gcos :
          /\ Sound(d.gcos[k])
          /\ \/ <<"check", k>> \in Range(q)
             \/ Verified(d.gcos[k], d.began, time)
             \/ k = 2 /\ Prints \in Range(q)
  BY <1>2, <1>6, <1>7, <1>8 DEF Sound, Check2
<1>10. \A k \in 1 .. 2 : Head(q) # <<"check", k>>
  <2>1. \A k \in 1 .. 2 : <<"sample", k>>[1] \notin Attests
    BY DEF Attests
  <2> QED BY <1>1, <1>4, <2>1
<1>11. Head(q)[1] \notin Attests
  <2>1. Derives[1] \notin Attests
    BY DEF Attests, Derives
  <2> QED BY <1>1, <1>4, <2>1
<1>12. Bound(child) \/ Check2 \in Range(q)
  BY <1>2, <1>6 DEF Bound, p
<1> QED BY <1>2, <1>4, <1>5, <1>6, <1>7, <1>9, <1>10, <1>11, <1>12
        DEF Flow, p, q, child

(***************************************************************************)
(* A call begins: none of its GCOs has been checked.                       *)
(***************************************************************************)
LEMMA FlowBegins ==
    ASSUME NEW time \in 0 .. MaxClock, NEW c, Legal(c.todo), c.todo # <<>>,
           c.host \in Hosts, c.began \in 0 .. time, c.now \in 0 .. time, c.child = NONE,
           Len(c.gcos) \in 0 .. 2, DOMAIN c.gcos = 1 .. Len(c.gcos),
           \A k \in DOMAIN c.gcos : Sound(c.gcos[k]) /\ <<"check", k>> \in Range(c.todo),
           \A k \in 1 .. 2 : Head(c.todo) # <<"check", k>>,
           Head(c.todo)[1] \notin Attests,
           Derives \in Range(c.todo) => c.request \in Requests /\ Len(c.gcos) = 1
    PROVE  Flow(c, time)
BY RuntimeBounds DEF Flow

(***************************************************************************)
(* Whatever a host can present is sound.                                   *)
(***************************************************************************)
LEMMA PoolBacked ==
    ASSUME FlowInv
    PROVE  \A g \in Pool : Backed(g)
BY RootsBacked DEF FlowInv, Settled, Pool, Returned

LEMMA BackedSound ==
    ASSUME NEW g, Backed(g)
    PROVE  Sound(g)
BY DEF Backed, Sound

LEMMA OfferedSound ==
    ASSUME FlowInv
    PROVE  \A g \in Offered : Sound(g)
<1> SUFFICES ASSUME NEW g \in Offered, g # MALFORMED PROVE Sound(g)
  BY DEF Sound
<1> DEFINE P == Pool
<1>1. \A h \in P : Backed(h)
  BY PoolBacked
<1>2. CASE g \in Forged
  <2>1. IsAttested(g) /\ ((\E h \in P : g.attestation = h.attestation)
                             \/ ~Signed(g.attestation))
    BY <1>2 DEF Forged
  <2> HIDE DEF P
  <2> QED BY <1>1, <2>1, ForgeriesSound
<1> QED BY <1>1, <1>2, BackedSound DEF Offered

-----------------------------------------------------------------------------
(* Steps *)

\* A step of one thread.
LEMMA ThreadStep ==
    ASSUME FlowInv, NEW t \in Threads, clock' = clock, CallsShaped',
           \A u \in Threads \ {t} : call'[u] = call[u],
           call'[t].todo # <<>> => Flow(call'[t], clock),
           \/ decisions' = decisions
           \/ \E d : Settled(d, clock) /\ decisions' = Append(decisions, d),
           \A g \in issued' : Rooted(g)
    PROVE  FlowInv'
<1>1. \A u \in Threads : call'[u].todo # <<>> => Flow(call'[u], clock)
  BY DEF FlowInv
<1>2. Listed(decisions') /\ \A i \in DOMAIN decisions' : Settled(decisions'[i], clock)
  <2>1. CASE decisions' = decisions
    BY <2>1 DEF FlowInv
  <2>2. ASSUME NEW d, Settled(d, clock), decisions' = Append(decisions, d)
        PROVE  Listed(decisions') /\ \A i \in DOMAIN decisions' : Settled(decisions'[i], clock)
    <3>1. /\ Listed(Append(decisions, d))
          /\ DOMAIN Append(decisions, d) = 1 .. Len(decisions) + 1
          /\ \A i \in 1 .. Len(decisions) : Append(decisions, d)[i] = decisions[i]
          /\ Append(decisions, d)[Len(decisions) + 1] = d
          /\ DOMAIN decisions = 1 .. Len(decisions) /\ Len(decisions) \in Nat
      BY ListedAppend, ListedFacts DEF FlowInv
    <3>2. ASSUME NEW i \in 1 .. Len(decisions) + 1
          PROVE  Settled(Append(decisions, d)[i], clock)
      <4>1. i \in 1 .. Len(decisions) \/ i = Len(decisions) + 1
        BY <3>1
      <4> QED BY <2>2, <3>1, <4>1 DEF FlowInv
    <3> QED BY <2>2, <3>1, <3>2
  <2> QED BY <2>1, <2>2
<1>3. \A u \in Threads : call'[u].todo # <<>> => Flow(call'[u], clock')
  BY <1>1
<1>4. \A i \in DOMAIN decisions' : Settled(decisions'[i], clock')
  BY <1>2
<1>5. clock' \in 0 .. MaxClock
  BY DEF FlowInv
<1> QED BY <1>2, <1>3, <1>4, <1>5 DEF FlowInv

LEMMA TickStep == FlowInv /\ Tick => FlowInv'
<1> SUFFICES ASSUME FlowInv, Tick PROVE FlowInv'
  OBVIOUS
<1>1. /\ clock \in Nat /\ clock' \in Nat /\ clock <= clock' /\ clock' \in 0 .. MaxClock
      /\ call' = call /\ decisions' = decisions /\ issued' = issued
  BY RuntimeBounds DEF FlowInv, Tick, history
<1>2. \A t \in Threads : call[t].todo # <<>> => Flow(call[t], clock')
  BY <1>1, FlowLater DEF FlowInv
<1>3. \A i \in DOMAIN decisions : Settled(decisions[i], clock')
  BY <1>1, SettledLater DEF FlowInv
<1>4. \A t \in Threads : call'[t].todo # <<>> => Flow(call'[t], clock')
  BY <1>1, <1>2
<1>5. \A i \in DOMAIN decisions' : Settled(decisions'[i], clock')
  BY <1>1, <1>3
<1>6. CallsShaped'
  BY <1>1 DEF FlowInv, CallsShaped
<1>7. Listed(decisions') /\ \A g \in issued' : Rooted(g)
  BY <1>1 DEF FlowInv
<1> QED BY <1>1, <1>4, <1>5, <1>6, <1>7 DEF FlowInv

\* What the updates of call do.
LEMMA DenyMeans ==
    ASSUME CallsShaped, NEW t \in Threads, NEW fault, NEW of, Deny(t, fault, of)
    PROVE  /\ CallsShaped' /\ \A u \in Threads \ {t} : call'[u] = call[u]
           /\ call'[t].todo = <<>> /\ call'[t].fault = fault /\ UNCHANGED history
BY DEF CallsShaped, Deny, Idle

LEMMA PassGoesOn ==
    ASSUME CallsShaped, NEW t \in Threads, NEW now, NEW gcos, Pass(t, now, gcos),
           Listed(call[t].todo), call[t].todo # <<>>, Tail(call[t].todo) # <<>>
    PROVE  /\ CallsShaped' /\ \A u \in Threads \ {t} : call'[u] = call[u]
           /\ UNCHANGED <<issued, presented, begun, decisions>>
           /\ call'[t].todo = Tail(call[t].todo)
           /\ call'[t].now = now /\ call'[t].gcos = gcos
           /\ call'[t].host = call[t].host /\ call'[t].began = call[t].began
           /\ call'[t].child = call[t].child /\ call'[t].request = call[t].request
           /\ call'[t].meta = call[t].meta /\ call'[t].op = call[t].op
           /\ call'[t].ask = call[t].ask /\ call'[t].fault = call[t].fault
<1>1. Len(call[t].todo) > 1
  BY TailFacts
<1>2. /\ call' = [call EXCEPT ![t].todo = Tail(@), ![t].now = now, ![t].gcos = gcos]
      /\ UNCHANGED <<issued, presented, begun, decisions>>
  BY <1>1 DEF Pass
<1>3. {"todo", "now", "gcos", "host", "began", "child", "request", "meta", "op",
       "ask", "fault"} \subseteq DOMAIN call[t]
  BY DEF CallsShaped, Idle
<1>4. /\ call'[t].todo = Tail(call[t].todo)
      /\ call'[t].now = now /\ call'[t].gcos = gcos
      /\ call'[t].host = call[t].host /\ call'[t].began = call[t].began
      /\ call'[t].child = call[t].child /\ call'[t].request = call[t].request
      /\ call'[t].meta = call[t].meta /\ call'[t].op = call[t].op
      /\ call'[t].ask = call[t].ask /\ call'[t].fault = call[t].fault
  BY <1>2, <1>3 DEF CallsShaped
<1>5. CallsShaped' /\ \A u \in Threads \ {t} : call'[u] = call[u]
  BY <1>2 DEF CallsShaped
<1> QED BY <1>2, <1>4, <1>5

LEMMA PassEnds ==
    ASSUME CallsShaped, NEW t \in Threads, NEW now, NEW gcos, Pass(t, now, gcos),
           Listed(call[t].todo), call[t].todo # <<>>, Tail(call[t].todo) = <<>>
    PROVE  /\ CallsShaped' /\ \A u \in Threads \ {t} : call'[u] = call[u]
           /\ UNCHANGED <<issued, presented, begun>>
           /\ call'[t].todo = <<>> /\ call'[t].fault = NONE
           /\ decisions' = Append(decisions,
                 [host |-> call[t].host, gcos |-> gcos, child |-> call[t].child,
                  began |-> call[t].began, at |-> clock])
<1>1. ~(Len(call[t].todo) > 1)
  <2>1. PICK todo : todo = call[t].todo
    OBVIOUS
  <2>2. Listed(todo) /\ todo # <<>> /\ Tail(todo) = <<>>
    BY <2>1
  <2>3. Len(todo) = 1
    BY <2>2, TailFacts
  <2> QED BY <2>1, <2>3
<1>2. /\ call' = [call EXCEPT ![t] = Idle]
      /\ UNCHANGED <<issued, presented, begun>>
      /\ decisions' = Append(decisions,
            [host |-> call[t].host, gcos |-> gcos, child |-> call[t].child,
             began |-> call[t].began, at |-> clock])
  BY <1>1 DEF Pass
<1>3. CallsShaped' /\ \A u \in Threads \ {t} : call'[u] = call[u]
  BY <1>2 DEF CallsShaped
<1>4. call'[t].todo = <<>> /\ call'[t].fault = NONE
  BY <1>2 DEF CallsShaped, Idle
<1> QED BY <1>2, <1>3, <1>4

LEMMA MintMeans ==
    ASSUME CallsShaped, NEW t \in Threads, NEW a, Mint(t, a)
    PROVE  /\ CallsShaped' /\ \A u \in Threads \ {t} : call'[u] = call[u]
           /\ UNCHANGED <<decisions, presented, begun>>
           /\ call'[t].todo = Tail(call[t].todo)
           /\ call'[t].child = Attested(t, a)
           /\ call'[t].gcos = <<call[t].gcos[1], Attested(t, a)>>
           /\ call'[t].now = call[t].now /\ call'[t].host = call[t].host
           /\ call'[t].began = call[t].began /\ call'[t].request = call[t].request
           /\ call'[t].meta = call[t].meta /\ call'[t].op = call[t].op
           /\ call'[t].ask = call[t].ask /\ call'[t].fault = call[t].fault
<1>1. {"todo", "now", "gcos", "host", "began", "child", "request", "meta", "op",
       "ask", "fault"} \subseteq DOMAIN call[t]
  BY DEF CallsShaped, Idle
<1> DEFINE minted == Attested(t, a)
<1>2. /\ call' = [call EXCEPT ![t].todo = Tail(@), ![t].child = minted,
                              ![t].gcos = <<call[t].gcos[1], minted>>]
      /\ UNCHANGED <<decisions, presented, begun>>
  BY DEF Mint
<1> HIDE DEF minted
<1>3. CallsShaped' /\ \A u \in Threads \ {t} : call'[u] = call[u]
  BY <1>2 DEF CallsShaped
<1>4. /\ call'[t].todo = Tail(call[t].todo)
      /\ call'[t].child = minted
      /\ call'[t].gcos = <<call[t].gcos[1], minted>>
      /\ call'[t].now = call[t].now /\ call'[t].host = call[t].host
      /\ call'[t].began = call[t].began /\ call'[t].request = call[t].request
      /\ call'[t].meta = call[t].meta /\ call'[t].op = call[t].op
      /\ call'[t].ask = call[t].ask /\ call'[t].fault = call[t].fault
  BY <1>1, <1>2 DEF CallsShaped
<1> QED BY <1>2, <1>3, <1>4 DEF minted

LEMMA DenyStep ==
    ASSUME FlowInv, NEW t \in Threads, NEW fault, NEW of, Deny(t, fault, of),
           clock' = clock
    PROVE  FlowInv'
<1>1. CallsShaped
  BY DEF FlowInv
<1>2. /\ CallsShaped' /\ \A u \in Threads \ {t} : call'[u] = call[u]
      /\ call'[t].todo = <<>> /\ decisions' = decisions /\ issued' = issued
  BY <1>1, DenyMeans DEF history
<1>3. \A g \in issued' : Rooted(g)
  BY <1>2 DEF FlowInv
<1> QED BY <1>2, <1>3, ThreadStep

LEMMA PassStep ==
    ASSUME FlowInv, NEW t \in Threads, call[t].todo # <<>>,
           NEW now \in 0 .. clock, Pass(t, now, call[t].gcos), clock' = clock,
           Head(call[t].todo)[1] \notin Attests \cup {"request", "print"},
           \A k \in 1 .. 2 : Head(call[t].todo) = <<"sample", k>> =>
                               now = clock /\ call[t].gcos[k] # MALFORMED,
           \A k \in DOMAIN call[t].gcos : Head(call[t].todo) = <<"check", k>> =>
               Verified(call[t].gcos[k], call[t].began, clock)
    PROVE  FlowInv'
<1> DEFINE c == call[t]
           d == [host |-> call[t].host, gcos |-> call[t].gcos,
                 child |-> call[t].child, began |-> call[t].began, at |-> clock]
<1>1. /\ CallsShaped /\ Flow(c, clock) /\ Listed(c.todo) /\ clock \in 0 .. MaxClock
      /\ \A g \in issued : Rooted(g)
  BY DEF FlowInv, Flow, Legal
<1>2. Head(c.todo) # Derives /\ Head(c.todo) # Prints /\ Head(c.todo)[1] \notin Attests
  <2>1. Derives[1] = "request" /\ Prints[1] = "print"
    BY DEF Derives, Prints
  <2> QED BY <2>1
<1>3. /\ CallsShaped' /\ \A u \in Threads \ {t} : call'[u] = call[u]
      /\ issued' = issued
      /\ Tail(c.todo) # <<>> =>
             /\ decisions' = decisions
             /\ call'[t].todo = Tail(c.todo)
             /\ call'[t].now = now /\ call'[t].gcos = c.gcos
             /\ call'[t].host = c.host /\ call'[t].began = c.began
             /\ call'[t].child = c.child /\ call'[t].request = c.request
      /\ Tail(c.todo) = <<>> =>
             call'[t].todo = <<>> /\ decisions' = Append(decisions, d)
  BY <1>1, PassGoesOn, PassEnds
<1>4. CASE Tail(c.todo) # <<>>
  <2>1. PICK e : e = call'[t]
    OBVIOUS
  <2> HIDE DEF c, d
  <2>2. /\ decisions' = decisions
        /\ e.todo = Tail(c.todo) /\ e.now \in 0 .. clock /\ e.now = now
        /\ e.gcos = c.gcos /\ e.host = c.host /\ e.began = c.began
        /\ e.child = c.child /\ e.request = c.request
    BY <1>3, <1>4, <2>1
  <2>3. Flow(e, clock)
    BY <1>1, <1>2, <1>4, <2>2, FlowPasses DEF c
  <2> QED BY <1>1, <1>3, <2>1, <2>2, <2>3, ThreadStep
<1>5. CASE Tail(c.todo) = <<>>
  <2>1. /\ d.host = c.host /\ d.began = c.began /\ d.gcos = c.gcos
        /\ d.child = c.child /\ d.at = clock
    OBVIOUS
  <2> HIDE DEF d
  <2>2. Settled(d, clock)
    BY <1>1, <1>2, <1>5, <2>1, FlowDecides
  <2> QED BY <1>1, <1>3, <1>5, <2>2, ThreadStep
<1> QED BY <1>4, <1>5

LEMMA OutcomeStep ==
    ASSUME FlowInv, NEW t \in Threads, call[t].todo # <<>>, NEW fault, NEW of,
           Outcome(t, fault, of), clock' = clock,
           Head(call[t].todo)[1] \notin Attests \cup {"request", "print", "sample"},
           fault = "OK" => \A k \in DOMAIN call[t].gcos :
               Head(call[t].todo) = <<"check", k>> =>
                   Verified(call[t].gcos[k], call[t].began, clock)
    PROVE  FlowInv'
<1>1. CASE fault # "OK"
  BY <1>1, DenyStep DEF Outcome
<1>2. CASE fault = "OK"
  <2>1. Pass(t, call[t].now, call[t].gcos)
    BY <1>2 DEF Outcome
  <2>2. call[t].now \in 0 .. clock
    BY DEF FlowInv, Flow
  <2>3. \A k \in 1 .. 2 : Head(call[t].todo) # <<"sample", k>>
    BY <1>2
  <2> QED BY <1>2, <2>1, <2>2, <2>3, PassStep
<1> QED BY <1>1, <1>2

LEMMA SampleStep ==
    ASSUME FlowInv, NEW t \in Threads, NEW i \in 1 .. 2, Sample(t, i)
    PROVE  FlowInv'
<1>1. call[t].todo # <<>> /\ Head(call[t].todo) = <<"sample", i>> /\ clock' = clock
  BY DEF Sample, At
<1>2. CASE call[t].gcos[i] = MALFORMED
  BY <1>1, <1>2, DenyStep DEF Sample
<1>3. CASE call[t].gcos[i] # MALFORMED
  <2>1. Pass(t, clock, call[t].gcos)
    BY <1>3 DEF Sample
  <2>2. /\ Head(call[t].todo)[1] = "sample"
        /\ \A k \in 1 .. 2 : Head(call[t].todo) = <<"sample", k>> => k = i
        /\ \A k : Head(call[t].todo) # <<"check", k>>
    BY <1>1
  <2>3. Head(call[t].todo)[1] \notin Attests \cup {"request", "print"}
    BY <2>2 DEF Attests
  <2>4. clock \in 0 .. clock
    BY DEF FlowInv
  <2> QED BY <1>1, <1>3, <2>1, <2>2, <2>3, <2>4, PassStep
<1> QED BY <1>2, <1>3

\* Whatever the cache answers, what passes is verified.
LEMMA CheckStep ==
    ASSUME FlowInv, NEW t \in Threads, NEW i \in 1 .. 2, CheckAttestation(t, i)
    PROVE  FlowInv'
<1> DEFINE g == call[t].gcos[i]
           fault == VerifyFault(Trust[call[t].host], g.attestation, g, call[t].now)
<1>1. call[t].todo # <<>> /\ Head(call[t].todo) = <<"check", i>> /\ clock' = clock
  BY DEF CheckAttestation, At
<1>2. /\ Head(call[t].todo)[1] = "check"
      /\ \A k \in 1 .. 2 : Head(call[t].todo) = <<"check", k>> => k = i
  BY <1>1
<1>3. Head(call[t].todo)[1] \notin Attests \cup {"request", "print", "sample"}
  BY <1>2 DEF Attests
<1>4. \/ \E f, of : Deny(t, f, of)
      \/ Outcome(t, fault, g)
      \/ Outcome(t, "OK", g) /\ fault = "OK"
  BY DEF CheckAttestation
<1>5. /\ call[t].now \in call[t].began .. clock /\ g # MALFORMED
      /\ call[t].host \in Hosts /\ DOMAIN call[t].gcos \subseteq 1 .. 2
  BY <1>1, RuntimeBounds DEF FlowInv, Flow
<1>6. fault = "OK" => Verified(g, call[t].began, clock)
  BY <1>5 DEF Verified, Passes
<1>7. fault = "OK" => \A k \in DOMAIN call[t].gcos :
          Head(call[t].todo) = <<"check", k>> =>
              Verified(call[t].gcos[k], call[t].began, clock)
  BY <1>2, <1>5, <1>6
<1> HIDE DEF g, fault
<1>8. CASE \E f, of : Deny(t, f, of)
  BY <1>1, <1>8, DenyStep
<1>9. CASE Outcome(t, fault, g)
  BY <1>1, <1>3, <1>7, <1>9, OutcomeStep
<1>10. CASE Outcome(t, "OK", g) /\ fault = "OK"
  BY <1>1, <1>3, <1>7, <1>10, OutcomeStep
<1> QED BY <1>4, <1>8, <1>9, <1>10

\* The stages that only look.
LEMMA LookStep ==
    ASSUME FlowInv, NEW t \in Threads, NEW i \in 1 .. 2,
           Expiry(t, i) \/ Decide(t, i) \/ Validate(t)
    PROVE  FlowInv'
<1>1. /\ call[t].todo # <<>> /\ clock' = clock
      /\ Head(call[t].todo)[1] \in {"expiry", "decide", "validate"}
      /\ \E fault, of : Outcome(t, fault, of)
  BY DEF Expiry, Decide, Validate, At
<1>2. \A k : Head(call[t].todo) # <<"check", k>>
  BY <1>1
<1>3. Head(call[t].todo)[1] \notin Attests \cup {"request", "print", "sample"}
  BY <1>1 DEF Attests
<1> QED BY <1>1, <1>2, <1>3, OutcomeStep

LEMMA RequestStep ==
    ASSUME FlowInv, NEW t \in Threads, Request(t)
    PROVE  FlowInv'
<1> DEFINE parent == call[t].gcos[1]
           request == call[t].request
           derived(span) == DerivedChild(parent, request, span)
<1>1. call[t].todo # <<>> /\ Head(call[t].todo) = Derives /\ clock' = clock
  BY DEF Request, At, Derives
<1>2. CASE \E f, of : Deny(t, f, of)
  BY <1>1, <1>2, DenyStep
<1>3. ASSUME NEW span, request # MALFORMED, DeriveFault(parent, request) = "OK",
             ValidateFault(parent, ForValidation(derived(span)), clock) = "OK",
             Pass(t, call[t].now, <<parent, derived(span)>>)
      PROVE  FlowInv'
  <2>1. /\ CallsShaped /\ Flow(call[t], clock) /\ Listed(call[t].todo)
        /\ Legal(call[t].todo) /\ clock \in 0 .. MaxClock
        /\ \A g \in issued : Rooted(g)
    BY <1>1 DEF FlowInv, Flow, Legal
  <2>2. Tail(call[t].todo) # <<>>
    BY <1>1, <2>1, AfterDerives
  <2>3. /\ CallsShaped' /\ \A u \in Threads \ {t} : call'[u] = call[u]
        /\ issued' = issued /\ decisions' = decisions
        /\ call'[t].todo = Tail(call[t].todo)
        /\ call'[t].now = call[t].now
        /\ call'[t].gcos = <<parent, derived(span)>>
        /\ call'[t].host = call[t].host /\ call'[t].began = call[t].began
        /\ call'[t].child = call[t].child /\ call'[t].request = request
    <3>1. PICK gcos : gcos = <<parent, derived(span)>>
      OBVIOUS
    <3>2. Pass(t, call[t].now, gcos)
      BY <1>3, <3>1
    <3> HIDE DEF parent, derived, request
    <3>3. /\ CallsShaped' /\ \A u \in Threads \ {t} : call'[u] = call[u]
          /\ issued' = issued /\ decisions' = decisions
          /\ call'[t].todo = Tail(call[t].todo)
          /\ call'[t].now = call[t].now /\ call'[t].gcos = gcos
          /\ call'[t].host = call[t].host /\ call'[t].began = call[t].began
          /\ call'[t].child = call[t].child /\ call'[t].request = call[t].request
      BY <1>1, <2>1, <2>2, <3>2, PassGoesOn
    <3> QED BY <3>1, <3>3 DEF request
  <2>4. PICK e : e = call'[t]
    OBVIOUS
  <2>5. Flow(e, clock)
    <3>1. PICK c : c = call[t]
      OBVIOUS
    <3>2. /\ Flow(c, clock) /\ c.todo # <<>> /\ Head(c.todo) = Derives
          /\ c.request # MALFORMED /\ DeriveFault(c.gcos[1], c.request) = "OK"
          /\ ValidateFault(c.gcos[1],
                 ForValidation(DerivedChild(c.gcos[1], c.request, span)), clock) = "OK"
      BY <1>1, <1>3, <2>1, <3>1
    <3>3. /\ e.todo = Tail(c.todo) /\ e.host = c.host /\ e.began = c.began
          /\ e.gcos = <<c.gcos[1], DerivedChild(c.gcos[1], c.request, span)>>
          /\ e.child = c.child /\ e.request = c.request /\ e.now = c.now
      BY <2>3, <2>4, <3>1
    <3>4. clock \in 0 .. MaxClock
      BY <2>1
    <3> HIDE DEF parent, request, derived
    <3> QED BY <3>2, <3>3, <3>4, FlowDerives DEF Derived
  <2> QED BY <1>1, <2>1, <2>3, <2>4, <2>5, ThreadStep
<1> QED BY <1>2, <1>3 DEF Request

LEMMA MintStep ==
    ASSUME FlowInv, NEW t \in Threads, call[t].todo # <<>>, clock' = clock,
           Head(call[t].todo)[1] \in Attests, NEW a, IsAttestation(a), Mint(t, a),
           Head(call[t].todo)[1] = "preview" => Dud(a),
           issued' \in {issued, issued \cup {Attested(t, a)}}
    PROVE  FlowInv'
<1>1. /\ CallsShaped /\ Flow(call[t], clock) /\ clock \in 0 .. MaxClock
      /\ \A g \in issued : Rooted(g)
  BY DEF FlowInv
<1>2. /\ CallsShaped' /\ \A u \in Threads \ {t} : call'[u] = call[u]
      /\ decisions' = decisions
      /\ call'[t].todo = Tail(call[t].todo)
      /\ call'[t].child = Attested(t, a)
      /\ call'[t].gcos = <<call[t].gcos[1], Attested(t, a)>>
      /\ call'[t].now = call[t].now /\ call'[t].host = call[t].host
      /\ call'[t].began = call[t].began /\ call'[t].request = call[t].request
  BY <1>1, MintMeans
<1>3. PICK e : e = call'[t]
  OBVIOUS
<1>4. Flow(e, clock) /\ Rooted(e.child)
  BY <1>1, <1>2, <1>3, FlowMints DEF Attested
<1>5. \A g \in issued' : Rooted(g)
  BY <1>1, <1>2, <1>3, <1>4
<1> QED BY <1>2, <1>3, <1>4, <1>5, ThreadStep

LEMMA IssueStep ==
    ASSUME FlowInv, NEW t \in Threads, IssueAttestation(t)
    PROVE  FlowInv'
<1>1. /\ call[t].todo # <<>> /\ Head(call[t].todo) = <<"issue", 1>> /\ clock' = clock
      /\ Head(call[t].todo)[1] \in Attests /\ Head(call[t].todo)[1] # "preview"
  BY DEF IssueAttestation, At, Attests
<1>2. \/ \E f, of : Deny(t, f, of)
      \/ \E a : IsAttestation(a) /\ Mint(t, a) /\ issued' = issued \cup {Attested(t, a)}
  BY DEF IssueAttestation
<1> QED BY <1>1, <1>2, DenyStep, MintStep

LEMMA StageStep ==
    ASSUME FlowInv, NEW t \in Threads, Stage(t)
    PROVE  FlowInv'
BY SampleStep, CheckStep, LookStep, RequestStep, IssueStep DEF Stage

LEMMA BeginMeans ==
    ASSUME CallsShaped, NEW t \in Threads, NEW c, Begin(t, c),
           {"host", "gcos", "todo"} \subseteq DOMAIN c,
           DOMAIN c \subseteq DOMAIN Idle, {"now", "began", "child"} \cap DOMAIN c = {}
    PROVE  /\ CallsShaped' /\ \A u \in Threads \ {t} : call'[u] = call[u]
           /\ UNCHANGED <<clock, entries, decisions, issued>>
           /\ call[t].todo = <<>>
           /\ call'[t].host = c.host /\ call'[t].gcos = c.gcos
           /\ call'[t].todo = c.todo
           /\ call'[t].now = 0 /\ call'[t].began = clock /\ call'[t].child = NONE
           /\ "request" \in DOMAIN c => call'[t].request = c.request
           /\ "meta" \in DOMAIN c => call'[t].meta = c.meta
           /\ "op" \in DOMAIN c => call'[t].op = c.op
           /\ "ask" \in DOMAIN c => call'[t].ask = c.ask
           /\ "fault" \notin DOMAIN c => call'[t].fault = NONE
<1> DEFINE started == [Idle EXCEPT !.began = clock, !.fresh = Fresh(c.gcos)]
           new == [f \in DOMAIN Idle |-> IF f \in DOMAIN c THEN c[f] ELSE started[f]]
<1>1. /\ call' = [call EXCEPT ![t] = new] /\ call[t].todo = <<>>
      /\ UNCHANGED <<clock, entries, decisions, issued>>
  BY DEF Begin, CanBegin
<1>2. {"host", "gcos", "todo", "now", "began", "child", "request", "meta", "op",
       "ask", "fault"} \subseteq DOMAIN Idle
  BY DEF Idle
<1>3. /\ started.now = 0 /\ started.began = clock /\ started.child = NONE
      /\ started.fault = NONE
  BY DEF Idle
<1> HIDE DEF started
<1>4. /\ new.host = c.host /\ new.gcos = c.gcos /\ new.todo = c.todo
      /\ new.now = 0 /\ new.began = clock /\ new.child = NONE
      /\ "request" \in DOMAIN c => new.request = c.request
      /\ "meta" \in DOMAIN c => new.meta = c.meta
      /\ "op" \in DOMAIN c => new.op = c.op
      /\ "ask" \in DOMAIN c => new.ask = c.ask
      /\ "fault" \notin DOMAIN c => new.fault = NONE
      /\ DOMAIN new = DOMAIN Idle
  BY <1>2, <1>3
<1> HIDE DEF new
<1>5. CallsShaped' /\ call'[t] = new /\ \A u \in Threads \ {t} : call'[u] = call[u]
  BY <1>1, <1>4 DEF CallsShaped
<1> QED BY <1>1, <1>4, <1>5

\* A call begins with what is offered and a program that checks all of it.
LEMMA BeginStep ==
    ASSUME FlowInv, NEW t \in Threads, NEW c, Begin(t, c),
           {"host", "gcos", "todo"} \subseteq DOMAIN c,
           DOMAIN c \subseteq DOMAIN Idle, {"now", "began", "child"} \cap DOMAIN c = {},
           c.host \in Hosts, Legal(c.todo), c.todo # <<>>,
           Len(c.gcos) \in 0 .. 2, DOMAIN c.gcos = 1 .. Len(c.gcos),
           \A k \in DOMAIN c.gcos :
               c.gcos[k] \in Offered /\ <<"check", k>> \in Range(c.todo),
           Head(c.todo)[1] \notin Attests \cup {"check"},
           Derives \in Range(c.todo) =>
               "request" \in DOMAIN c /\ c.request \in Requests /\ Len(c.gcos) = 1
    PROVE  FlowInv'
<1>1. CallsShaped /\ clock \in 0 .. MaxClock /\ \A g \in issued : Rooted(g)
  BY DEF FlowInv
<1>2. PICK e : e = call'[t]
  OBVIOUS
<1>3. /\ CallsShaped' /\ \A u \in Threads \ {t} : call'[u] = call[u]
      /\ clock' = clock /\ decisions' = decisions /\ issued' = issued
      /\ e.host = c.host /\ e.gcos = c.gcos /\ e.todo = c.todo
      /\ e.now = 0 /\ e.began = clock /\ e.child = NONE
      /\ "request" \in DOMAIN c => e.request = c.request
  BY <1>1, <1>2, BeginMeans
<1>4. \A k \in DOMAIN c.gcos : Sound(c.gcos[k])
  BY OfferedSound
<1>5. \A k \in 1 .. 2 : Head(c.todo) # <<"check", k>>
  OBVIOUS
<1>6. Derives \in Range(e.todo) => e.request \in Requests /\ Len(e.gcos) = 1
  BY <1>3
<1>7. /\ Legal(e.todo) /\ e.todo # <<>> /\ e.host \in Hosts
      /\ Len(e.gcos) \in 0 .. 2 /\ DOMAIN e.gcos = 1 .. Len(e.gcos)
      /\ \A k \in DOMAIN e.gcos :
             Sound(e.gcos[k]) /\ <<"check", k>> \in Range(e.todo)
      /\ \A k \in 1 .. 2 : Head(e.todo) # <<"check", k>>
      /\ Head(e.todo)[1] \notin Attests
  BY <1>3, <1>4, <1>5
<1>8. Flow(e, clock)
  BY <1>1, <1>3, <1>6, <1>7, FlowBegins
<1> QED BY <1>1, <1>2, <1>3, <1>8, ThreadStep

-----------------------------------------------------------------------------
(* The programs of the runtime's methods *)

LEMMA SubcallLegal ==
    /\ Legal(SubcallProgram) /\ SubcallProgram # <<>>
    /\ Head(SubcallProgram) = <<"sample", 1>>
    /\ Check1 \in Range(SubcallProgram) /\ Check2 \in Range(SubcallProgram)
    /\ Derives \notin Range(SubcallProgram)
<1> DEFINE p == SubcallProgram
           T == {<<"sample", 1>>, <<"check", 1>>, <<"sample", 2>>, <<"check", 2>>,
                 <<"validate", 2>>}
<1>1. /\ DOMAIN p = 1 .. 5 /\ Len(p) = 5 /\ p # <<>>
      /\ p[1] = <<"sample", 1>> /\ p[2] = <<"check", 1>> /\ p[3] = <<"sample", 2>>
      /\ p[4] = <<"check", 2>> /\ p[5] = <<"validate", 2>>
      /\ Head(p) = <<"sample", 1>>
  BY DEF SubcallProgram
<1>2. p \in Seq(T)
  BY DEF SubcallProgram
<1>3. Listed(p)
  <2> HIDE DEF p, T
  <2> QED BY <1>2, SeqListed
<1> HIDE DEF p
<1>4. \A i \in DOMAIN p : p[i] # Derives /\ p[i] # Prints /\ p[i][1] \notin Attests
  BY <1>1 DEF Derives, Prints, Attests
<1>5. \A i \in DOMAIN p : \A k \in 1 .. 2 :
          p[i] = <<"check", k>> /\ i > 1 => p[i - 1] = <<"sample", k>>
  BY <1>1
<1>6. Legal(p)
  BY <1>3, <1>4, <1>5 DEF Legal
<1>7. Check1 \in Range(p) /\ Check2 \in Range(p) /\ Derives \notin Range(p)
  BY <1>1, <1>4 DEF Check1, Check2, Range
<1> QED BY <1>1, <1>6, <1>7 DEF p

LEMMA AuthorizeLegal ==
    /\ Legal(AuthorizeProgram(1)) /\ AuthorizeProgram(1) # <<>>
    /\ Head(AuthorizeProgram(1)) = <<"sample", 1>>
    /\ Check1 \in Range(AuthorizeProgram(1)) /\ Derives \notin Range(AuthorizeProgram(1))
<1> DEFINE p == AuthorizeProgram(1)
           T == {<<"sample", 1>>, <<"check", 1>>, <<"expiry", 1>>, <<"decide", 1>>}
<1>1. /\ DOMAIN p = 1 .. 4 /\ Len(p) = 4 /\ p # <<>>
      /\ p[1] = <<"sample", 1>> /\ p[2] = <<"check", 1>>
      /\ p[3] = <<"expiry", 1>> /\ p[4] = <<"decide", 1>>
      /\ Head(p) = <<"sample", 1>>
  BY DEF AuthorizeProgram
<1>2. p \in Seq(T)
  BY DEF AuthorizeProgram
<1>3. Listed(p)
  <2> HIDE DEF p, T
  <2> QED BY <1>2, SeqListed
<1> HIDE DEF p
<1>4. \A i \in DOMAIN p : p[i] # Derives /\ p[i] # Prints /\ p[i][1] \notin Attests
  BY <1>1 DEF Derives, Prints, Attests
<1>5. \A i \in DOMAIN p : \A k \in 1 .. 2 :
          p[i] = <<"check", k>> /\ i > 1 => p[i - 1] = <<"sample", k>>
  BY <1>1
<1>6. Legal(p)
  BY <1>3, <1>4, <1>5 DEF Legal
<1>7. Check1 \in Range(p) /\ Derives \notin Range(p)
  BY <1>1, <1>4 DEF Check1, Range
<1> QED BY <1>1, <1>6, <1>7 DEF p

LEMMA DeriveLegal ==
    ASSUME NEW issue \in {"issue", "sign_pem"}
    PROVE  /\ Legal(DeriveProgram(issue)) /\ DeriveProgram(issue) # <<>>
           /\ Head(DeriveProgram(issue)) = <<"sample", 1>>
           /\ Check1 \in Range(DeriveProgram(issue))
<1> DEFINE p == DeriveProgram(issue)
           T == {<<"sample", 1>>, <<"check", 1>>, <<"request", 1>>, <<issue, 1>>,
                 <<"validate", 2>>, <<"sample", 2>>, <<"check", 2>>}
<1>1. /\ DOMAIN p = 1 .. 8 /\ Len(p) = 8 /\ p # <<>>
      /\ p[1] = <<"sample", 1>> /\ p[2] = <<"check", 1>> /\ p[3] = <<"request", 1>>
      /\ p[4] = <<issue, 1>> /\ p[5] = <<"validate", 2>> /\ p[6] = <<"sample", 2>>
      /\ p[7] = <<"check", 2>> /\ p[8] = <<"validate", 2>>
      /\ Head(p) = <<"sample", 1>>
  BY DEF DeriveProgram
<1>2. p \in Seq(T)
  BY DEF DeriveProgram
<1>3. Listed(p)
  <2> HIDE DEF p, T
  <2> QED BY <1>2, SeqListed
<1> HIDE DEF p
<1>4. \A i \in DOMAIN p : \A k \in 1 .. 2 :
          p[i] = <<"check", k>> /\ i > 1 => p[i - 1] = <<"sample", k>>
  BY <1>1
<1>5. \A i \in DOMAIN p : /\ p[i] = Derives <=> i = 3
                          /\ p[i][1] \in Attests <=> i = 4
                          /\ p[i] # Prints
  BY <1>1 DEF Derives, Attests, Prints
<1>6. /\ \A j \in DOMAIN p : j > 3 => p[j] # Check1 /\ p[j] # Derives
      /\ 7 \in DOMAIN p /\ p[7] = Check2 /\ p[2] = Check1 /\ 7 > 3 /\ 7 > 4 /\ p[4 - 1] = Derives
  BY <1>1, <1>5 DEF Check1, Check2
<1>7. Legal(p)
  <2> SUFFICES ASSUME NEW i \in DOMAIN p
               PROVE  /\ p[i] = Derives =>
                             /\ \A j \in DOMAIN p :
                                    j > i => p[j] # Check1 /\ p[j] # Derives
                             /\ \E j \in DOMAIN p : j > i /\ p[j] \in {Check2, Prints}
                      /\ p[i][1] \in Attests =>
                             /\ i > 1 => p[i - 1] = Derives
                             /\ \A j \in DOMAIN p : j > i => p[j] # Derives
                             /\ \E j \in DOMAIN p : j > i /\ p[j] \in {Check2, Prints}
                             /\ p[i][1] # "preview" =>
                                    \E j \in DOMAIN p : j > i /\ p[j] = Check2
    BY <1>3, <1>4, <1>5 DEF Legal
  <2>1. CASE i = 3
    BY <1>5, <1>6, <2>1
  <2>2. CASE i = 4
    BY <1>5, <1>6, <2>2
  <2> QED BY <1>5, <2>1, <2>2
<1>8. Check1 \in Range(p)
  BY <1>1, <1>6 DEF Range
<1> QED BY <1>1, <1>7, <1>8 DEF p

LEMMA AuthorizeBegins ==
    ASSUME FlowInv, NEW t \in Threads, Authorize(t)
    PROVE  FlowInv'
<1>1. PICK host \in Hosts, g \in Offered, ask \in Asks :
          Begin(t, [host |-> host, op |-> "authorize", ask |-> ask,
                    gcos |-> <<g>>, todo |-> AuthorizeProgram(1)])
  BY DEF Authorize
<1> DEFINE c == [host |-> host, op |-> "authorize", ask |-> ask,
                 gcos |-> <<g>>, todo |-> AuthorizeProgram(1)]
<1>2. /\ DOMAIN c = {"host", "op", "ask", "gcos", "todo"}
      /\ c.host = host /\ c.todo = AuthorizeProgram(1)
      /\ Len(c.gcos) = 1 /\ DOMAIN c.gcos = 1 .. 1 /\ c.gcos[1] = g
  OBVIOUS
<1>3. Begin(t, c)
  BY <1>1
<1> HIDE DEF c
<1>4. {"host", "gcos", "todo"} \subseteq DOMAIN c /\ DOMAIN c \subseteq DOMAIN Idle
      /\ {"now", "began", "child"} \cap DOMAIN c = {}
  BY <1>2 DEF Idle
<1>5. \A k \in DOMAIN c.gcos : c.gcos[k] \in Offered /\ <<"check", k>> \in Range(c.todo)
  BY <1>2, AuthorizeLegal DEF Check1
<1>6. Legal(c.todo) /\ c.todo # <<>> /\ Derives \notin Range(c.todo)
      /\ Head(c.todo)[1] \notin Attests \cup {"check"}
  BY <1>2, AuthorizeLegal DEF Attests
<1> QED BY <1>2, <1>3, <1>4, <1>5, <1>6, BeginStep

LEMMA SubcallBegins ==
    ASSUME FlowInv, NEW t \in Threads, AuthorizeSubcall(t)
    PROVE  FlowInv'
<1>1. PICK host \in Hosts, parent \in Offered, child \in Offered :
          Begin(t, [host |-> host, op |-> "authorize_subcall",
                    gcos |-> <<parent, child>>, todo |-> SubcallProgram])
  BY DEF AuthorizeSubcall
<1> DEFINE c == [host |-> host, op |-> "authorize_subcall",
                 gcos |-> <<parent, child>>, todo |-> SubcallProgram]
<1>2. /\ DOMAIN c = {"host", "op", "gcos", "todo"}
      /\ c.host = host /\ c.todo = SubcallProgram
      /\ Len(c.gcos) = 2 /\ DOMAIN c.gcos = 1 .. 2
      /\ c.gcos[1] = parent /\ c.gcos[2] = child
  OBVIOUS
<1>3. Begin(t, c)
  BY <1>1
<1> HIDE DEF c
<1>4. {"host", "gcos", "todo"} \subseteq DOMAIN c /\ DOMAIN c \subseteq DOMAIN Idle
      /\ {"now", "began", "child"} \cap DOMAIN c = {}
  BY <1>2 DEF Idle
<1>5. \A k \in DOMAIN c.gcos : c.gcos[k] \in Offered /\ <<"check", k>> \in Range(c.todo)
  BY <1>2, SubcallLegal DEF Check1, Check2
<1>6. Legal(c.todo) /\ c.todo # <<>> /\ Derives \notin Range(c.todo)
      /\ Head(c.todo)[1] \notin Attests \cup {"check"}
  BY <1>2, SubcallLegal DEF Attests
<1> QED BY <1>2, <1>3, <1>4, <1>5, <1>6, BeginStep

LEMMA DeriveBegins ==
    ASSUME FlowInv, NEW t \in Threads, DeriveForSubcall(t)
    PROVE  FlowInv'
<1>1. PICK host \in Hosts, parent \in Offered, request \in Requests :
          Begin(t, [host |-> host, op |-> "derive_for_subcall",
                    request |-> request, gcos |-> <<parent>>,
                    todo |-> DeriveProgram("issue")])
  BY DEF DeriveForSubcall
<1> DEFINE c == [host |-> host, op |-> "derive_for_subcall",
                 request |-> request, gcos |-> <<parent>>,
                 todo |-> DeriveProgram("issue")]
<1>2. /\ DOMAIN c = {"host", "op", "request", "gcos", "todo"}
      /\ c.host = host /\ c.todo = DeriveProgram("issue") /\ c.request = request
      /\ Len(c.gcos) = 1 /\ DOMAIN c.gcos = 1 .. 1 /\ c.gcos[1] = parent
  OBVIOUS
<1>3. Begin(t, c)
  BY <1>1
<1> HIDE DEF c
<1>4. {"host", "gcos", "todo"} \subseteq DOMAIN c /\ DOMAIN c \subseteq DOMAIN Idle
      /\ {"now", "began", "child"} \cap DOMAIN c = {}
  BY <1>2 DEF Idle
<1>5. \A k \in DOMAIN c.gcos : c.gcos[k] \in Offered /\ <<"check", k>> \in Range(c.todo)
  BY <1>2, DeriveLegal DEF Check1
<1>6. Legal(c.todo) /\ c.todo # <<>> /\ Head(c.todo)[1] \notin Attests \cup {"check"}
  BY <1>2, DeriveLegal DEF Attests
<1> QED BY <1>2, <1>3, <1>4, <1>5, <1>6, BeginStep

LEMMA InitFlow == Init => FlowInv
<1> SUFFICES ASSUME Init PROVE FlowInv
  OBVIOUS
<1>1. /\ clock = 0 /\ decisions = <<>> /\ issued = {}
      /\ call = [t \in Threads |-> Idle]
  BY DEF Init
<1>2. CallsShaped /\ \A t \in Threads : call[t].todo = <<>>
  BY <1>1 DEF CallsShaped, Idle
<1>3. Listed(decisions) /\ DOMAIN decisions = {}
  <2>1. decisions = <<>> /\ <<>> \in Seq({}) /\ Len(<<>>) = 0
    BY <1>1
  <2>2. Listed(<<>>)
    BY <2>1, SeqListed
  <2>3. DOMAIN <<>> = {}
    BY <2>1, <2>2, ListedFacts
  <2> QED BY <2>1, <2>2, <2>3
<1> QED BY <1>1, <1>2, <1>3, RuntimeBounds DEF FlowInv

LEMMA StepFlow == FlowInv /\ [Next]_vars => FlowInv'
<1> SUFFICES ASSUME FlowInv, [Next]_vars PROVE FlowInv'
  OBVIOUS
<1>1. CASE UNCHANGED vars
  <2>1. /\ clock' = clock /\ call' = call /\ decisions' = decisions
        /\ issued' = issued
    BY <1>1 DEF vars
  <2>2. \A t \in Threads : call'[t].todo # <<>> => Flow(call'[t], clock')
    BY <2>1 DEF FlowInv
  <2>3. \A i \in DOMAIN decisions' : Settled(decisions'[i], clock')
    BY <2>1 DEF FlowInv
  <2>4. CallsShaped'
    BY <2>1 DEF FlowInv, CallsShaped
  <2>5. clock' \in 0 .. MaxClock /\ Listed(decisions') /\ \A g \in issued' : Rooted(g)
    BY <2>1 DEF FlowInv
  <2> QED BY <2>2, <2>3, <2>4, <2>5 DEF FlowInv
<1> QED BY <1>1, TickStep, AuthorizeBegins, SubcallBegins, DeriveBegins, StageStep
        DEF Next

LEMMA SettledRooted ==
    ASSUME NEW d, NEW time \in 0 .. MaxClock, Settled(d, time)
    PROVE  \A g \in Range(d.gcos) : IsAttested(g) /\ Rooted(g) /\ Bound(g)
<1>1. d.began \in Nat /\ d.at \in 0 .. MaxClock
  BY RuntimeBounds DEF Settled
<1> QED BY <1>1, VerifiedRooted DEF Settled

LEMMA FlowRooted == FlowInv => RootedAuthority /\ IssuedIsRooted
<1> SUFFICES ASSUME FlowInv PROVE RootedAuthority /\ IssuedIsRooted
  OBVIOUS
<1>1. ASSUME NEW i \in DOMAIN decisions, NEW g \in Range(decisions[i].gcos)
      PROVE  \E r \in Roots : Within(g, r)
  <2>1. Rooted(g)
    BY <1>1, SettledRooted DEF FlowInv
  <2> QED BY <2>1 DEF Rooted
<1>2. IssuedIsRooted
  BY DEF FlowInv, IssuedIsRooted, Rooted
<1> QED BY <1>1, <1>2 DEF RootedAuthority

(***************************************************************************)
(* No allowed decision rests on more authority than a root holds, whatever *)
(* is forged, however many derivations lie between, on any threads.        *)
(***************************************************************************)
THEOREM DecisionsAreRooted == Spec => []RootedAuthority
<1>1. FlowInv => RootedAuthority
  BY FlowRooted
<1> QED BY InitFlow, StepFlow, <1>1, PTL DEF Spec

(***************************************************************************)
(* The authority attests nothing that is not within a root.                *)
(***************************************************************************)
THEOREM AttestedAreRooted == Spec => []IssuedIsRooted
<1>1. FlowInv => IssuedIsRooted
  BY FlowRooted
<1> QED BY InitFlow, StepFlow, <1>1, PTL DEF Spec

-----------------------------------------------------------------------------
(* What a stage does, whichever it is *)

\* The call ends without an allowed decision.
Ends(t) == call'[t].todo = <<>> /\ decisions' = decisions

\* It goes on to its next stage.
Goes(t, gcos) ==
    /\ Tail(call[t].todo) # <<>> /\ call'[t].todo = Tail(call[t].todo)
    /\ call'[t].gcos = gcos /\ call'[t].host = call[t].host
    /\ call'[t].began = call[t].began /\ call'[t].meta = call[t].meta
    /\ decisions' = decisions

\* It is allowed.
Allows(t, gcos) ==
    /\ Tail(call[t].todo) = <<>> /\ call'[t].todo = <<>>
    /\ decisions' = Append(decisions,
          [host |-> call[t].host, gcos |-> gcos, child |-> call[t].child,
           began |-> call[t].began, at |-> clock])

Validates == <<"validate", 2>>
Expires == <<"expiry", 1>>

\* What a stage that leaves the GCOs as they are has found.
Finds(t) ==
    /\ Head(call[t].todo) # Derives /\ Head(call[t].todo)[1] \notin Attests
    /\ Head(call[t].todo) = Expires => call[t].gcos[1].expires_at > clock
    /\ Head(call[t].todo) = Validates =>
           ValidateFault(call[t].gcos[1], call[t].gcos[2], clock) = "OK"

Moves(t) ==
    /\ call[t].todo # <<>> /\ UNCHANGED <<clock, begun>>
    /\ \A u \in Threads \ {t} : call'[u] = call[u]
    /\ \/ Ends(t)
       \/ (Goes(t, call[t].gcos) \/ Allows(t, call[t].gcos)) /\ Finds(t)
       \/ /\ Head(call[t].todo) = Derives \/ Head(call[t].todo)[1] \in Attests
          /\ \E child : Goes(t, <<call[t].gcos[1], child>>)
    /\ \A i \in 1 .. 2 : Head(call[t].todo) = <<"check", i>> => CheckAttestation(t, i)
    /\ (\A i \in 1 .. 2 : Head(call[t].todo) # <<"check", i>>) => entries' = entries

LEMMA PassMoves ==
    ASSUME FlowInv, NEW t \in Threads, call[t].todo # <<>>, NEW now, NEW gcos,
           Pass(t, now, gcos)
    PROVE  /\ Goes(t, gcos) \/ Allows(t, gcos)
           /\ begun' = begun /\ \A u \in Threads \ {t} : call'[u] = call[u]
<1>1. CallsShaped /\ Listed(call[t].todo)
  BY DEF FlowInv, Flow, Legal
<1> QED BY <1>1, PassGoesOn, PassEnds DEF Goes, Allows

LEMMA DenyMoves ==
    ASSUME FlowInv, NEW t \in Threads, NEW fault, NEW of, Deny(t, fault, of)
    PROVE  Ends(t) /\ begun' = begun /\ \A u \in Threads \ {t} : call'[u] = call[u]
BY DenyMeans DEF FlowInv, Ends, history

LEMMA OutcomeMoves ==
    ASSUME FlowInv, NEW t \in Threads, call[t].todo # <<>>, NEW fault, NEW of,
           Outcome(t, fault, of)
    PROVE  /\ \/ Ends(t)
              \/ fault = "OK" /\ (Goes(t, call[t].gcos) \/ Allows(t, call[t].gcos))
           /\ begun' = begun /\ \A u \in Threads \ {t} : call'[u] = call[u]
BY PassMoves, DenyMoves DEF Outcome

LEMMA MintMoves ==
    ASSUME FlowInv, NEW t \in Threads, call[t].todo # <<>>,
           Head(call[t].todo)[1] \in Attests, NEW a, Mint(t, a)
    PROVE  /\ \E child : Goes(t, <<call[t].gcos[1], child>>)
           /\ begun' = begun /\ \A u \in Threads \ {t} : call'[u] = call[u]
<1>1. CallsShaped /\ Legal(call[t].todo)
  BY DEF FlowInv, Flow
<1>2. Tail(call[t].todo) # <<>>
  BY <1>1, AfterAttests
<1> QED BY <1>1, <1>2, MintMeans DEF Goes

LEMMA CheckMoves ==
    ASSUME FlowInv, NEW t \in Threads, NEW i \in 1 .. 2, CheckAttestation(t, i)
    PROVE  Moves(t)
<1>1. /\ call[t].todo # <<>> /\ Head(call[t].todo) = <<"check", i>>
      /\ clock' = clock
      /\ \E fault, of : Outcome(t, fault, of) \/ Deny(t, fault, of)
  BY DEF CheckAttestation, At
<1>2. Finds(t)
  BY <1>1 DEF Finds, Derives, Attests, Expires, Validates
<1>3. \A k \in 1 .. 2 : Head(call[t].todo) = <<"check", k>> => k = i
  BY <1>1
<1>4. /\ \/ Ends(t)
         \/ Goes(t, call[t].gcos) \/ Allows(t, call[t].gcos)
      /\ begun' = begun /\ \A u \in Threads \ {t} : call'[u] = call[u]
  BY <1>1, OutcomeMoves, DenyMoves
<1> QED BY <1>1, <1>2, <1>3, <1>4 DEF Moves

LEMMA LookMoves ==
    ASSUME FlowInv, NEW t \in Threads, NEW i \in 1 .. 2,
           Expiry(t, i) \/ Decide(t, i) \/ Validate(t)
    PROVE  Moves(t)
<1> DEFINE p == call[t].todo
<1>1. /\ p # <<>> /\ UNCHANGED <<clock, entries>>
      /\ Head(p)[1] \in {"expiry", "decide", "validate"}
      /\ \A k \in 1 .. 2 : Head(p) # <<"check", k>>
      /\ Head(p) # Derives /\ Head(p)[1] \notin Attests
  BY DEF Expiry, Decide, Validate, At, Derives, Attests
<1>2. PICK fault, of :
          /\ Outcome(t, fault, of)
          /\ fault = "OK" /\ Head(p) = Expires => call[t].gcos[1].expires_at > clock
          /\ fault = "OK" /\ Head(p) = Validates =>
                 ValidateFault(call[t].gcos[1], call[t].gcos[2], clock) = "OK"
  <2>1. CASE Expiry(t, i)
    <3> DEFINE fault == Check(call[t].gcos[i].expires_at > clock, "EXPIRED")
    <3>1. Head(p) = <<"expiry", i>> /\ Outcome(t, fault, call[t].gcos[i])
      BY <2>1 DEF Expiry, At
    <3>2. (Head(p) = Expires => i = 1) /\ Head(p) # Validates
      BY <3>1 DEF Expires, Validates
    <3>3. fault = "OK" => call[t].gcos[i].expires_at > clock
      BY DEF Check
    <3> HIDE DEF p, fault
    <3> QED BY <3>1, <3>2, <3>3
  <2>2. CASE Decide(t, i)
    <3>1. Head(p) # Validates /\ Head(p) # Expires /\ \E fault, of : Outcome(t, fault, of)
      BY <2>2 DEF Decide, At, Expires, Validates
    <3> QED BY <3>1
  <2>3. CASE Validate(t)
    <3>1. /\ Head(p) # Expires
          /\ Outcome(t, ValidateFault(call[t].gcos[1], call[t].gcos[2], clock),
                     call[t].gcos[2])
      BY <2>3 DEF Validate, At, Expires
    <3> QED BY <3>1
  <2> QED BY <2>1, <2>2, <2>3
<1>3. /\ \/ Ends(t)
         \/ fault = "OK" /\ (Goes(t, call[t].gcos) \/ Allows(t, call[t].gcos))
      /\ begun' = begun /\ \A u \in Threads \ {t} : call'[u] = call[u]
  BY <1>1, <1>2, OutcomeMoves
<1> QED BY <1>1, <1>2, <1>3 DEF Moves, Finds

LEMMA SampleMoves ==
    ASSUME FlowInv, NEW t \in Threads, NEW i \in 1 .. 2, Sample(t, i)
    PROVE  Moves(t)
<1>1. /\ call[t].todo # <<>> /\ UNCHANGED <<clock, entries>>
      /\ Head(call[t].todo) = <<"sample", i>>
      /\ Pass(t, clock, call[t].gcos) \/ \E fault, of : Deny(t, fault, of)
  BY DEF Sample, At
<1>2. Finds(t) /\ \A k \in 1 .. 2 : Head(call[t].todo) # <<"check", k>>
  BY <1>1 DEF Finds, Derives, Attests, Expires, Validates
<1>3. /\ \/ Ends(t)
         \/ Goes(t, call[t].gcos) \/ Allows(t, call[t].gcos)
      /\ begun' = begun /\ \A u \in Threads \ {t} : call'[u] = call[u]
  BY <1>1, PassMoves, DenyMoves
<1> QED BY <1>1, <1>2, <1>3 DEF Moves

LEMMA ChildMoves ==
    ASSUME FlowInv, NEW t \in Threads, Request(t) \/ IssueAttestation(t)
    PROVE  Moves(t)
<1> DEFINE p == call[t].todo
<1>1. /\ p # <<>> /\ UNCHANGED <<clock, entries>>
      /\ Head(p) = Derives \/ Head(p)[1] \in Attests
      /\ \A k \in 1 .. 2 : Head(p) # <<"check", k>>
  BY DEF Request, IssueAttestation, At, Derives, Attests
<1>2. CASE \E fault, of : Deny(t, fault, of)
  BY <1>1, <1>2, DenyMoves DEF Moves
<1>3. CASE /\ Head(p) = Derives
           /\ \E child : Pass(t, call[t].now, <<call[t].gcos[1], child>>)
  <2>1. PICK child : Pass(t, call[t].now, <<call[t].gcos[1], child>>)
    BY <1>3
  <2>2. Legal(p)
    BY <1>1 DEF FlowInv, Flow
  <2>3. Tail(p) # <<>>
    <3> HIDE DEF p
    <3> QED BY <1>1, <1>3, <2>2, AfterDerives
  <2>4. /\ Goes(t, <<call[t].gcos[1], child>>)
        /\ begun' = begun /\ \A u \in Threads \ {t} : call'[u] = call[u]
    BY <1>1, <2>1, <2>3, PassMoves DEF Allows
  <2> QED BY <1>1, <2>4 DEF Moves
<1>4. CASE Head(p)[1] \in Attests /\ \E a : Mint(t, a)
  <2>1. /\ \E child : Goes(t, <<call[t].gcos[1], child>>)
        /\ begun' = begun /\ \A u \in Threads \ {t} : call'[u] = call[u]
    BY <1>1, <1>4, MintMoves
  <2> QED BY <1>1, <2>1 DEF Moves
<1>5. Request(t) => \/ \E fault, of : Deny(t, fault, of)
                    \/ /\ Head(p) = Derives
                       /\ \E child : Pass(t, call[t].now, <<call[t].gcos[1], child>>)
  BY DEF Request, At, Derives
<1>6. IssueAttestation(t) => \/ \E fault, of : Deny(t, fault, of)
                             \/ Head(p)[1] \in Attests /\ \E a : Mint(t, a)
  BY DEF IssueAttestation, At, Attests
<1> QED BY <1>2, <1>3, <1>4, <1>5, <1>6

LEMMA StageMoves ==
    ASSUME FlowInv, NEW t \in Threads, Stage(t)
    PROVE  Moves(t)
BY CheckMoves, LookMoves, SampleMoves, ChildMoves DEF Stage

-----------------------------------------------------------------------------
(* Each stage finds the GCOs it works on, and none of them has expired     *)
(* when the call is allowed.                                               *)

(***************************************************************************)
(* A derivation is followed by a validation, and nothing that needs to be  *)
(* looked at comes after the last validation or the expiry check.          *)
(***************************************************************************)
Guarded(todo) ==
    \A i \in DOMAIN todo :
        /\ todo[i][2] \in 1 .. 2
        /\ todo[i] # Prints
        /\ todo[i] = Validates =>
               i = Len(todo) \/ \E j \in DOMAIN todo : j > i /\ todo[j] = Validates
        /\ todo[i] = Expires => \A j \in DOMAIN todo : j > i => todo[j] # Check1
        /\ todo[i] = Derives => \E j \in DOMAIN todo : j > i /\ todo[j] = Validates

Staged(c) ==
    /\ Guarded(c.todo)
    /\ Len(c.gcos) \in 1 .. 2
    /\ \A i \in DOMAIN c.todo :
           c.todo[i][2] > Len(c.gcos) =>
               \E j \in DOMAIN c.todo : j < i /\ c.todo[j] = Derives
    /\ \/ Validates \in Range(c.todo)
       \/ /\ Len(c.gcos) = 1 /\ Derives \notin Range(c.todo)
          /\ Expires \in Range(c.todo) \/ c.began < c.gcos[1].expires_at

LEMMA GuardedTail ==
    ASSUME NEW p, Listed(p), p # <<>>, Guarded(p)
    PROVE  /\ Guarded(Tail(p))
           /\ Head(p)[2] \in 1 .. 2 /\ Head(p) # Prints
           /\ Head(p) = Validates => Tail(p) = <<>> \/ Validates \in Range(Tail(p))
           /\ Head(p) = Expires => Check1 \notin Range(Tail(p))
           /\ Head(p) = Derives => Validates \in Range(Tail(p))
<1> DEFINE q == Tail(p)
<1>1. /\ DOMAIN q = 1 .. Len(p) - 1 /\ DOMAIN p = 1 .. Len(p) /\ Len(p) \in Nat
      /\ Len(p) >= 1 /\ Head(p) = p[1] /\ Len(q) = Len(p) - 1
      /\ q = <<>> <=> Len(p) = 1
      /\ \A i \in DOMAIN q : i + 1 \in DOMAIN p /\ q[i] = p[i + 1] /\ i \in Nat /\ i + 1 > 1
      /\ \A i, j \in DOMAIN q : j > i => j + 1 > i + 1
      /\ \A i \in DOMAIN p : i # 1 => i - 1 \in DOMAIN q /\ p[i] = q[i - 1]
  BY TailFacts
<1> HIDE DEF q
<1>2. \A i \in DOMAIN q : \A s :
          (\E j \in DOMAIN p : j > i + 1 /\ p[j] = s) => \E j \in DOMAIN q : j > i /\ q[j] = s
  <2> TAKE i \in DOMAIN q
  <2> SUFFICES ASSUME NEW j \in DOMAIN p, j > i + 1
               PROVE  j - 1 \in DOMAIN q /\ j - 1 > i /\ p[j] = q[j - 1]
    OBVIOUS
  <2> QED BY <1>1
<1>3. ASSUME NEW i \in DOMAIN q
      PROVE  /\ q[i][2] \in 1 .. 2
             /\ q[i] # Prints
             /\ q[i] = Validates =>
                    i = Len(q) \/ \E j \in DOMAIN q : j > i /\ q[j] = Validates
             /\ q[i] = Expires => \A j \in DOMAIN q : j > i => q[j] # Check1
             /\ q[i] = Derives => \E j \in DOMAIN q : j > i /\ q[j] = Validates
  <2>1. i + 1 \in DOMAIN p /\ q[i] = p[i + 1] /\ i \in Nat
    BY <1>1, <1>3
  <2>2. /\ q[i][2] \in 1 .. 2
        /\ q[i] # Prints
        /\ q[i] = Validates =>
               i + 1 = Len(p) \/ \E j \in DOMAIN p : j > i + 1 /\ p[j] = Validates
        /\ q[i] = Expires => \A j \in DOMAIN p : j > i + 1 => p[j] # Check1
        /\ q[i] = Derives => \E j \in DOMAIN p : j > i + 1 /\ p[j] = Validates
    BY <2>1 DEF Guarded
  <2>3. q[i] = Expires => \A j \in DOMAIN q : j > i => q[j] # Check1
    BY <1>1, <1>3, <2>2
  <2>4. i + 1 = Len(p) => i = Len(q)
    BY <1>1, <2>1
  <2> QED BY <1>2, <1>3, <2>2, <2>3, <2>4
<1>4. 1 \in DOMAIN p /\ \A j \in DOMAIN q : j + 1 > 1
  BY <1>1
<1>5. \A s : (\E j \in DOMAIN p : j > 1 /\ p[j] = s) => s \in Range(q)
  BY <1>1 DEF Range
<1>6. Head(p)[2] \in 1 .. 2 /\ Head(p) # Prints
  BY <1>1, <1>4 DEF Guarded
<1>7. Head(p) = Validates => q = <<>> \/ Validates \in Range(q)
  BY <1>1, <1>4, <1>5 DEF Guarded
<1>8. Head(p) = Expires => Check1 \notin Range(q)
  BY <1>1, <1>4 DEF Guarded, Range
<1>9. Head(p) = Derives => Validates \in Range(q)
  BY <1>1, <1>4, <1>5 DEF Guarded
<1> QED BY <1>3, <1>6, <1>7, <1>8, <1>9 DEF Guarded, q

\* The next stage finds the GCOs it works on.
LEMMA StagedPlaces ==
    ASSUME NEW c, Staged(c), Listed(c.todo), c.todo # <<>>
    PROVE  /\ Head(c.todo)[2] <= Len(c.gcos)
           /\ \A n \in 1 .. 2 : n >= Len(c.gcos) /\ (Head(c.todo) = Derives => n = 2) =>
                  \A i \in DOMAIN Tail(c.todo) :
                      Tail(c.todo)[i][2] > n =>
                          \E j \in DOMAIN Tail(c.todo) : j < i /\ Tail(c.todo)[j] = Derives
<1> DEFINE p == c.todo
           q == Tail(p)
           m == Len(c.gcos)
<1>1. /\ DOMAIN q = 1 .. Len(p) - 1 /\ DOMAIN p = 1 .. Len(p) /\ Len(p) \in Nat
      /\ Len(p) >= 1 /\ Head(p) = p[1]
      /\ \A i \in DOMAIN q : i + 1 \in DOMAIN p /\ q[i] = p[i + 1] /\ i \in Nat
      /\ \A i \in DOMAIN p : i # 1 => i - 1 \in DOMAIN q /\ p[i] = q[i - 1]
  BY TailFacts
<1>2. /\ m \in 1 .. 2
      /\ \A i \in DOMAIN p : p[i][2] \in 1 .. 2
      /\ \A i \in DOMAIN p : p[i][2] > m => \E j \in DOMAIN p : j < i /\ p[j] = Derives
  BY DEF Staged, Guarded
<1> HIDE DEF p, q, m
<1>3. p[1][2] <= m
  <2>1. ~ \E j \in DOMAIN p : j < 1
    BY <1>1
  <2>2. 1 \in DOMAIN p /\ p[1][2] \in 1 .. 2
    BY <1>1, <1>2
  <2> QED BY <1>2, <2>1, <2>2
<1>4. ASSUME NEW n \in 1 .. 2, n >= m, Head(p) = Derives => n = 2,
             NEW i \in DOMAIN q, q[i][2] > n
      PROVE  \E j \in DOMAIN q : j < i /\ q[j] = Derives
  <2>1. i + 1 \in DOMAIN p /\ q[i] = p[i + 1] /\ i \in Nat /\ p[i + 1][2] \in 1 .. 2
    BY <1>1, <1>2, <1>4
  <2>2. p[i + 1][2] > m /\ Head(p) # Derives
    BY <1>2, <1>4, <2>1
  <2>3. PICK j \in DOMAIN p : j < i + 1 /\ p[j] = Derives
    BY <1>2, <2>1, <2>2
  <2>4. j # 1
    BY <1>1, <2>2, <2>3
  <2>5. j - 1 \in DOMAIN q /\ q[j - 1] = Derives /\ j - 1 < i
    BY <1>1, <2>1, <2>3, <2>4
  <2> QED BY <2>5
<1> QED BY <1>1, <1>3, <1>4 DEF p, q, m

LEMMA StagedPasses ==
    ASSUME NEW c, NEW d, Staged(c), Listed(c.todo), c.todo # <<>>,
           Tail(c.todo) # <<>>, d.todo = Tail(c.todo), d.began = c.began,
           \/ /\ d.gcos = c.gcos
              /\ Head(c.todo) # Derives
              /\ Head(c.todo) = Expires /\ Len(c.gcos) = 1 /\ Derives \notin Range(c.todo)
                     => c.began < c.gcos[1].expires_at
           \/ /\ Len(d.gcos) = 2
              /\ Head(c.todo) = Derives \/ (Head(c.todo)[1] \in Attests /\ Len(c.gcos) = 2)
    PROVE  Staged(d)
<1> DEFINE p == c.todo
           q == Tail(p)
<1>1. /\ Guarded(q)
      /\ Head(p) = Validates => Validates \in Range(q)
      /\ Head(p) = Derives => Validates \in Range(q)
  BY GuardedTail DEF Staged
<1>2. /\ Range(q) \subseteq Range(p)
      /\ \A s \in Range(p) : s = Head(p) \/ s \in Range(q)
  BY RangeOfTail
<1>3. /\ Len(d.gcos) \in 1 .. 2 /\ Len(d.gcos) >= Len(c.gcos)
      /\ Head(p) = Derives => Len(d.gcos) = 2
  <2>1. PICK m, n : m = Len(c.gcos) /\ n = Len(d.gcos)
    OBVIOUS
  <2>2. m \in 1 .. 2 /\ ((n = m /\ Head(p) # Derives) \/ n = 2)
    BY <2>1 DEF Staged
  <2>3. n \in 1 .. 2 /\ n >= m /\ (Head(p) = Derives => n = 2)
    BY <2>2
  <2> QED BY <2>1, <2>3
<1>4. \A i \in DOMAIN q :
          q[i][2] > Len(d.gcos) => \E j \in DOMAIN q : j < i /\ q[j] = Derives
  BY <1>3, StagedPlaces
<1>5. \/ Validates \in Range(q)
      \/ /\ Len(d.gcos) = 1 /\ Derives \notin Range(q)
         /\ Expires \in Range(q) \/ d.began < d.gcos[1].expires_at
  <2> HIDE DEF q
  <2>1. CASE Validates \in Range(p)
    BY <1>1, <1>2, <2>1
  <2>2. CASE /\ Len(c.gcos) = 1 /\ Derives \notin Range(p)
             /\ Expires \in Range(p) \/ c.began < c.gcos[1].expires_at
    <3>1. CASE d.gcos = c.gcos
      BY <1>2, <2>2, <3>1
    <3>2. CASE d.gcos # c.gcos
      BY <1>1, <2>2, <3>2
    <3> QED BY <3>1, <3>2
  <2> QED BY <2>1, <2>2 DEF Staged
<1> QED BY <1>1, <1>3, <1>4, <1>5 DEF Staged

LEMMA StagedDecides ==
    ASSUME NEW c, Staged(c), Listed(c.todo), c.todo # <<>>, Tail(c.todo) = <<>>
    PROVE  \/ Head(c.todo) = Validates
           \/ /\ Len(c.gcos) = 1
              /\ Head(c.todo) = Expires \/ c.began < c.gcos[1].expires_at
<1>1. \A s \in Range(c.todo) : s = Head(c.todo)
  <2>1. Range(<<>>) = {}
    BY DEF Range
  <2> QED BY <2>1, RangeOfTail
<1> QED BY <1>1 DEF Staged

\* Whatever was validated is younger than its parent, and has not expired.
LEMMA ValidatedLives ==
    ASSUME NEW parent, NEW child, NEW now \in Int, IsGCO(parent), IsGCO(child),
           ValidateFault(parent, child, now) = "OK"
    PROVE  child.expires_at > now /\ parent.expires_at > now
<1>1. child.expires_at > now /\ child.expires_at <= parent.expires_at
  <2>1. ExpiryFault(parent, child, now) = "OK"
    BY ValidateChecks
  <2> QED BY <2>1, FirstOfTwo DEF ExpiryFault, Check
<1>2. child.expires_at \in Int /\ parent.expires_at \in Int
  BY DEF IsGCO
<1> QED BY <1>1, <1>2

LEMMA CheckedLives ==
    ASSUME NEW time \in Nat, NEW c, Flow(c, time), NEW k \in DOMAIN c.gcos,
           <<"check", k>> \notin Range(c.todo), Prints \notin Range(c.todo)
    PROVE  IsAttested(c.gcos[k]) /\ c.gcos[k].expires_at \in Int
<1>1. Sound(c.gcos[k]) /\ Verified(c.gcos[k], c.began, time)
  BY DEF Flow
<1> QED BY <1>1 DEF Sound, Verified, IsAttested, IsGCO

LEMMA ExpiryLives ==
    ASSUME NEW time \in Nat, NEW c, Flow(c, time), Staged(c), c.todo # <<>>,
           Head(c.todo) = Expires, c.gcos[1].expires_at > time
    PROVE  c.began < c.gcos[1].expires_at
<1>1. Listed(c.todo) /\ c.began \in 0 .. time /\ DOMAIN c.gcos = 1 .. Len(c.gcos)
  BY DEF Flow, Legal
<1>2. Check1 \notin Range(c.todo)
  <2>1. Check1 \notin Range(Tail(c.todo)) /\ Check1 # Expires
    BY <1>1, GuardedTail DEF Staged, Check1, Expires
  <2> QED BY <1>1, <2>1, RangeOfTail
<1>3. Prints \notin Range(c.todo)
  BY DEF Staged, Guarded, Range
<1>4. 1 \in DOMAIN c.gcos
  BY <1>1 DEF Staged
<1>5. c.gcos[1].expires_at \in Int
  BY <1>2, <1>3, <1>4, CheckedLives DEF Check1
<1> QED BY <1>1, <1>5

\* Nothing that an allowed call rests on had expired when it began.
LEMMA StagedAllows ==
    ASSUME NEW time \in Nat, NEW c, Flow(c, time), Staged(c), c.todo # <<>>,
           Tail(c.todo) = <<>>,
           Head(c.todo) = Expires => c.gcos[1].expires_at > time,
           Head(c.todo) = Validates => ValidateFault(c.gcos[1], c.gcos[2], time) = "OK"
    PROVE  \A g \in Range(c.gcos) : c.began < g.expires_at
<1>1. /\ Listed(c.todo) /\ c.began \in 0 .. time /\ DOMAIN c.gcos = 1 .. Len(c.gcos)
      /\ Len(c.gcos) \in 1 .. 2 /\ Prints \notin Range(c.todo)
  BY DEF Flow, Legal, Staged, Guarded, Range
<1>2. CASE Head(c.todo) = Validates
  <2>1. \A s \in Range(c.todo) : s = Validates
    <3>1. Range(<<>>) = {}
      BY DEF Range
    <3> QED BY <1>1, <1>2, <3>1, RangeOfTail
  <2>2. Len(c.gcos) = 2
    <3>1. Head(c.todo)[2] <= Len(c.gcos)
      BY <1>1, StagedPlaces
    <3> QED BY <1>1, <1>2, <3>1 DEF Validates
  <2>3. \A k \in 1 .. 2 : <<"check", k>> \notin Range(c.todo)
    BY <2>1 DEF Validates
  <2>4. 1 \in DOMAIN c.gcos /\ 2 \in DOMAIN c.gcos
    BY <1>1, <2>2
  <2>5. IsGCO(c.gcos[1]) /\ IsGCO(c.gcos[2])
    BY <1>1, <2>3, <2>4, CheckedLives DEF IsAttested
  <2>6. c.gcos[1].expires_at > time /\ c.gcos[2].expires_at > time
    BY <1>2, <2>5, ValidatedLives
  <2>7. c.gcos[1].expires_at \in Int /\ c.gcos[2].expires_at \in Int
    BY <2>5 DEF IsGCO
  <2>8. c.began < c.gcos[1].expires_at /\ c.began < c.gcos[2].expires_at
    BY <1>1, <2>6, <2>7
  <2> QED BY <1>1, <2>2, <2>8 DEF Range
<1>3. CASE Head(c.todo) # Validates
  <2>1. /\ Len(c.gcos) = 1
        /\ Head(c.todo) = Expires \/ c.began < c.gcos[1].expires_at
    BY <1>1, <1>3, StagedDecides
  <2>2. c.began < c.gcos[1].expires_at
    BY <2>1, ExpiryLives
  <2> QED BY <1>1, <2>1, <2>2 DEF Range
<1> QED BY <1>2, <1>3

LEMMA AppendMembers ==
    ASSUME NEW s, Listed(s), NEW e
    PROVE  \A i \in DOMAIN Append(s, e) :
               \/ i \in DOMAIN s /\ Append(s, e)[i] = s[i]
               \/ i = Len(s) + 1 /\ i \notin DOMAIN s /\ Append(s, e)[i] = e
<1>1. /\ DOMAIN Append(s, e) = 1 .. Len(s) + 1
      /\ \A i \in 1 .. Len(s) : Append(s, e)[i] = s[i]
      /\ Append(s, e)[Len(s) + 1] = e
      /\ DOMAIN s = 1 .. Len(s) /\ Len(s) \in Nat
  BY ListedAppend, ListedFacts
<1>2. \A i \in 1 .. Len(s) + 1 : i \in 1 .. Len(s) \/ i = Len(s) + 1
  BY <1>1
<1> QED BY <1>1, <1>2

-----------------------------------------------------------------------------
(* The caches *)

Remembers(e) ==
    /\ e \in [DOMAIN e -> Int] /\ IsFiniteSet(DOMAIN e)
    /\ Cardinality(DOMAIN e) <= MaxEntries

\* The cache e remembers the attestation of g while it is live.
Spent(e, g, time) ==
    /\ Claims(g).exp \in Int
    /\ \/ Claims(g).exp <= time
       \/ Claims(g).jti \in DOMAIN e /\ e[Claims(g).jti] = Claims(g).exp

LEMMA EvictedCache ==
    ASSUME NEW e, Remembers(e), NEW now \in Int, NEW time \in Int, now <= time,
           NEW new, new = Evict(e, now)
    PROVE  /\ Remembers(new)
           /\ \A g : Spent(e, g, time) => Spent(new, g, time)
           /\ \A j \in DOMAIN e : e[j] > now => j \in DOMAIN new /\ new[j] = e[j]
<1>1. MaxEntries \in Nat
  BY RuntimeBounds
<1>2. e \in [DOMAIN e -> Int] /\ IsFiniteSet(DOMAIN e) /\ Cardinality(DOMAIN e) <= MaxEntries
  BY DEF Remembers
<1>3. /\ DOMAIN new \subseteq DOMAIN e
      /\ new \in [DOMAIN new -> Int]
      /\ IsFiniteSet(DOMAIN new)
      /\ Cardinality(DOMAIN new) <= MaxEntries
      /\ \A j \in DOMAIN e : e[j] > now => j \in DOMAIN new /\ new[j] = e[j]
  BY <1>1, <1>2, EvictKeeps
<1>4. ASSUME NEW g, Spent(e, g, time), ~(Claims(g).exp <= time)
      PROVE  Claims(g).jti \in DOMAIN new /\ new[Claims(g).jti] = Claims(g).exp
  <2>1. PICK j : j = Claims(g).jti
    OBVIOUS
  <2>2. j \in DOMAIN e /\ e[j] = Claims(g).exp /\ e[j] \in Int
    BY <1>2, <1>4, <2>1 DEF Spent
  <2>3. e[j] > now
    BY <1>4, <2>2
  <2> QED BY <1>3, <2>1, <2>2, <2>3
<1> QED BY <1>3, <1>4 DEF Remembers, Spent

LEMMA RecordedCache ==
    ASSUME NEW e, Remembers(e), NEW j, NEW exp \in Int, CanRecord(e, j, MaxEntries),
           NEW new, new = Recorded(e, j, exp)
    PROVE  /\ Remembers(new) /\ j \in DOMAIN new /\ new[j] = exp
           /\ \A g, time : Spent(e, g, time) => Spent(new, g, time)
<1>1. /\ DOMAIN new = DOMAIN e \cup {j} /\ j \notin DOMAIN e /\ new[j] = exp
      /\ \A k \in DOMAIN e : new[k] = e[k]
      /\ \A k \in DOMAIN new : new[k] \in Int
  BY DEF Recorded, CanRecord, Remembers
<1>2. new = [k \in DOMAIN new |-> new[k]]
  BY DEF Recorded
<1>3. new \in [DOMAIN new -> Int]
  BY <1>1, <1>2
<1>4. /\ IsFiniteSet(DOMAIN e \cup {j})
      /\ Cardinality(DOMAIN e \cup {j}) = Cardinality(DOMAIN e) + 1
  BY <1>1, FS_AddElement DEF Remembers
<1>5. Cardinality(DOMAIN e) + 1 <= MaxEntries
  <2>1. Cardinality(DOMAIN e) \in Nat
    BY FS_CardinalityType DEF Remembers
  <2> QED BY <2>1, RuntimeBounds DEF CanRecord
<1>6. \A g, time : Spent(e, g, time) => Spent(new, g, time)
  BY <1>1 DEF Spent
<1>7. IsFiniteSet(DOMAIN new) /\ Cardinality(DOMAIN new) <= MaxEntries
  BY <1>1, <1>4, <1>5
<1> QED BY <1>1, <1>3, <1>6, <1>7 DEF Remembers

\* A check forgets nothing that is live, and what passes it at a host with a
\* cache had not been remembered, and is.
LEMMA CheckCaches ==
    ASSUME FlowInv, DOMAIN entries = Hosts, \A h \in Hosts : Remembers(entries[h]),
           NEW t \in Threads, NEW i \in 1 .. 2, i \in DOMAIN call[t].gcos,
           CheckAttestation(t, i)
    PROVE  LET host == call[t].host
               g == call[t].gcos[i]
           IN  /\ DOMAIN entries' = Hosts
               /\ \A h \in Hosts :
                      /\ Remembers(entries'[h])
                      /\ \A x : Spent(entries[h], x, clock) => Spent(entries'[h], x, clock)
               /\ host \in Protected =>
                      \/ Ends(t)
                      \/ /\ Spent(entries'[host], g, clock)
                         /\ Spent(entries[host], g, clock) => Claims(g).exp <= clock
<1> DEFINE host == call[t].host
           g == call[t].gcos[i]
           now == call[t].now
           fault == VerifyFault(Trust[host], g.attestation, g, now)
           live == Evict(entries[host], now)
           jti == Claims(g).jti
           exp == Claims(g).exp
<1>1. /\ call[t].todo # <<>> /\ Head(call[t].todo) = <<"check", i>>
      /\ CallsShaped /\ clock \in Int
  BY DEF CheckAttestation, At, FlowInv
<1>2. /\ host \in Hosts /\ now \in Int /\ now <= clock /\ g # MALFORMED
      /\ DOMAIN call[t].gcos = 1 .. Len(call[t].gcos)
  BY <1>1 DEF FlowInv, Flow
<1>3. CASE entries' = entries /\ (host \notin Protected \/ Ends(t))
  BY <1>3
<1>4. CASE /\ host \in Protected /\ Ends(t)
           /\ entries' = [entries EXCEPT ![host] = live]
  <2>1. PICK new : new = live
    OBVIOUS
  <2>2. /\ Remembers(new)
        /\ \A x : Spent(entries[host], x, clock) => Spent(new, x, clock)
    BY <1>1, <1>2, <2>1, EvictedCache
  <2>3. /\ DOMAIN entries' = Hosts /\ entries'[host] = new
        /\ \A h \in Hosts \ {host} : entries'[h] = entries[h]
    BY <1>2, <1>4, <2>1
  <2> HIDE DEF live
  <2> QED BY <1>4, <2>2, <2>3
<1>5. CASE /\ fault = "OK" /\ host \in Protected
           /\ CanRecord(live, jti, MaxEntries)
           /\ entries' = [entries EXCEPT ![host] = Recorded(live, jti, exp)]
  <2>1. exp \in Int /\ exp > now
    <3>1. /\ g.attestation # NONE /\ g.attestation.value # NONE
          /\ exp \notin {NONE, BAD} /\ exp > now
      <4>1. PICK trust, x, time : trust = Trust[host] /\ x = g /\ time = now
        OBVIOUS
      <4>2. VerifyFault(trust, x.attestation, x, time) = "OK"
        BY <1>5, <4>1
      <4>3. /\ x.attestation # NONE /\ x.attestation.value # NONE
            /\ Claims(x).exp \notin {NONE, BAD} /\ Claims(x).exp > time
        BY <4>2, VerifiedFresh DEF Claims
      <4> QED BY <4>1, <4>3
    <3>2. IsAttestation(g.attestation)
      <4>1. Sound(g)
        BY <1>1 DEF FlowInv, Flow
      <4> QED BY <1>2, <4>1 DEF Sound, IsAttested
    <3> QED BY <3>1, <3>2 DEF IsAttestation, IsDate, Claims
  <2>2. PICK kept : kept = live
    OBVIOUS
  <2>3. PICK new : new = Recorded(kept, jti, exp)
    OBVIOUS
  <2>4. /\ Remembers(kept)
        /\ \A x : Spent(entries[host], x, clock) => Spent(kept, x, clock)
        /\ \A j \in DOMAIN entries[host] :
               entries[host][j] > now => j \in DOMAIN kept
    <3>1. PICK e, n : e = entries[host] /\ n = now
      OBVIOUS
    <3>2. /\ Remembers(e) /\ kept = Evict(e, n)
          /\ n \in Int /\ clock \in Int /\ n <= clock
      BY <1>1, <1>2, <2>2, <3>1
    <3>3. /\ Remembers(kept)
          /\ \A x : Spent(e, x, clock) => Spent(kept, x, clock)
          /\ \A j \in DOMAIN e : e[j] > n => j \in DOMAIN kept /\ kept[j] = e[j]
      BY <3>2, EvictedCache
    <3> QED BY <3>1, <3>3
  <2>5. CanRecord(kept, jti, MaxEntries)
    BY <1>5, <2>2
  <2>6. /\ Remembers(new) /\ jti \in DOMAIN new /\ new[jti] = exp
        /\ \A x : Spent(kept, x, clock) => Spent(new, x, clock)
    <3> HIDE DEF jti, exp
    <3> QED BY <2>1, <2>3, <2>4, <2>5, RecordedCache
  <2>7. /\ DOMAIN entries' = Hosts /\ entries'[host] = new
        /\ \A h \in Hosts \ {host} : entries'[h] = entries[h]
    BY <1>2, <1>5, <2>2, <2>3
  <2>8. Spent(new, g, clock)
    BY <2>1, <2>6 DEF Spent
  <2>9. Spent(entries[host], g, clock) => exp <= clock
    BY <2>1, <2>4, <2>5 DEF Spent, CanRecord
  <2> HIDE DEF live, jti, exp
  <2> QED BY <2>4, <2>6, <2>7, <2>8, <2>9 DEF exp
<1>6. \/ entries' = entries /\ (host \notin Protected \/ Ends(t))
      \/ /\ host \in Protected /\ Ends(t)
         /\ entries' = [entries EXCEPT ![host] = live]
      \/ /\ fault = "OK" /\ host \in Protected
         /\ CanRecord(live, jti, MaxEntries)
         /\ entries' = [entries EXCEPT ![host] = Recorded(live, jti, exp)]
  <2>1. \A f, of : Deny(t, f, of) => Ends(t)
    BY DenyMoves
  <2>2. fault # "OK" /\ Outcome(t, fault, g) => Ends(t)
    BY <2>1 DEF Outcome
  <2> QED BY <2>1, <2>2 DEF CheckAttestation
<1> HIDE DEF fault, live, jti, exp
<1> QED BY <1>3, <1>4, <1>5, <1>6

-----------------------------------------------------------------------------
(* How the calls begin *)

Starts(t, todo, n) ==
    /\ call[t].todo = <<>> /\ call'[t].todo = todo
    /\ Len(call'[t].gcos) = n /\ DOMAIN call'[t].gcos = 1 .. n
    /\ begun < MaxCalls /\ begun' = begun + 1
    /\ UNCHANGED <<clock, entries, decisions>>
    /\ \A u \in Threads \ {t} : call'[u] = call[u]

\* A program and the number of GCOs it is started with.
Started(todo, n) ==
    \/ todo = AuthorizeProgram(1) /\ n = 1
    \/ todo = SubcallProgram /\ n = 2
    \/ todo = DeriveProgram("issue") /\ n = 1

LEMMA BeginStarts ==
    ASSUME CallsShaped, NEW t \in Threads, NEW c, Begin(t, c),
           {"host", "gcos", "todo"} \subseteq DOMAIN c,
           DOMAIN c \subseteq {"host", "op", "ask", "request", "gcos", "todo"},
           NEW n, Len(c.gcos) = n, DOMAIN c.gcos = 1 .. n
    PROVE  Starts(t, c.todo, n)
<1>1. DOMAIN c \subseteq DOMAIN Idle /\ {"now", "began", "child"} \cap DOMAIN c = {}
  BY DEF Idle
<1>2. begun < MaxCalls /\ begun' = begun + 1
  BY DEF Begin, CanBegin
<1>3. /\ call[t].todo = <<>> /\ call'[t].todo = c.todo /\ call'[t].gcos = c.gcos
      /\ UNCHANGED <<clock, entries, decisions>>
      /\ \A u \in Threads \ {t} : call'[u] = call[u]
  BY <1>1, BeginMeans
<1> QED BY <1>2, <1>3 DEF Starts

LEMMA CallsStart ==
    ASSUME CallsShaped, NEW t \in Threads,
           AuthorizeSubcall(t) \/ Authorize(t) \/ DeriveForSubcall(t)
    PROVE  \E todo, n : Started(todo, n) /\ Starts(t, todo, n)
<1>1. CASE AuthorizeSubcall(t)
  <2>1. PICK host \in Hosts, parent \in Offered, child \in Offered :
            Begin(t, [host |-> host, op |-> "authorize_subcall",
                      gcos |-> <<parent, child>>, todo |-> SubcallProgram])
    BY <1>1 DEF AuthorizeSubcall
  <2> DEFINE c == [host |-> host, op |-> "authorize_subcall",
                   gcos |-> <<parent, child>>, todo |-> SubcallProgram]
  <2>2. /\ DOMAIN c = {"host", "op", "gcos", "todo"} /\ c.todo = SubcallProgram
        /\ Len(c.gcos) = 2 /\ DOMAIN c.gcos = 1 .. 2 /\ Begin(t, c)
    BY <2>1
  <2> HIDE DEF c
  <2>3. Starts(t, c.todo, 2)
    BY <2>2, BeginStarts
  <2> QED BY <2>2, <2>3 DEF Started
<1>2. CASE Authorize(t)
  <2>1. PICK host \in Hosts, g \in Offered, ask \in Asks :
            Begin(t, [host |-> host, op |-> "authorize", ask |-> ask,
                      gcos |-> <<g>>, todo |-> AuthorizeProgram(1)])
    BY <1>2 DEF Authorize
  <2> DEFINE c == [host |-> host, op |-> "authorize", ask |-> ask,
                   gcos |-> <<g>>, todo |-> AuthorizeProgram(1)]
  <2>2. /\ DOMAIN c = {"host", "op", "ask", "gcos", "todo"}
        /\ c.todo = AuthorizeProgram(1)
        /\ Len(c.gcos) = 1 /\ DOMAIN c.gcos = 1 .. 1 /\ Begin(t, c)
    BY <2>1
  <2> HIDE DEF c
  <2>3. Starts(t, c.todo, 1)
    BY <2>2, BeginStarts
  <2> QED BY <2>2, <2>3 DEF Started
<1>3. CASE DeriveForSubcall(t)
  <2>1. PICK host \in Hosts, parent \in Offered, request \in Requests :
            Begin(t, [host |-> host, op |-> "derive_for_subcall",
                      request |-> request, gcos |-> <<parent>>,
                      todo |-> DeriveProgram("issue")])
    BY <1>3 DEF DeriveForSubcall
  <2> DEFINE c == [host |-> host, op |-> "derive_for_subcall",
                   request |-> request, gcos |-> <<parent>>,
                   todo |-> DeriveProgram("issue")]
  <2>2. /\ DOMAIN c = {"host", "op", "request", "gcos", "todo"}
        /\ c.todo = DeriveProgram("issue")
        /\ Len(c.gcos) = 1 /\ DOMAIN c.gcos = 1 .. 1 /\ Begin(t, c)
    BY <2>1
  <2> HIDE DEF c
  <2>3. Starts(t, c.todo, 1)
    BY <2>2, BeginStarts
  <2> QED BY <2>2, <2>3 DEF Started
<1> QED BY <1>1, <1>2, <1>3

\* The programs are guarded, and look at each of the GCOs they start with.
LEMMA ProgramsStaged ==
    ASSUME NEW c, NEW todo, NEW n, Started(todo, n), c.todo = todo, Len(c.gcos) = n
    PROVE  Staged(c) /\ \A k \in 1 .. n : <<"check", k>> \in Range(todo)
<1>1. CASE todo = AuthorizeProgram(1) /\ n = 1
  <2> DEFINE p == AuthorizeProgram(1)
  <2>1. /\ DOMAIN p = 1 .. 4 /\ Len(p) = 4
        /\ p[1] = <<"sample", 1>> /\ p[2] = <<"check", 1>>
        /\ p[3] = <<"expiry", 1>> /\ p[4] = <<"decide", 1>>
    BY DEF AuthorizeProgram
  <2> HIDE DEF p
  <2>2. \A i \in DOMAIN p : /\ p[i][2] = 1 /\ p[i] # Prints /\ p[i] # Validates
                            /\ p[i] # Derives /\ (p[i] = Expires <=> i = 3)
    BY <2>1 DEF Prints, Validates, Derives, Expires
  <2>3. \A j \in DOMAIN p : j > 3 => p[j] # Check1
    BY <2>1 DEF Check1
  <2>4. Guarded(p)
    BY <2>2, <2>3 DEF Guarded
  <2>5. Expires \in Range(p) /\ Derives \notin Range(p)
    BY <2>1, <2>2 DEF Range
  <2>6. <<"check", 1>> \in Range(p)
    BY <2>1 DEF Range
  <2> QED BY <1>1, <2>2, <2>4, <2>5, <2>6 DEF Staged, p
<1>2. CASE todo = SubcallProgram /\ n = 2
  <2> DEFINE p == SubcallProgram
  <2>1. /\ DOMAIN p = 1 .. 5 /\ Len(p) = 5
        /\ p[1] = <<"sample", 1>> /\ p[2] = <<"check", 1>> /\ p[3] = <<"sample", 2>>
        /\ p[4] = <<"check", 2>> /\ p[5] = <<"validate", 2>>
    BY DEF SubcallProgram
  <2> HIDE DEF p
  <2>2. \A i \in DOMAIN p : /\ p[i][2] \in 1 .. 2 /\ p[i] # Prints /\ p[i] # Expires
                            /\ p[i] # Derives /\ (p[i] = Validates <=> i = 5)
    BY <2>1 DEF Prints, Validates, Derives, Expires
  <2>3. Guarded(p)
    BY <2>1, <2>2 DEF Guarded
  <2>4. /\ Validates \in Range(p) /\ <<"check", 1>> \in Range(p)
        /\ <<"check", 2>> \in Range(p)
    BY <2>1 DEF Range, Validates
  <2> QED BY <1>2, <2>2, <2>3, <2>4 DEF Staged, p
<1>3. CASE todo = DeriveProgram("issue") /\ n = 1
  <2> DEFINE p == DeriveProgram("issue")
  <2>1. /\ DOMAIN p = 1 .. 8 /\ Len(p) = 8
        /\ p[1] = <<"sample", 1>> /\ p[2] = <<"check", 1>> /\ p[3] = <<"request", 1>>
        /\ p[4] = <<"issue", 1>> /\ p[5] = <<"validate", 2>>
        /\ p[6] = <<"sample", 2>> /\ p[7] = <<"check", 2>> /\ p[8] = <<"validate", 2>>
    BY DEF DeriveProgram
  <2> HIDE DEF p
  <2>2. \A i \in DOMAIN p : /\ p[i][2] \in 1 .. 2 /\ p[i] # Prints /\ p[i] # Expires
                            /\ p[i] = Derives <=> i = 3
                            /\ p[i] = Validates <=> i \in {5, 8}
                            /\ p[i][2] = 2 => i > 3
    BY <2>1 DEF Prints, Validates, Derives, Expires
  <2>3. Guarded(p)
    BY <2>1, <2>2 DEF Guarded
  <2>4. Validates \in Range(p) /\ <<"check", 1>> \in Range(p)
    BY <2>1 DEF Range, Validates
  <2>5. \A i \in DOMAIN p : p[i][2] > 1 => \E j \in DOMAIN p : j < i /\ p[j] = Derives
    BY <2>1, <2>2
  <2> QED BY <1>3, <2>3, <2>4, <2>5 DEF Staged, p
<1> QED BY <1>1, <1>2, <1>3 DEF Started

-----------------------------------------------------------------------------
(* Types, and nothing expired *)

StagedInv ==
    /\ \A t \in Threads : call[t].todo # <<>> => Staged(call[t])
    /\ \A i \in DOMAIN decisions : \A g \in Range(decisions[i].gcos) :
           decisions[i].began < g.expires_at
    /\ begun \in 0 .. MaxCalls
    /\ DOMAIN entries = Hosts /\ \A h \in Hosts : Remembers(entries[h])

\* A stage works on one of n GCOs, or on the one that a derivation adds.
Places(todo, n) ==
    \A i \in DOMAIN todo :
        /\ todo[i][2] \in 0 .. 2
        /\ todo[i][2] > n => \E j \in DOMAIN todo : j < i /\ todo[j] = Derives

(***************************************************************************)
(* The part of it that holds of the programs of Boundaries as well: what   *)
(* the stages work on is there, a host with a cache prints no preview, and *)
(* the caches are maps that keep their bound.                              *)
(***************************************************************************)
HeldInv ==
    /\ \A t \in Threads : call[t].todo # <<>> =>
           /\ Places(call[t].todo, Len(call[t].gcos))
           /\ call[t].host \in Protected => Prints \notin Range(call[t].todo)
    /\ begun \in 0 .. MaxCalls
    /\ DOMAIN entries = Hosts /\ \A h \in Hosts : Remembers(entries[h])

LEMMA StagedHeld == StagedInv => HeldInv
BY DEF StagedInv, HeldInv, Staged, Guarded, Places, Range

LEMMA HeadPlaced ==
    ASSUME NEW todo, NEW n \in Nat, Listed(todo), todo # <<>>, Places(todo, n)
    PROVE  Head(todo)[2] \in 0 .. 2 /\ Head(todo)[2] <= n
<1>1. 1 \in DOMAIN todo /\ Head(todo) = todo[1] /\ DOMAIN todo = 1 .. Len(todo)
  BY TailFacts
<1>2. ~ \E j \in DOMAIN todo : j < 1
  BY <1>1
<1>3. todo[1][2] \in 0 .. 2 /\ ~ (todo[1][2] > n)
  BY <1>1, <1>2 DEF Places
<1> QED BY <1>1, <1>3

\* The i-th GCO is there when it is checked.
LEMMA CheckPlaced ==
    ASSUME FlowInv, HeldInv, NEW t \in Threads, NEW i \in 1 .. 2,
           CheckAttestation(t, i)
    PROVE  i \in DOMAIN call[t].gcos
<1>1. call[t].todo # <<>> /\ Head(call[t].todo)[2] = i
  BY DEF CheckAttestation, At
<1>2. /\ Places(call[t].todo, Len(call[t].gcos)) /\ Listed(call[t].todo)
      /\ DOMAIN call[t].gcos = 1 .. Len(call[t].gcos) /\ Len(call[t].gcos) \in Nat
  BY <1>1 DEF HeldInv, FlowInv, Flow, Legal
<1>3. Head(call[t].todo)[2] <= Len(call[t].gcos)
  BY <1>1, <1>2, HeadPlaced
<1> QED BY <1>1, <1>2, <1>3

LEMMA StagedStage ==
    ASSUME FlowInv, StagedInv, NEW t \in Threads, Stage(t)
    PROVE  StagedInv'
<1>1. PICK c : c = call[t]
  OBVIOUS
<1>2. PICK e : e = call'[t]
  OBVIOUS
<1>3. Moves(t) /\ clock \in Nat
  BY StageMoves, RuntimeBounds DEF FlowInv
<1>4. /\ c.todo # <<>> /\ Flow(c, clock) /\ Staged(c) /\ Listed(c.todo)
      /\ clock' = clock /\ begun' = begun
      /\ \A u \in Threads \ {t} : call'[u] = call[u]
  BY <1>1, <1>3 DEF Moves, FlowInv, StagedInv, Flow, Legal
<1>5. \/ Ends(t)
      \/ /\ Goes(t, c.gcos) \/ Allows(t, c.gcos)
         /\ Head(c.todo) # Derives
         /\ Head(c.todo) = Expires => c.gcos[1].expires_at > clock
         /\ Head(c.todo) = Validates =>
                ValidateFault(c.gcos[1], c.gcos[2], clock) = "OK"
      \/ /\ Head(c.todo) = Derives \/ Head(c.todo)[1] \in Attests
         /\ \E child : Goes(t, <<c.gcos[1], child>>)
  BY <1>1, <1>3 DEF Moves, Finds
<1>6. /\ e.todo # <<>> => Staged(e)
      /\ \/ decisions' = decisions
         \/ /\ Allows(t, c.gcos)
            /\ \A g \in Range(c.gcos) : c.began < g.expires_at
  <2>1. CASE Ends(t)
    BY <1>2, <2>1 DEF Ends
  <2>2. CASE /\ Allows(t, c.gcos)
             /\ Head(c.todo) = Expires => c.gcos[1].expires_at > clock
             /\ Head(c.todo) = Validates =>
                    ValidateFault(c.gcos[1], c.gcos[2], clock) = "OK"
    <3>1. e.todo = <<>> /\ Tail(c.todo) = <<>>
      BY <1>1, <1>2, <2>2 DEF Allows
    <3>2. \A g \in Range(c.gcos) : c.began < g.expires_at
      BY <1>3, <1>4, <2>2, <3>1, StagedAllows
    <3> QED BY <2>2, <3>1, <3>2
  <2>3. CASE /\ Goes(t, c.gcos) /\ Head(c.todo) # Derives
             /\ Head(c.todo) = Expires => c.gcos[1].expires_at > clock
    <3>1. /\ Tail(c.todo) # <<>> /\ e.todo = Tail(c.todo)
          /\ e.began = c.began /\ e.gcos = c.gcos /\ decisions' = decisions
      BY <1>1, <1>2, <2>3 DEF Goes
    <3>2. Head(c.todo) = Expires => c.began < c.gcos[1].expires_at
      BY <1>3, <1>4, <2>3, ExpiryLives
    <3>3. Staged(e)
      BY <1>4, <2>3, <3>1, <3>2, StagedPasses
    <3> QED BY <3>1, <3>3
  <2>4. ASSUME Head(c.todo) = Derives \/ Head(c.todo)[1] \in Attests,
               NEW child, Goes(t, <<c.gcos[1], child>>)
        PROVE  Staged(e) /\ decisions' = decisions
    <3>1. /\ Tail(c.todo) # <<>> /\ e.todo = Tail(c.todo)
          /\ e.began = c.began /\ Len(e.gcos) = 2 /\ decisions' = decisions
      BY <1>1, <1>2, <2>4 DEF Goes
    <3>2. Head(c.todo)[1] \in Attests => Len(c.gcos) = 2
      BY <1>4 DEF Flow
    <3>3. Staged(e)
      BY <1>4, <2>4, <3>1, <3>2, StagedPasses
    <3> QED BY <3>1, <3>3
  <2> QED BY <1>5, <2>1, <2>2, <2>3, <2>4
<1>7. \A u \in Threads : call'[u].todo # <<>> => Staged(call'[u])
  BY <1>2, <1>4, <1>6 DEF StagedInv
<1>8. \A k \in DOMAIN decisions' : \A g \in Range(decisions'[k].gcos) :
          decisions'[k].began < g.expires_at
  <2>1. CASE decisions' = decisions
    BY <2>1 DEF StagedInv
  <2>2. CASE /\ Allows(t, c.gcos)
             /\ \A g \in Range(c.gcos) : c.began < g.expires_at
    <3>1. PICK d : /\ decisions' = Append(decisions, d)
                   /\ d.gcos = c.gcos /\ d.began = c.began
      BY <1>1, <2>2 DEF Allows
    <3>2. \A k \in DOMAIN Append(decisions, d) :
              \/ k \in DOMAIN decisions /\ Append(decisions, d)[k] = decisions[k]
              \/ Append(decisions, d)[k] = d
      BY AppendMembers DEF FlowInv
    <3> QED BY <2>2, <3>1, <3>2 DEF StagedInv
  <2> QED BY <1>6, <2>1, <2>2
<1>9. DOMAIN entries' = Hosts /\ \A h \in Hosts : Remembers(entries'[h])
  <2>1. CASE \E i \in 1 .. 2 : Head(c.todo) = <<"check", i>>
    <3>1. PICK i \in 1 .. 2 : CheckAttestation(t, i)
      BY <1>1, <1>3, <2>1 DEF Moves
    <3>2. i \in DOMAIN call[t].gcos
      BY <3>1, StagedHeld, CheckPlaced
    <3> QED BY <3>1, <3>2, CheckCaches DEF StagedInv
  <2>2. CASE \A i \in 1 .. 2 : Head(c.todo) # <<"check", i>>
    BY <1>1, <1>3, <2>2 DEF Moves, StagedInv
  <2> QED BY <2>1, <2>2
<1>10. begun' \in 0 .. MaxCalls
  BY <1>4 DEF StagedInv
<1> QED BY <1>7, <1>8, <1>9, <1>10 DEF StagedInv

LEMMA StagedBegins ==
    ASSUME FlowInv, StagedInv, NEW t \in Threads,
           AuthorizeSubcall(t) \/ Authorize(t) \/ DeriveForSubcall(t)
    PROVE  StagedInv'
<1>1. PICK todo, n : Started(todo, n) /\ Starts(t, todo, n)
  BY CallsStart DEF FlowInv
<1>2. Staged(call'[t])
  <2>1. PICK e : e = call'[t]
    OBVIOUS
  <2>2. e.todo = todo /\ Len(e.gcos) = n
    BY <1>1, <2>1 DEF Starts
  <2> QED BY <1>1, <2>1, <2>2, ProgramsStaged
<1>3. /\ begun < MaxCalls /\ begun' = begun + 1 /\ entries' = entries
      /\ decisions' = decisions
      /\ \A u \in Threads \ {t} : call'[u] = call[u]
  BY <1>1 DEF Starts
<1>4. begun' \in 0 .. MaxCalls
  BY <1>3, RuntimeBounds DEF StagedInv
<1>5. \A u \in Threads : call'[u].todo # <<>> => Staged(call'[u])
  BY <1>2, <1>3 DEF StagedInv
<1>6. DOMAIN entries' = Hosts /\ \A h \in Hosts : Remembers(entries'[h])
  BY <1>3 DEF StagedInv
<1>7. \A i \in DOMAIN decisions' : \A g \in Range(decisions'[i].gcos) :
          decisions'[i].began < g.expires_at
  BY <1>3 DEF StagedInv
<1> QED BY <1>4, <1>5, <1>6, <1>7 DEF StagedInv

LEMMA EmptyCache == Remembers(<<>>)
<1>1. DOMAIN <<>> = {} /\ <<>> \in [{} -> Int]
  OBVIOUS
<1>2. IsFiniteSet({}) /\ Cardinality({}) = 0
  BY FS_EmptySet
<1> QED BY <1>1, <1>2, RuntimeBounds DEF Remembers

LEMMA StagedInit == Init => StagedInv
<1> SUFFICES ASSUME Init PROVE StagedInv
  OBVIOUS
<1>1. \A t \in Threads : call[t].todo = <<>>
  BY DEF Init, Idle
<1>2. DOMAIN entries = Hosts /\ \A h \in Hosts : Remembers(entries[h])
  BY EmptyCache DEF Init
<1>3. DOMAIN decisions = {} /\ begun \in 0 .. MaxCalls
  BY RuntimeBounds DEF Init
<1> QED BY <1>1, <1>2, <1>3 DEF StagedInv

LEMMA StagedStep == FlowInv /\ StagedInv /\ [Next]_vars => StagedInv'
<1> SUFFICES ASSUME FlowInv, StagedInv, [Next]_vars PROVE StagedInv'
  OBVIOUS
<1>1. CASE Tick \/ UNCHANGED vars
  <2>1. UNCHANGED <<entries, call, decisions, begun>>
    BY <1>1 DEF Tick, vars, history
  <2>2. \A t \in Threads : call'[t].todo # <<>> => Staged(call'[t])
    BY <2>1 DEF StagedInv
  <2>3. DOMAIN entries' = Hosts /\ \A h \in Hosts : Remembers(entries'[h])
    BY <2>1 DEF StagedInv
  <2>4. /\ begun' \in 0 .. MaxCalls
        /\ \A i \in DOMAIN decisions' : \A g \in Range(decisions'[i].gcos) :
               decisions'[i].began < g.expires_at
    BY <2>1 DEF StagedInv
  <2> QED BY <2>2, <2>3, <2>4 DEF StagedInv
<1> QED BY <1>1, StagedStage, StagedBegins DEF Next

LEMMA HeldTypes == FlowInv /\ HeldInv => TypeOK
<1> SUFFICES ASSUME FlowInv, HeldInv PROVE TypeOK
  OBVIOUS
<1>1. ASSUME NEW t \in Threads, call[t].todo # <<>>
      PROVE  /\ call[t].host \in Hosts
             /\ call[t].began \in 0 .. clock /\ call[t].now \in 0 .. clock
             /\ Head(call[t].todo)[2] <= Len(call[t].gcos)
  <2>1. /\ Flow(call[t], clock) /\ Listed(call[t].todo)
        /\ Places(call[t].todo, Len(call[t].gcos)) /\ Len(call[t].gcos) \in Nat
    BY <1>1 DEF FlowInv, HeldInv, Flow, Legal
  <2>2. Head(call[t].todo)[2] <= Len(call[t].gcos)
    BY <1>1, <2>1, HeadPlaced
  <2> QED BY <2>1, <2>2 DEF Flow
<1>2. ASSUME NEW i \in DOMAIN decisions
      PROVE  /\ decisions[i].began <= decisions[i].at
             /\ MALFORMED \notin Range(decisions[i].gcos)
  <2>1. Settled(decisions[i], clock) /\ clock \in Nat
    BY <1>2, RuntimeBounds DEF FlowInv
  <2> QED BY <2>1 DEF Settled, Verified
<1>3. clock \in 0 .. MaxClock /\ begun \in 0 .. MaxCalls /\ DOMAIN call = Threads
  BY DEF FlowInv, HeldInv, CallsShaped
<1>4. \A h \in Hosts : Cardinality(DOMAIN entries[h]) <= MaxEntries
  BY DEF HeldInv, Remembers
<1> QED BY <1>1, <1>2, <1>3, <1>4 DEF TypeOK

(***************************************************************************)
(* Type correctness: a call's clock readings are past ones, each stage     *)
(* finds the GCO it works on, decisions rest on well-formed GCOs, and no   *)
(* cache outgrows max_entries.                                             *)
(***************************************************************************)
THEOREM RuntimeTypes == Spec => []TypeOK
<1> QED BY InitFlow, StepFlow, StagedInit, StagedStep, StagedHeld, HeldTypes, PTL
        DEF Spec

(***************************************************************************)
(* No allowed decision rests on a GCO or an attestation that had expired   *)
(* when the host called.                                                   *)
(***************************************************************************)
THEOREM NothingExpiredIsAllowed == Spec => []NothingExpiredAllowed
<1>1. FlowInv /\ StagedInv => NothingExpiredAllowed
  <2> SUFFICES ASSUME FlowInv, StagedInv,
                      NEW i \in DOMAIN decisions, NEW g \in Range(decisions[i].gcos)
               PROVE  decisions[i].began < g.expires_at /\ decisions[i].began < Claims(g).exp
    BY DEF NothingExpiredAllowed
  <2>1. PICK d : d = decisions[i]
    OBVIOUS
  <2>2. Settled(d, clock) /\ g \in Range(d.gcos) /\ clock \in Nat
    BY <2>1, RuntimeBounds DEF FlowInv
  <2>3. /\ d.began \in 0 .. d.at /\ d.at \in 0 .. clock
        /\ Sound(g) /\ Verified(g, d.began, d.at)
    BY <2>2 DEF Settled
  <2>4. PICK now \in d.began .. d.at : Passes(g, now)
    BY <2>3 DEF Verified
  <2>5. /\ g.attestation # NONE /\ g.attestation.value # NONE
        /\ Claims(g).exp \notin {NONE, BAD} /\ Claims(g).exp > now
    BY <2>4, VerifiedFresh DEF Passes, Claims
  <2>6. Claims(g).exp \in Int
    BY <2>3, <2>5 DEF Verified, Sound, IsAttested, IsAttestation, IsDate, Claims
  <2>7. d.began < Claims(g).exp
    BY <2>3, <2>4, <2>5, <2>6
  <2> QED BY <2>1, <2>7 DEF StagedInv
<1> QED BY InitFlow, StepFlow, StagedInit, StagedStep, <1>1, PTL DEF Spec

-----------------------------------------------------------------------------
(* One decision per attestation *)

\* What a call at a host with a cache has had checked, and what an allowed
\* decision of such a host rests on.
Checked(c) ==
    {c.gcos[k] : k \in {l \in DOMAIN c.gcos :
        /\ c.todo # <<>> /\ c.host \in Protected
        /\ <<"check", l>> \notin Range(c.todo)}}

Backing(d) == {g \in Range(d.gcos) : d.host \in Protected}

(***************************************************************************)
(* What was checked is remembered or has expired; so only what has expired *)
(* is held twice.                                                          *)
(***************************************************************************)
Once(calls, caches, made, time) ==
    /\ \A t \in Threads : \A g \in Checked(calls[t]) :
           Spent(caches[calls[t].host], g, time)
    /\ \A i \in DOMAIN made : \A g \in Backing(made[i]) :
           Spent(caches[made[i].host], g, time)
    /\ \A t, u \in Threads : t # u /\ calls[t].host = calls[u].host =>
           \A g \in Checked(calls[t]) \cap Checked(calls[u]) : Claims(g).exp <= time
    /\ \A t \in Threads : \A i \in DOMAIN made : calls[t].host = made[i].host =>
           \A g \in Checked(calls[t]) \cap Backing(made[i]) : Claims(g).exp <= time
    /\ \A i, j \in DOMAIN made : i # j /\ made[i].host = made[j].host =>
           \A g \in Backing(made[i]) \cap Backing(made[j]) :
               Claims(g).exp <= made[i].at \/ Claims(g).exp <= made[j].at

OnceInv == Once(call, entries, decisions, clock)

\* A call has what it had checked, and what its stage checks.
LEMMA CheckedPasses ==
    ASSUME NEW time, NEW c, NEW e, Flow(c, time), c.todo # <<>>,
           e.todo = Tail(c.todo), e.host = c.host,
           c.host \in Protected => Prints \notin Range(c.todo),
           \/ e.gcos = c.gcos
           \/ /\ Head(c.todo) = Derives \/ Head(c.todo)[1] \in Attests
              /\ \E child : e.gcos = <<c.gcos[1], child>>
    PROVE  \A g \in Checked(e) :
               \/ g \in Checked(c)
               \/ \E k \in DOMAIN c.gcos : Head(c.todo) = <<"check", k>> /\ g = c.gcos[k]
<1> DEFINE p == c.todo
           q == Tail(p)
<1>1. /\ Legal(p) /\ Listed(p) /\ DOMAIN c.gcos = 1 .. Len(c.gcos)
      /\ Range(q) \subseteq Range(p) /\ \A s \in Range(p) : s = Head(p) \/ s \in Range(q)
  <2>1. Legal(p) /\ Listed(p) /\ DOMAIN c.gcos = 1 .. Len(c.gcos)
    BY DEF Flow, Legal
  <2> QED BY <2>1, RangeOfTail
<1> HIDE DEF q
<1>2. SUFFICES ASSUME NEW k \in DOMAIN e.gcos, q # <<>>, e.host \in Protected,
                      <<"check", k>> \notin Range(q)
               PROVE  \/ e.gcos[k] \in Checked(c)
                      \/ \E l \in DOMAIN c.gcos :
                             Head(p) = <<"check", l>> /\ e.gcos[k] = c.gcos[l]
  BY DEF Checked, q
<1>3. CASE e.gcos = c.gcos
  <2>1. CASE <<"check", k>> \in Range(p)
    BY <1>1, <1>2, <1>3, <2>1
  <2>2. CASE <<"check", k>> \notin Range(p)
    BY <1>2, <1>3, <2>2 DEF Checked
  <2> QED BY <2>1, <2>2
<1>4. ASSUME Head(p) = Derives \/ Head(p)[1] \in Attests,
             NEW child, e.gcos = <<c.gcos[1], child>>
      PROVE  e.gcos[k] \in Checked(c)
  <2>1. Check2 \in Range(q)
    <3>1. Prints \notin Range(q)
      BY <1>1, <1>2
    <3>2. CASE Head(p) = Derives
      BY <1>1, <3>1, <3>2, AfterDerives DEF q
    <3>3. CASE Head(p)[1] \in Attests
      BY <1>1, <3>1, <3>3, AfterAttests DEF q
    <3> QED BY <1>4, <3>2, <3>3
  <2>2. k = 1 /\ e.gcos[k] = c.gcos[1]
    BY <1>2, <1>4, <2>1 DEF Check2
  <2>3. Head(p) # <<"check", 1>>
    BY <1>4 DEF Derives, Attests
  <2>4. <<"check", 1>> \notin Range(p)
    BY <1>1, <1>2, <2>2, <2>3
  <2>5. 1 \in DOMAIN c.gcos
    <3>1. Len(c.gcos) \in {1, 2}
      <4>1. Head(p) \in Range(p)
        BY <1>1, RangeOfTail
      <4> QED BY <1>4, <4>1 DEF Flow
    <3> QED BY <1>1, <3>1
  <2> QED BY <1>2, <2>2, <2>4, <2>5 DEF Checked
<1> QED BY <1>3, <1>4

\* An allowed decision rests on what its call had checked.
LEMMA CheckedDecides ==
    ASSUME NEW time, NEW c, NEW d, Flow(c, time), c.todo # <<>>, Tail(c.todo) = <<>>,
           d.gcos = c.gcos, d.host = c.host
    PROVE  \A g \in Backing(d) :
               \/ g \in Checked(c)
               \/ \E k \in DOMAIN c.gcos : Head(c.todo) = <<"check", k>> /\ g = c.gcos[k]
<1>1. \A s \in Range(c.todo) : s = Head(c.todo)
  <2>1. Range(<<>>) = {} /\ Listed(c.todo)
    BY DEF Range, Flow, Legal
  <2> QED BY <2>1, RangeOfTail
<1> SUFFICES ASSUME NEW k \in DOMAIN c.gcos, c.host \in Protected
             PROVE  \/ c.gcos[k] \in Checked(c)
                    \/ \E l \in DOMAIN c.gcos :
                           Head(c.todo) = <<"check", l>> /\ c.gcos[k] = c.gcos[l]
  BY DEF Backing, Range
<1> QED BY <1>1 DEF Checked

LEMMA OnceLater ==
    ASSUME NEW calls, NEW caches, NEW made, NEW time \in Int, NEW later \in Int,
           time <= later, Once(calls, caches, made, time)
    PROVE  Once(calls, caches, made, later)
<1>1. \A e, g : Spent(e, g, time) => Spent(e, g, later)
  BY DEF Spent
<1>2. \A e, g : Spent(e, g, time) /\ Claims(g).exp <= time => Claims(g).exp <= later
  BY DEF Spent
<1>3. /\ \A t \in Threads : \A g \in Checked(calls[t]) :
             Spent(caches[calls[t].host], g, later)
      /\ \A i \in DOMAIN made : \A g \in Backing(made[i]) :
             Spent(caches[made[i].host], g, later)
  BY <1>1 DEF Once
<1>4. \A t, u \in Threads : t # u /\ calls[t].host = calls[u].host =>
          \A g \in Checked(calls[t]) \cap Checked(calls[u]) : Claims(g).exp <= later
  BY <1>2 DEF Once
<1>5. \A t \in Threads : \A i \in DOMAIN made : calls[t].host = made[i].host =>
          \A g \in Checked(calls[t]) \cap Backing(made[i]) : Claims(g).exp <= later
  BY <1>2 DEF Once
<1> QED BY <1>3, <1>4, <1>5 DEF Once

(***************************************************************************)
(* A step of thread t from c to e, in which it checks the members of new:  *)
(* the cache had not remembered them, unless they have expired.            *)
(***************************************************************************)
ChecksOnce(calls, caches, made, calls2, caches2, made2, time, t, c, e, new) ==
    /\ c = calls[t] /\ e = calls2[t]
    /\ \A u \in Threads \ {t} : calls2[u] = calls[u]
    /\ \A h \in Protected : \A x : Spent(caches[h], x, time) => Spent(caches2[h], x, time)
    /\ \A g \in new : /\ Spent(caches2[c.host], g, time)
                      /\ Spent(caches[c.host], g, time) => Claims(g).exp <= time
    /\ Checked(e) \subseteq Checked(c) \cup new
    /\ Checked(e) # {} => e.host = c.host
    /\ \/ made2 = made
       \/ /\ Checked(e) = {}
          /\ \E d : /\ made2 = Append(made, d) /\ d.host = c.host /\ d.at = time
                    /\ Backing(d) \subseteq Checked(c) \cup new

LEMMA OnceStep ==
    ASSUME NEW calls, NEW calls2, NEW caches, NEW caches2, NEW made, NEW made2,
           NEW time, NEW t \in Threads, NEW c, NEW e, NEW new,
           Once(calls, caches, made, time), Listed(made),
           ChecksOnce(calls, caches, made, calls2, caches2, made2, time, t, c, e, new)
    PROVE  Once(calls2, caches2, made2, time)
<1> USE DEF ChecksOnce
<1>1. \A x : (\A g \in Checked(x) : x.host \in Protected)
  BY DEF Checked
<1>2. \A x : (\A g \in Backing(x) : x.host \in Protected)
  BY DEF Backing
\* Whatever a call or a decision holds is spent, before and after.
<1>3. /\ \A u \in Threads : \A g \in Checked(calls[u]) :
             /\ Spent(caches[calls[u].host], g, time)
             /\ Spent(caches2[calls[u].host], g, time)
      /\ \A i \in DOMAIN made : \A g \in Backing(made[i]) :
             /\ Spent(caches[made[i].host], g, time)
             /\ Spent(caches2[made[i].host], g, time)
  BY <1>1, <1>2 DEF Once
<1>4. \A g \in Checked(c) \cup new : Spent(caches2[c.host], g, time)
  BY <1>3
\* Nobody else holds what t holds.
<1>5. \A g \in Checked(c) \cup new :
          /\ \A u \in Threads \ {t} :
                 calls[u].host = c.host /\ g \in Checked(calls[u]) => Claims(g).exp <= time
          /\ \A i \in DOMAIN made :
                 made[i].host = c.host /\ g \in Backing(made[i]) => Claims(g).exp <= time
  <2> TAKE g \in Checked(c) \cup new
  <2>1. CASE g \in Checked(c)
    BY <2>1 DEF Once
  <2>2. CASE g \in new
    BY <1>3, <2>2
  <2> QED BY <2>1, <2>2
<1>6. \A u \in Threads : \A g \in Checked(calls2[u]) :
          Spent(caches2[calls2[u].host], g, time)
  <2> TAKE u \in Threads
  <2>1. CASE u = t
    BY <1>4, <2>1
  <2>2. CASE u # t
    BY <1>3, <2>2
  <2> QED BY <2>1, <2>2
<1>7. \A u, v \in Threads : u # v /\ calls2[u].host = calls2[v].host =>
          \A g \in Checked(calls2[u]) \cap Checked(calls2[v]) : Claims(g).exp <= time
  <2> SUFFICES ASSUME NEW u \in Threads, NEW v \in Threads, u # v,
                      calls2[u].host = calls2[v].host,
                      NEW g, g \in Checked(calls2[u]), g \in Checked(calls2[v])
               PROVE  Claims(g).exp <= time
    OBVIOUS
  <2>1. CASE u = t
    BY <1>5, <2>1
  <2>2. CASE v = t
    BY <1>5, <2>2
  <2>3. CASE u # t /\ v # t
    BY <2>3 DEF Once
  <2> QED BY <2>1, <2>2, <2>3
<1>8. \A u \in Threads : \A i \in DOMAIN made : calls2[u].host = made[i].host =>
          \A g \in Checked(calls2[u]) \cap Backing(made[i]) : Claims(g).exp <= time
  <2> TAKE u \in Threads
  <2>1. CASE u = t
    BY <1>5, <2>1
  <2>2. CASE u # t
    BY <2>2 DEF Once
  <2> QED BY <2>1, <2>2
<1>9. CASE made2 = made
  BY <1>3, <1>6, <1>7, <1>8, <1>9 DEF Once
<1>10. ASSUME NEW d, Checked(e) = {}, made2 = Append(made, d), d.host = c.host,
              d.at = time, Backing(d) \subseteq Checked(c) \cup new
       PROVE  Once(calls2, caches2, made2, time)
  <2>1. \A i \in DOMAIN made2 : \/ i \in DOMAIN made /\ made2[i] = made[i]
                                \/ i = Len(made) + 1 /\ made2[i] = d
    BY <1>10, AppendMembers
  <2>2. \A i \in DOMAIN made2 : \A g \in Backing(made2[i]) :
            Spent(caches2[made2[i].host], g, time)
    BY <1>3, <1>4, <1>10, <2>1
  <2>3. \A u \in Threads : \A i \in DOMAIN made2 : calls2[u].host = made2[i].host =>
            \A g \in Checked(calls2[u]) \cap Backing(made2[i]) : Claims(g).exp <= time
    <3> TAKE u \in Threads
    <3> TAKE i \in DOMAIN made2
    <3>1. CASE i \in DOMAIN made /\ made2[i] = made[i]
      BY <1>8, <3>1
    <3>2. CASE made2[i] = d
      BY <1>5, <1>10, <3>2
    <3> QED BY <2>1, <3>1, <3>2
  <2>4. \A i, j \in DOMAIN made2 : i # j /\ made2[i].host = made2[j].host =>
            \A g \in Backing(made2[i]) \cap Backing(made2[j]) :
                Claims(g).exp <= made2[i].at \/ Claims(g).exp <= made2[j].at
    <3> SUFFICES ASSUME NEW i \in DOMAIN made2, NEW j \in DOMAIN made2, i # j,
                        made2[i].host = made2[j].host,
                        NEW g, g \in Backing(made2[i]), g \in Backing(made2[j])
                 PROVE  Claims(g).exp <= made2[i].at \/ Claims(g).exp <= made2[j].at
      OBVIOUS
    <3>1. CASE i \in DOMAIN made /\ j \in DOMAIN made /\ made2[i] = made[i]
               /\ made2[j] = made[j]
      BY <3>1 DEF Once
    <3>2. CASE i \in DOMAIN made /\ made2[i] = made[i] /\ made2[j] = d
      BY <1>5, <1>10, <3>2
    <3>3. CASE j \in DOMAIN made /\ made2[j] = made[j] /\ made2[i] = d
      BY <1>5, <1>10, <3>3
    <3> QED BY <2>1, <3>1, <3>2, <3>3
  <2> QED BY <1>6, <1>7, <2>2, <2>3, <2>4 DEF Once
<1> QED BY <1>9, <1>10

LEMMA OnceStage ==
    ASSUME FlowInv, HeldInv, OnceInv, NEW t \in Threads, Stage(t)
    PROVE  OnceInv'
<1>1. PICK c : c = call[t]
  OBVIOUS
<1>2. PICK e : e = call'[t]
  OBVIOUS
<1>3. Moves(t)
  BY StageMoves
<1>4. /\ c.todo # <<>> /\ Flow(c, clock) /\ Listed(decisions)
      /\ c.host \in Protected => Prints \notin Range(c.todo)
      /\ clock' = clock
      /\ \A u \in Threads \ {t} : call'[u] = call[u]
  <2>1. c.todo # <<>> /\ clock' = clock /\ \A u \in Threads \ {t} : call'[u] = call[u]
    BY <1>1, <1>3 DEF Moves
  <2> QED BY <1>1, <2>1 DEF FlowInv, HeldInv
<1>5. \/ Ends(t)
      \/ Goes(t, c.gcos) \/ Allows(t, c.gcos)
      \/ /\ Head(c.todo) = Derives \/ Head(c.todo)[1] \in Attests
         /\ \E child : Goes(t, <<c.gcos[1], child>>)
  BY <1>1, <1>3 DEF Moves
\* What the stage checks, if it does.
<1>6. PICK new :
          new = {g \in {c.gcos[k] : k \in DOMAIN c.gcos} :
                    /\ c.host \in Protected /\ ~Ends(t)
                    /\ \E k \in DOMAIN c.gcos :
                           Head(c.todo) = <<"check", k>> /\ g = c.gcos[k]}
  OBVIOUS
<1>7. /\ \A h \in Protected : \A x :
             Spent(entries[h], x, clock) => Spent(entries'[h], x, clock)
      /\ \A g \in new : /\ Spent(entries'[c.host], g, clock)
                        /\ Spent(entries[c.host], g, clock) => Claims(g).exp <= clock
  <2>1. CASE \E i \in 1 .. 2 : Head(c.todo) = <<"check", i>>
    <3>1. PICK i \in 1 .. 2 : Head(c.todo) = <<"check", i>> /\ CheckAttestation(t, i)
      BY <1>1, <1>3, <2>1 DEF Moves
    <3>2. i \in DOMAIN call[t].gcos
      BY <3>1, CheckPlaced
    <3>3. /\ \A h \in Hosts : \A x :
                 Spent(entries[h], x, clock) => Spent(entries'[h], x, clock)
          /\ c.host \in Protected =>
                 \/ Ends(t)
                 \/ /\ Spent(entries'[c.host], c.gcos[i], clock)
                    /\ Spent(entries[c.host], c.gcos[i], clock)
                           => Claims(c.gcos[i]).exp <= clock
      BY <1>1, <3>1, <3>2, CheckCaches DEF HeldInv
    <3>4. \A g \in new : g = c.gcos[i] /\ c.host \in Protected /\ ~Ends(t)
      BY <1>6, <3>1
    <3> QED BY <3>3, <3>4, RuntimeBounds
  <2>2. CASE \A i \in 1 .. 2 : Head(c.todo) # <<"check", i>>
    <3>1. entries' = entries
      BY <1>1, <1>3, <2>2 DEF Moves
    <3>2. PICK m \in 0 .. 2 : DOMAIN c.gcos = 1 .. m
      BY <1>4 DEF Flow
    <3>3. \A k \in DOMAIN c.gcos : k \in 1 .. 2
      BY <3>2
    <3>4. new = {}
      BY <1>6, <2>2, <3>3
    <3> QED BY <3>1, <3>4
  <2> QED BY <2>1, <2>2
<1>8. /\ Checked(e) \subseteq Checked(c) \cup new
      /\ Checked(e) # {} => e.host = c.host
      /\ \/ decisions' = decisions
         \/ /\ Checked(e) = {}
            /\ \E d : /\ decisions' = Append(decisions, d)
                      /\ d.host = c.host /\ d.at = clock
                      /\ Backing(d) \subseteq Checked(c) \cup new
  <2>1. e.todo = <<>> => Checked(e) = {}
    BY DEF Checked
  <2>2. CASE Ends(t)
    BY <1>2, <2>1, <2>2 DEF Ends
  <2>3. CASE Allows(t, c.gcos) /\ ~Ends(t)
    <3>1. PICK d : /\ decisions' = Append(decisions, d) /\ d.gcos = c.gcos
                   /\ d.host = c.host /\ d.at = clock
      BY <1>1, <2>3 DEF Allows
    <3>2. e.todo = <<>> /\ Tail(c.todo) = <<>>
      BY <1>1, <1>2, <2>3 DEF Allows
    <3>3. \A g \in Backing(d) :
              \/ g \in Checked(c)
              \/ \E k \in DOMAIN c.gcos : Head(c.todo) = <<"check", k>> /\ g = c.gcos[k]
      BY <1>4, <3>1, <3>2, CheckedDecides
    <3>4. \A g \in Backing(d) : c.host \in Protected
      BY <3>1 DEF Backing
    <3>5. Backing(d) \subseteq Checked(c) \cup new
      BY <1>6, <2>3, <3>3, <3>4
    <3> QED BY <2>1, <3>1, <3>2, <3>5
  <2>4. ASSUME NEW gcos, Goes(t, gcos), ~Ends(t),
               \/ gcos = c.gcos
               \/ /\ Head(c.todo) = Derives \/ Head(c.todo)[1] \in Attests
                  /\ \E child : gcos = <<c.gcos[1], child>>
        PROVE  /\ Checked(e) \subseteq Checked(c) \cup new
               /\ e.host = c.host /\ decisions' = decisions
    <3>1. /\ e.todo = Tail(c.todo) /\ e.gcos = gcos /\ e.host = c.host
          /\ decisions' = decisions
      BY <1>1, <1>2, <2>4 DEF Goes
    <3>2. \A g \in Checked(e) :
              \/ g \in Checked(c)
              \/ \E k \in DOMAIN c.gcos : Head(c.todo) = <<"check", k>> /\ g = c.gcos[k]
      BY <1>4, <2>4, <3>1, CheckedPasses
    <3>3. \A g \in Checked(e) : c.host \in Protected
      BY <3>1 DEF Checked
    <3> QED BY <1>6, <2>4, <3>1, <3>2, <3>3
  <2>5. CASE Goes(t, c.gcos) /\ ~Ends(t)
    BY <2>4, <2>5
  <2>6. CASE /\ Head(c.todo) = Derives \/ Head(c.todo)[1] \in Attests
             /\ \E child : Goes(t, <<c.gcos[1], child>>)
             /\ ~Ends(t)
    BY <2>4, <2>6
  <2> QED BY <1>5, <2>2, <2>3, <2>5, <2>6
<1>9. PICK calls, caches, made, calls2, caches2, made2 :
          /\ calls = call /\ caches = entries /\ made = decisions
          /\ calls2 = call' /\ caches2 = entries' /\ made2 = decisions'
  OBVIOUS
<1>10. Once(calls2, caches2, made2, clock)
  <2>1. Once(calls, caches, made, clock)
    BY <1>9 DEF OnceInv
  <2>2. /\ Listed(made) /\ c = calls[t] /\ e = calls2[t]
        /\ \A u \in Threads \ {t} : calls2[u] = calls[u]
    BY <1>1, <1>2, <1>4, <1>9
  <2>3. /\ \A h \in Protected : \A x :
               Spent(caches[h], x, clock) => Spent(caches2[h], x, clock)
        /\ \A g \in new : /\ Spent(caches2[c.host], g, clock)
                          /\ Spent(caches[c.host], g, clock) => Claims(g).exp <= clock
    BY <1>7, <1>9
  <2>4. /\ Checked(e) \subseteq Checked(c) \cup new
        /\ Checked(e) # {} => e.host = c.host
        /\ \/ made2 = made
           \/ /\ Checked(e) = {}
              /\ \E d : /\ made2 = Append(made, d)
                        /\ d.host = c.host /\ d.at = clock
                        /\ Backing(d) \subseteq Checked(c) \cup new
    BY <1>8, <1>9
  <2>5. ChecksOnce(calls, caches, made, calls2, caches2, made2, clock, t, c, e, new)
    BY <2>2, <2>3, <2>4 DEF ChecksOnce
  <2> QED BY <2>1, <2>2, <2>5, OnceStep
<1> QED BY <1>4, <1>9, <1>10 DEF OnceInv

LEMMA OnceBegins ==
    ASSUME FlowInv, OnceInv, NEW t \in Threads,
           AuthorizeSubcall(t) \/ Authorize(t) \/ DeriveForSubcall(t)
    PROVE  OnceInv'
<1>1. PICK todo, n : Started(todo, n) /\ Starts(t, todo, n)
  BY CallsStart DEF FlowInv
<1>2. PICK calls : calls = call'
  OBVIOUS
<1>3. PICK e : e = calls[t]
  OBVIOUS
<1>4. /\ e.todo = todo /\ Len(e.gcos) = n /\ DOMAIN e.gcos = 1 .. n
      /\ UNCHANGED <<clock, entries, decisions>>
      /\ \A u \in Threads \ {t} : calls[u] = call[u]
  BY <1>1, <1>2, <1>3 DEF Starts
<1>5. \A k \in 1 .. n : <<"check", k>> \in Range(todo)
  BY <1>1, <1>4, ProgramsStaged
<1>6. Checked(e) = {}
  BY <1>4, <1>5 DEF Checked
<1>7. Once(calls, entries, decisions, clock)
  <2>1. Once(call, entries, decisions, clock) /\ Listed(decisions)
    BY DEF OnceInv, FlowInv
  <2>2. PICK c, new : c = call[t] /\ new = {}
    OBVIOUS
  <2>3. ChecksOnce(call, entries, decisions, calls, entries, decisions, clock,
                   t, c, e, new)
    BY <1>3, <1>4, <1>6, <2>2 DEF ChecksOnce
  <2> QED BY <2>1, <2>3, OnceStep
<1> QED BY <1>2, <1>4, <1>7 DEF OnceInv

LEMMA OnceInit == Init => OnceInv
<1> SUFFICES ASSUME Init PROVE OnceInv
  OBVIOUS
<1>1. \A t \in Threads : Checked(call[t]) = {}
  BY DEF Init, Idle, Checked
<1>2. DOMAIN decisions = {}
  BY DEF Init
<1> QED BY <1>1, <1>2 DEF OnceInv, Once

LEMMA OnceNext == FlowInv /\ StagedInv /\ OnceInv /\ [Next]_vars => OnceInv'
<1> SUFFICES ASSUME FlowInv, StagedInv, OnceInv, [Next]_vars PROVE OnceInv'
  OBVIOUS
<1>1. CASE Tick
  <2>1. /\ clock \in Int /\ clock' \in Int /\ clock <= clock'
        /\ UNCHANGED <<entries, call, decisions>>
    BY <1>1, RuntimeBounds DEF Tick, history, FlowInv
  <2>2. Once(call, entries, decisions, clock')
    BY <2>1, OnceLater DEF OnceInv
  <2> QED BY <2>1, <2>2 DEF OnceInv
<1>2. CASE UNCHANGED vars
  BY <1>2 DEF vars, OnceInv
<1> QED BY <1>1, <1>2, StagedHeld, OnceStage, OnceBegins DEF Next

(***************************************************************************)
(* At a host with a replay cache an attestation backs one allowed decision *)
(* while it is live, whichever threads race and in whatever role it comes. *)
(***************************************************************************)
THEOREM OneDecision == Spec => []OneDecisionPerAttestation
<1>1. OnceInv => OneDecisionPerAttestation
  BY DEF OnceInv, Once, Backing, OneDecisionPerAttestation
<1> QED BY InitFlow, StepFlow, StagedInit, StagedStep, OnceInit, OnceNext, <1>1, PTL
        DEF Spec

-----------------------------------------------------------------------------
(* The programs of the boundaries *)

Attaches == {"attach", "attach_parent"}
Extracts == <<"extract", 0>>

PrepareProgram(attach) ==
    AuthorizeProgram(1) \o DeriveProgram("issue") \o <<<<attach, 1>>>>

PreviewProgram ==
    <<<<"sample", 1>>, <<"check", 1>>, <<"request", 1>>, <<"preview", 1>>,
      <<"validate", 2>>, <<"print", 1>>>>

\* A child is sent right after it was validated, as the last thing; what
\* arrived is looked at before anything else.
Sends(todo) ==
    \A i \in DOMAIN todo :
        /\ todo[i][1] \in Attaches =>
               i = Len(todo) /\ (i > 1 => todo[i - 1] = Validates)
        /\ todo[i] = Extracts => Len(todo) = 1

\* Whether a program ends with a child in hand.
Ships(todo) == \E s \in Range(todo) : s = Prints \/ s[1] \in Attaches

\* Whether it works with a _meta.
Carries(todo) == \E s \in Range(todo) : s = Extracts \/ s[1] \in Attaches

LEMMA PrepareStages ==
    ASSUME NEW attach
    PROVE  LET p == PrepareProgram(attach)
           IN  /\ Listed(p) /\ Len(p) = 13 /\ DOMAIN p = 1 .. 13
               /\ p[1] = <<"sample", 1>> /\ p[2] = <<"check", 1>>
               /\ p[3] = <<"expiry", 1>> /\ p[4] = <<"decide", 1>>
               /\ p[5] = <<"sample", 1>> /\ p[6] = <<"check", 1>>
               /\ p[7] = <<"request", 1>> /\ p[8] = <<"issue", 1>>
               /\ p[9] = <<"validate", 2>> /\ p[10] = <<"sample", 2>>
               /\ p[11] = <<"check", 2>> /\ p[12] = <<"validate", 2>>
               /\ p[13] = <<attach, 1>>
<1>1. PICK a : a = AuthorizeProgram(1)
  OBVIOUS
<1>2. PICK d : d = DeriveProgram("issue")
  OBVIOUS
<1>3. PICK s : s = <<<<attach, 1>>>>
  OBVIOUS
<1>4. /\ Listed(a) /\ Len(a) = 4
      /\ a[1] = <<"sample", 1>> /\ a[2] = <<"check", 1>>
      /\ a[3] = <<"expiry", 1>> /\ a[4] = <<"decide", 1>>
  <2>1. Listed(AuthorizeProgram(1))
    BY AuthorizeLegal DEF Legal
  <2> QED BY <1>1, <2>1 DEF AuthorizeProgram
<1>5. /\ Listed(d) /\ Len(d) = 8
      /\ d[1] = <<"sample", 1>> /\ d[2] = <<"check", 1>> /\ d[3] = <<"request", 1>>
      /\ d[4] = <<"issue", 1>> /\ d[5] = <<"validate", 2>> /\ d[6] = <<"sample", 2>>
      /\ d[7] = <<"check", 2>> /\ d[8] = <<"validate", 2>>
  <2>1. Listed(DeriveProgram("issue"))
    BY DeriveLegal DEF Legal
  <2> QED BY <1>2, <2>1 DEF DeriveProgram
<1>6. Listed(s) /\ Len(s) = 1 /\ s[1] = <<attach, 1>>
  <2>1. s \in Seq({<<attach, 1>>}) /\ Len(s) = 1 /\ s[1] = <<attach, 1>>
    BY <1>3
  <2> QED BY <2>1, SeqListed
<1>7. PICK b : b = a \o d
  OBVIOUS
<1>8. PICK p : p = b \o s
  OBVIOUS
<1>9. /\ Listed(b) /\ Len(b) = 4 + 8
      /\ \A i \in 1 .. 4 : b[i] = a[i]
      /\ \A i \in 1 .. 8 : b[4 + i] = d[i]
  <2>1. Listed(a) /\ Listed(d) /\ Len(a) = 4 /\ Len(d) = 8
    BY <1>4, <1>5
  <2>2. Concats(b, a, d)
    BY <1>7, <2>1, ListedConcat
  <2> QED BY <2>1, <2>2 DEF Concats
<1>10. /\ Listed(p) /\ Len(p) = 13 /\ DOMAIN p = 1 .. 13
       /\ \A i \in 1 .. 12 : p[i] = b[i]
       /\ p[13] = s[1]
  <2>1. Listed(b) /\ Listed(s) /\ Len(b) = 12 /\ Len(s) = 1
    BY <1>6, <1>9
  <2>2. Concats(p, b, s)
    BY <1>8, <2>1, ListedConcat
  <2>3. p[12 + 1] = s[1]
    BY <2>1, <2>2 DEF Concats
  <2> QED BY <2>1, <2>2, <2>3 DEF Concats
<1>11. /\ p[1] = a[1] /\ p[2] = a[2] /\ p[3] = a[3] /\ p[4] = a[4]
       /\ p[4 + 1] = d[1] /\ p[4 + 2] = d[2] /\ p[4 + 3] = d[3] /\ p[4 + 4] = d[4]
       /\ p[4 + 5] = d[5] /\ p[4 + 6] = d[6] /\ p[4 + 7] = d[7] /\ p[4 + 8] = d[8]
  BY <1>9, <1>10
<1>12. p = PrepareProgram(attach)
  BY <1>1, <1>2, <1>3, <1>7, <1>8 DEF PrepareProgram
<1>13.
          /\ Listed(p) /\ Len(p) = 13 /\ DOMAIN p = 1 .. 13
          /\ p[1] = <<"sample", 1>> /\ p[2] = <<"check", 1>>
          /\ p[3] = <<"expiry", 1>> /\ p[4] = <<"decide", 1>>
          /\ p[5] = <<"sample", 1>> /\ p[6] = <<"check", 1>>
          /\ p[7] = <<"request", 1>> /\ p[8] = <<"issue", 1>>
          /\ p[9] = <<"validate", 2>> /\ p[10] = <<"sample", 2>>
          /\ p[11] = <<"check", 2>> /\ p[12] = <<"validate", 2>>
          /\ p[13] = <<attach, 1>>
  BY <1>4, <1>5, <1>6, <1>10, <1>11
<1> QED BY <1>12, <1>13

LEMMA PrepareLegal ==
    ASSUME NEW attach \in Attaches
    PROVE  LET p == PrepareProgram(attach)
           IN  /\ Legal(p) /\ Sends(p) /\ p # <<>> /\ Head(p) = <<"sample", 1>>
               /\ Check1 \in Range(p) /\ Derives \in Range(p)
               /\ \E s \in Range(p) : s[1] \in Attests
               /\ Prints \notin Range(p) /\ Places(p, 1)
<1>1. PICK p : p = PrepareProgram(attach)
  OBVIOUS
<1>2. /\ Listed(p) /\ Len(p) = 13 /\ DOMAIN p = 1 .. 13
      /\ p[1] = <<"sample", 1>> /\ p[2] = <<"check", 1>>
      /\ p[3] = <<"expiry", 1>> /\ p[4] = <<"decide", 1>>
      /\ p[5] = <<"sample", 1>> /\ p[6] = <<"check", 1>>
      /\ p[7] = <<"request", 1>> /\ p[8] = <<"issue", 1>>
      /\ p[9] = <<"validate", 2>> /\ p[10] = <<"sample", 2>>
      /\ p[11] = <<"check", 2>> /\ p[12] = <<"validate", 2>>
      /\ p[13] = <<attach, 1>>
  BY <1>1, PrepareStages
<1>3. p # <<>> /\ Head(p) = <<"sample", 1>>
  <2>1. Listed(p) /\ Len(p) = 13
    BY <1>2
  <2>2. p # <<>>
    <3>1. Len(p) # 0
      BY <2>1
    <3> QED BY <2>1, <3>1, ListedFacts, Zenon
  <2>3. Head(p) = p[1]
    BY <2>1, <2>2, TailFacts
  <2> QED BY <1>2, <2>2, <2>3
<1>4. \A i \in DOMAIN p : \A k \in 1 .. 2 :
          p[i] = <<"check", k>> /\ i > 1 => p[i - 1] = <<"sample", k>>
  BY <1>2 DEF Attaches
<1>5. \A i \in DOMAIN p : /\ p[i] = Derives <=> i = 7
                          /\ p[i][1] \in Attests <=> i = 8
                          /\ p[i] # Prints /\ p[i] # Extracts
                          /\ p[i][1] \in Attaches <=> i = 13
  BY <1>2 DEF Derives, Attests, Prints, Extracts, Attaches
<1>6. /\ \A j \in DOMAIN p : j > 7 => p[j] # Check1 /\ p[j] # Derives
      /\ 11 \in DOMAIN p /\ p[11] = Check2 /\ p[2] = Check1
      /\ 11 > 7 /\ 11 > 8 /\ p[8 - 1] = Derives
  BY <1>2, <1>5 DEF Check1, Check2, Attaches
<1>7. Legal(p)
  <2> SUFFICES ASSUME NEW i \in DOMAIN p
               PROVE  /\ p[i] = Derives =>
                             /\ \A j \in DOMAIN p :
                                    j > i => p[j] # Check1 /\ p[j] # Derives
                             /\ \E j \in DOMAIN p : j > i /\ p[j] \in {Check2, Prints}
                      /\ p[i][1] \in Attests =>
                             /\ i > 1 => p[i - 1] = Derives
                             /\ \A j \in DOMAIN p : j > i => p[j] # Derives
                             /\ \E j \in DOMAIN p : j > i /\ p[j] \in {Check2, Prints}
                             /\ p[i][1] # "preview" =>
                                    \E j \in DOMAIN p : j > i /\ p[j] = Check2
    BY <1>2, <1>4, <1>5 DEF Legal
  <2>1. CASE i = 7
    BY <1>5, <1>6, <2>1
  <2>2. CASE i = 8
    BY <1>5, <1>6, <2>2
  <2> QED BY <1>5, <2>1, <2>2
<1>8. Sends(p)
  BY <1>2, <1>5 DEF Sends, Validates
<1>9. Check1 \in Range(p) /\ Derives \in Range(p)
  BY <1>2, <1>5, <1>6 DEF Range
<1>10. (\E s \in Range(p) : s[1] \in Attests) /\ Prints \notin Range(p)
  BY <1>2, <1>5 DEF Range
<1>11. Places(p, 1)
  <2>1. 7 \in DOMAIN p /\ p[7] = Derives
    BY <1>2, <1>5
  <2>2. \A i \in DOMAIN p : p[i][2] \in 0 .. 2 /\ (p[i][2] > 1 => 7 < i)
    BY <1>2
  <2> QED BY <2>1, <2>2 DEF Places
<1> QED BY <1>1, <1>3, <1>7, <1>8, <1>9, <1>10, <1>11

\* Programs that leave a _meta alone, and print or send nothing.
Plain(p) ==
    /\ Legal(p) /\ p # <<>> /\ Head(p) = <<"sample", 1>> /\ Check1 \in Range(p)
    /\ \A s \in Range(p) : s[1] \notin Attaches /\ s # Extracts /\ s # Prints

LEMMA PlainSends ==
    ASSUME NEW p, Plain(p)
    PROVE  Sends(p) /\ ~Ships(p) /\ ~Carries(p)
BY DEF Plain, Sends, Ships, Carries, Range

LEMMA SimplePlain ==
    /\ Plain(AuthorizeProgram(1)) /\ Derives \notin Range(AuthorizeProgram(1))
    /\ Plain(Verify(1)) /\ Derives \notin Range(Verify(1))
    /\ Plain(DeriveProgram("sign_pem"))
<1>1. ASSUME NEW s \in Range(AuthorizeProgram(1))
      PROVE  s[1] \notin Attaches /\ s # Extracts /\ s # Prints
  <2>1. s[1] \in {"sample", "check", "expiry", "decide"}
    BY DEF AuthorizeProgram, Range
  <2> QED BY <2>1 DEF Attaches, Extracts, Prints
<1>2. ASSUME NEW s \in Range(DeriveProgram("sign_pem"))
      PROVE  s[1] \notin Attaches /\ s # Extracts /\ s # Prints
  <2>1. s[1] \in {"sample", "check", "request", "sign_pem", "validate"}
    BY DEF DeriveProgram, Range
  <2> QED BY <2>1 DEF Attaches, Extracts, Prints
<1>3. PICK p : p = Verify(1)
  OBVIOUS
<1>4. /\ p \in Seq({<<"sample", 1>>, <<"check", 1>>}) /\ Len(p) = 2 /\ DOMAIN p = 1 .. 2
      /\ p # <<>> /\ p[1] = <<"sample", 1>> /\ p[2] = <<"check", 1>>
      /\ Head(p) = <<"sample", 1>>
  BY <1>3 DEF Verify
<1>5. Listed(p)
  BY <1>4, SeqListed
<1>6. \A i \in DOMAIN p :
          /\ p[i] # Derives /\ p[i] # Prints /\ p[i][1] \notin Attests
          /\ p[i][1] \notin Attaches /\ p[i] # Extracts
          /\ \A k \in 1 .. 2 : p[i] = <<"check", k>> /\ i > 1 => p[i - 1] = <<"sample", k>>
  BY <1>4 DEF Derives, Prints, Attests, Attaches, Extracts
<1>7. Legal(p)
  BY <1>5, <1>6 DEF Legal
<1>8. /\ Check1 \in Range(p) /\ Derives \notin Range(p)
      /\ \A s \in Range(p) : s[1] \notin Attaches /\ s # Extracts /\ s # Prints
  BY <1>4, <1>6 DEF Check1, Range
<1>9. Plain(Verify(1)) /\ Derives \notin Range(Verify(1))
  BY <1>3, <1>4, <1>7, <1>8 DEF Plain
<1>10. Plain(AuthorizeProgram(1)) /\ Derives \notin Range(AuthorizeProgram(1))
  BY <1>1, AuthorizeLegal DEF Plain
<1>11. Plain(DeriveProgram("sign_pem"))
  BY <1>2, DeriveLegal DEF Plain
<1> QED BY <1>9, <1>10, <1>11

\* authorize_incoming of a child with its parent.
LEMMA IncomingPlain ==
    LET p == SubcallProgram \o AuthorizeProgram(2)
    IN  /\ Plain(p) /\ Check2 \in Range(p) /\ Derives \notin Range(p)
        /\ Places(p, 2)
<1>1. PICK a : a = SubcallProgram
  OBVIOUS
<1>2. PICK d : d = AuthorizeProgram(2)
  OBVIOUS
<1>3. /\ Len(a) = 5
      /\ a[1] = <<"sample", 1>> /\ a[2] = <<"check", 1>> /\ a[3] = <<"sample", 2>>
      /\ a[4] = <<"check", 2>> /\ a[5] = <<"validate", 2>>
  BY <1>1 DEF SubcallProgram
<1>4. /\ Len(d) = 4
      /\ d \in Seq({<<"sample", 2>>, <<"check", 2>>, <<"expiry", 2>>, <<"decide", 2>>})
      /\ d[1] = <<"sample", 2>> /\ d[2] = <<"check", 2>>
      /\ d[3] = <<"expiry", 2>> /\ d[4] = <<"decide", 2>>
  BY <1>2 DEF AuthorizeProgram
<1>5. Listed(a)
  BY <1>1, SubcallLegal DEF Legal
<1>6. Listed(d)
  BY <1>4, SeqListed
<1>7. PICK p : p = a \o d
  OBVIOUS
<1>8. /\ Listed(p) /\ Len(p) = 9 /\ DOMAIN p = 1 .. 9
      /\ \A i \in 1 .. 5 : p[i] = a[i]
      /\ \A i \in 1 .. 4 : p[5 + i] = d[i]
  <2>1. Concats(p, a, d)
    BY <1>5, <1>6, <1>7, ListedConcat
  <2>2. Len(a) = 5 /\ Len(d) = 4
    BY <1>3, <1>4
  <2> QED BY <2>1, <2>2 DEF Concats
<1>9. /\ p[1] = a[1] /\ p[2] = a[2] /\ p[3] = a[3] /\ p[4] = a[4] /\ p[5] = a[5]
      /\ p[5 + 1] = d[1] /\ p[5 + 2] = d[2] /\ p[5 + 3] = d[3] /\ p[5 + 4] = d[4]
  BY <1>8
<1>10. /\ p[1] = <<"sample", 1>> /\ p[2] = <<"check", 1>> /\ p[3] = <<"sample", 2>>
       /\ p[4] = <<"check", 2>> /\ p[5] = <<"validate", 2>>
       /\ p[6] = <<"sample", 2>> /\ p[7] = <<"check", 2>>
       /\ p[8] = <<"expiry", 2>> /\ p[9] = <<"decide", 2>>
  BY <1>3, <1>4, <1>9
<1>11. p # <<>>
  <2>1. Len(p) # 0
    BY <1>8
  <2> QED BY <1>8, <2>1, ListedFacts, Zenon
<1>12. Head(p) = p[1]
  BY <1>8, <1>11, TailFacts
<1>13. \A i \in DOMAIN p :
           /\ p[i] # Derives /\ p[i] # Prints /\ p[i][1] \notin Attests
           /\ p[i][1] \notin Attaches /\ p[i] # Extracts
  <2>1. DOMAIN p = 1 .. 9
    BY <1>8
  <2> QED BY <1>10, <2>1 DEF Derives, Prints, Attests, Attaches, Extracts
<1>14. \A i \in DOMAIN p : \A k \in 1 .. 2 :
           p[i] = <<"check", k>> /\ i > 1 => p[i - 1] = <<"sample", k>>
  <2>1. DOMAIN p = 1 .. 9
    BY <1>8
  <2> QED BY <1>10, <2>1
<1>15. Legal(p)
  BY <1>8, <1>13, <1>14 DEF Legal
<1>16. /\ Check1 \in Range(p) /\ Check2 \in Range(p) /\ Derives \notin Range(p)
       /\ \A s \in Range(p) : s[1] \notin Attaches /\ s # Extracts /\ s # Prints
  <2>1. 2 \in DOMAIN p /\ 4 \in DOMAIN p
    BY <1>8
  <2> QED BY <1>10, <1>13, <2>1 DEF Check1, Check2, Range
<1>17. Plain(p)
  BY <1>10, <1>11, <1>12, <1>15, <1>16 DEF Plain
<1>18. Places(p, 2)
  <2>1. DOMAIN p = 1 .. 9
    BY <1>8
  <2>2. \A i \in DOMAIN p : p[i][2] \in 1 .. 2
    BY <1>10, <2>1
  <2> QED BY <2>2 DEF Places
<1> QED BY <1>1, <1>2, <1>7, <1>16, <1>17, <1>18

\* The stages of the other programs are about the GCO they begin with, or the
\* child they derive.
LEMMA SimplePlaces ==
    /\ Places(AuthorizeProgram(1), 1) /\ Places(Verify(1), 1)
    /\ Places(DeriveProgram("sign_pem"), 1)
<1>1. Places(AuthorizeProgram(1), 1)
  <2>1. \A i \in DOMAIN AuthorizeProgram(1) : AuthorizeProgram(1)[i][2] = 1
    BY DEF AuthorizeProgram
  <2> QED BY <2>1 DEF Places
<1>2. Places(Verify(1), 1)
  <2>1. \A i \in DOMAIN Verify(1) : Verify(1)[i][2] = 1
    BY DEF Verify
  <2> QED BY <2>1 DEF Places
<1>3. Places(DeriveProgram("sign_pem"), 1)
  <2>1. PICK p : p = DeriveProgram("sign_pem")
    OBVIOUS
  <2>2. /\ DOMAIN p = 1 .. 8
        /\ p[1] = <<"sample", 1>> /\ p[2] = <<"check", 1>> /\ p[3] = <<"request", 1>>
        /\ p[4] = <<"sign_pem", 1>> /\ p[5] = <<"validate", 2>>
        /\ p[6] = <<"sample", 2>> /\ p[7] = <<"check", 2>> /\ p[8] = <<"validate", 2>>
    BY <2>1 DEF DeriveProgram
  <2>3. 3 \in DOMAIN p /\ p[3] = Derives
    BY <2>2 DEF Derives
  <2>4. \A i \in DOMAIN p : p[i][2] \in 0 .. 2 /\ (p[i][2] > 1 => 3 < i)
    BY <2>2
  <2> QED BY <2>1, <2>3, <2>4 DEF Places
<1> QED BY <1>1, <1>2, <1>3

\* gco derive without a key.
LEMMA PreviewLegal ==
    /\ Legal(PreviewProgram) /\ Sends(PreviewProgram) /\ PreviewProgram # <<>>
    /\ Head(PreviewProgram) = <<"sample", 1>> /\ ~Carries(PreviewProgram)
    /\ Check1 \in Range(PreviewProgram) /\ Derives \in Range(PreviewProgram)
    /\ Places(PreviewProgram, 1)
<1>1. PICK p : p = PreviewProgram
  OBVIOUS
<1>2. /\ Len(p) = 6 /\ DOMAIN p = 1 .. 6 /\ p # <<>>
      /\ p[1] = <<"sample", 1>> /\ p[2] = <<"check", 1>> /\ p[3] = <<"request", 1>>
      /\ p[4] = <<"preview", 1>> /\ p[5] = <<"validate", 2>> /\ p[6] = <<"print", 1>>
      /\ Head(p) = <<"sample", 1>>
      /\ p \in Seq({<<"sample", 1>>, <<"check", 1>>, <<"request", 1>>,
                    <<"preview", 1>>, <<"validate", 2>>, <<"print", 1>>})
  BY <1>1 DEF PreviewProgram
<1>3. Listed(p)
  BY <1>2, SeqListed
<1>4. \A i \in DOMAIN p : \A k \in 1 .. 2 :
          p[i] = <<"check", k>> /\ i > 1 => p[i - 1] = <<"sample", k>>
  BY <1>2
<1>5. \A i \in DOMAIN p : /\ p[i] = Derives <=> i = 3
                          /\ p[i][1] \in Attests <=> i = 4
                          /\ p[i] = Prints <=> i = 6
                          /\ p[i][1] \notin Attaches /\ p[i] # Extracts
  BY <1>2 DEF Derives, Attests, Prints, Extracts, Attaches
<1>6. /\ \A j \in DOMAIN p : j > 3 => p[j] # Check1 /\ p[j] # Derives
      /\ 6 \in DOMAIN p /\ p[6] = Prints /\ p[2] = Check1
      /\ 6 > 3 /\ 6 > 4 /\ p[4 - 1] = Derives /\ p[4][1] = "preview"
  BY <1>2, <1>5 DEF Check1, Prints
<1>7. Legal(p)
  <2> SUFFICES ASSUME NEW i \in DOMAIN p
               PROVE  /\ p[i] = Derives =>
                             /\ \A j \in DOMAIN p :
                                    j > i => p[j] # Check1 /\ p[j] # Derives
                             /\ \E j \in DOMAIN p : j > i /\ p[j] \in {Check2, Prints}
                      /\ p[i][1] \in Attests =>
                             /\ i > 1 => p[i - 1] = Derives
                             /\ \A j \in DOMAIN p : j > i => p[j] # Derives
                             /\ \E j \in DOMAIN p : j > i /\ p[j] \in {Check2, Prints}
                             /\ p[i][1] # "preview" =>
                                    \E j \in DOMAIN p : j > i /\ p[j] = Check2
                      /\ p[i] = Prints => i = Len(p)
    BY <1>3, <1>4 DEF Legal
  <2>1. CASE i = 3
    BY <1>5, <1>6, <2>1
  <2>2. CASE i = 4
    BY <1>5, <1>6, <2>2
  <2>3. CASE i = 6
    BY <1>2, <1>5, <2>3
  <2> QED BY <1>5, <2>1, <2>2, <2>3
<1>8. Sends(p)
  BY <1>5 DEF Sends
<1>9. /\ Check1 \in Range(p) /\ Derives \in Range(p) /\ ~Carries(p)
  BY <1>2, <1>5, <1>6 DEF Range, Carries
<1>10. Places(p, 1)
  <2>1. 3 \in DOMAIN p /\ p[3] = Derives
    BY <1>2, <1>5
  <2>2. \A i \in DOMAIN p : p[i][2] \in 0 .. 2 /\ (p[i][2] > 1 => 3 < i)
    BY <1>2
  <2> QED BY <2>1, <2>2 DEF Places
<1> QED BY <1>1, <1>2, <1>7, <1>8, <1>9, <1>10

LEMMA ExtractLegal ==
    LET p == <<Extracts>>
    IN  /\ Legal(p) /\ Sends(p) /\ p # <<>> /\ Head(p) = Extracts
        /\ ~Ships(p) /\ Derives \notin Range(p)
<1>1. PICK p : p = <<Extracts>>
  OBVIOUS
<1>2. /\ Len(p) = 1 /\ DOMAIN p = 1 .. 1 /\ p # <<>> /\ p[1] = Extracts
      /\ Head(p) = Extracts /\ p \in Seq({Extracts})
  BY <1>1
<1>3. Listed(p)
  BY <1>2, SeqListed
<1>4. \A i \in DOMAIN p :
          /\ p[i] # Derives /\ p[i] # Prints /\ p[i][1] \notin Attests
          /\ p[i][1] \notin Attaches /\ \A k : p[i] # <<"check", k>>
  BY <1>2 DEF Derives, Prints, Attests, Attaches, Extracts
<1>5. Legal(p) /\ Sends(p)
  BY <1>2, <1>3, <1>4 DEF Legal, Sends
<1>6. ~Ships(p) /\ Derives \notin Range(p)
  BY <1>4 DEF Ships, Range
<1> QED BY <1>1, <1>2, <1>5, <1>6

-----------------------------------------------------------------------------
(***************************************************************************)
(* The inductive invariant: a call that will send a child has its parent,  *)
(* which was compared with the child just before it is sent, whatever      *)
(* _meta the call started from; and every _meta carries what is sound.     *)
(***************************************************************************)
Linked(parent, child) ==
    /\ child.parent_span_id = parent.span_id
    /\ Last(child.lineage) = canonical_gco_hash(parent)

IsMeta(m) ==
    /\ DOMAIN m = DOMAIN EmptyMeta
    /\ m.gco # NONE => Sound(m.gco)
    /\ m.parent # NONE => Sound(m.parent)

Sending(c) ==
    /\ Sends(c.todo)
    /\ Ships(c.todo) => Len(c.gcos) = 2 \/ Derives \in Range(c.todo)
    /\ Head(c.todo)[1] \in Attaches => Linked(c.gcos[1], c.gcos[2])
    /\ Carries(c.todo) => c.meta = NONE \/ IsMeta(c.meta)
    /\ Extracts \in Range(c.todo) => c.child = NONE

BoundaryInv ==
    /\ \A t \in Threads : call[t].todo # <<>> => Sending(call[t])
    /\ \A m \in wire : IsMeta(m) /\ (m.parent # NONE => Linked(m.parent, m.gco))

\* What is left of a program is sent as it was to be.
LEMMA SendsTail ==
    ASSUME NEW p, Legal(p), Sends(p), p # <<>>, Tail(p) # <<>>
    PROVE  /\ Sends(Tail(p)) /\ Extracts \notin Range(Tail(p))
           /\ Head(Tail(p))[1] \in Attaches => Head(p) = Validates
           /\ Ships(Tail(p)) => Ships(p)
           /\ Carries(Tail(p)) => Carries(p)
<1>1. PICK q : q = Tail(p)
  OBVIOUS
<1>2. /\ Listed(q) /\ DOMAIN q = 1 .. Len(p) - 1 /\ DOMAIN p = 1 .. Len(p)
      /\ Len(q) = Len(p) - 1
      /\ Len(p) \in Nat /\ Len(p) >= 1 /\ Head(p) = p[1] /\ Len(p) # 1
      /\ \A i \in DOMAIN q : i + 1 \in DOMAIN p /\ q[i] = p[i + 1]
      /\ \A i \in DOMAIN p : i # 1 => i - 1 \in DOMAIN q /\ p[i] = q[i - 1]
  BY <1>1, TailFacts DEF Legal
<1>3. Head(q) = q[1]
  BY <1>1, <1>2, TailFacts
<1>4. q[1] = p[2] /\ 2 \in DOMAIN p /\ 1 \in DOMAIN q
  BY <1>2
<1>5. \A i \in DOMAIN p : p[i] # Extracts
  BY <1>2 DEF Sends
<1>6. \A i \in DOMAIN q : q[i] # Extracts
  BY <1>2, <1>5
<1>7. ASSUME NEW i \in DOMAIN q, q[i][1] \in Attaches
      PROVE  i = Len(q) /\ (i > 1 => q[i - 1] = Validates)
  <2>1. /\ i + 1 \in DOMAIN p /\ p[i + 1][1] \in Attaches /\ i \in Nat
        /\ i + 1 > 1 /\ i + 1 - 1 = i
    BY <1>2, <1>7
  <2>2. i + 1 = Len(p) /\ p[i + 1 - 1] = Validates
    BY <2>1 DEF Sends
  <2>3. i > 1 => i - 1 \in DOMAIN q /\ q[i - 1] = p[i]
    BY <1>2, <2>1
  <2> QED BY <1>2, <2>1, <2>2, <2>3
<1>8. Sends(q)
  BY <1>6, <1>7 DEF Sends
<1>9. Head(q)[1] \in Attaches => Head(p) = Validates
  <2>1. 2 > 1 /\ 2 - 1 = 1
    OBVIOUS
  <2>2. p[2][1] \in Attaches => p[2 - 1] = Validates
    BY <1>4, <2>1 DEF Sends
  <2> QED BY <1>2, <1>3, <1>4, <2>1, <2>2
<1>10. Range(q) \subseteq Range(p)
  BY <1>1, RangeOfTail DEF Legal
<1> QED BY <1>1, <1>6, <1>8, <1>9, <1>10 DEF Range, Ships, Carries

LEMMA ValidatedLinks ==
    ASSUME NEW parent, NEW child, NEW now, ValidateFault(parent, child, now) = "OK"
    PROVE  Linked(parent, child)
<1>1. LinkageFault(parent, child) = "OK" /\ LineageFault(parent, child) = "OK"
  BY ValidateChecks
<1> QED BY <1>1 DEF Linked, LinkageFault, LineageFault, Check

\* The next stage of a call.
LEMMA SendingGoes ==
    ASSUME NEW c, NEW d, NEW now, Legal(c.todo), Sending(c), c.todo # <<>>,
           Tail(c.todo) # <<>>, d.todo = Tail(c.todo), d.meta = c.meta,
           \/ /\ d.gcos = c.gcos /\ Head(c.todo) # Derives
              /\ Head(c.todo) = Validates =>
                     ValidateFault(c.gcos[1], c.gcos[2], now) = "OK"
           \/ Len(d.gcos) = 2 /\ Head(c.todo) # Validates
    PROVE  Sending(d)
<1>1. PICK p : p = c.todo
  OBVIOUS
<1>2. PICK q : q = Tail(p)
  OBVIOUS
<1>3. /\ Sends(q) /\ Extracts \notin Range(q)
      /\ Head(q)[1] \in Attaches => Head(p) = Validates
      /\ Ships(q) => Ships(p)
      /\ Carries(q) => Carries(p)
  BY <1>1, <1>2, SendsTail DEF Sending
<1>4. \A s \in Range(p) : s = Head(p) \/ s \in Range(q)
  BY <1>1, <1>2, RangeOfTail DEF Legal
<1>5. Ships(q) => Len(d.gcos) = 2 \/ Derives \in Range(q)
  BY <1>1, <1>3, <1>4 DEF Sending
<1>6. Head(q)[1] \in Attaches => Linked(d.gcos[1], d.gcos[2])
  BY <1>1, <1>3, ValidatedLinks
<1>7. Carries(q) => d.meta = NONE \/ IsMeta(d.meta)
  BY <1>1, <1>3 DEF Sending
<1> QED BY <1>1, <1>2, <1>3, <1>5, <1>6, <1>7 DEF Sending

\* A step of one thread that sends nothing.
LEMMA SilentStep ==
    ASSUME BoundaryInv, NEW t \in Threads, wire' = wire,
           \A u \in Threads \ {t} : call'[u] = call[u],
           call'[t].todo # <<>> => Sending(call'[t])
    PROVE  BoundaryInv'
<1>1. \A u \in Threads : call'[u].todo # <<>> => Sending(call'[u])
  BY DEF BoundaryInv
<1>2. \A m \in wire' : IsMeta(m) /\ (m.parent # NONE => Linked(m.parent, m.gco))
  BY DEF BoundaryInv
<1> QED BY <1>1, <1>2 DEF BoundaryInv

LEMMA GoesOn ==
    ASSUME FlowInv, BoundaryInv, NEW t \in Threads, call[t].todo # <<>>,
           NEW now, NEW gcos, Goes(t, gcos),
           \/ /\ gcos = call[t].gcos /\ Head(call[t].todo) # Derives
              /\ Head(call[t].todo) = Validates =>
                     ValidateFault(call[t].gcos[1], call[t].gcos[2], now) = "OK"
           \/ Len(gcos) = 2 /\ Head(call[t].todo) # Validates
    PROVE  Sending(call'[t])
<1>1. PICK c : c = call[t]
  OBVIOUS
<1>2. PICK d : d = call'[t]
  OBVIOUS
<1>3. Legal(c.todo) /\ Sending(c) /\ c.todo # <<>>
  BY <1>1 DEF FlowInv, Flow, BoundaryInv
<1>4. Tail(c.todo) # <<>> /\ d.todo = Tail(c.todo) /\ d.meta = c.meta /\ d.gcos = gcos
  BY <1>1, <1>2 DEF Goes
<1>5. Sending(d)
  BY <1>1, <1>3, <1>4, SendingGoes
<1> QED BY <1>2, <1>5

LEMMA StageSends ==
    ASSUME FlowInv, BoundaryInv, NEW t \in Threads, Stage(t), wire' = wire
    PROVE  BoundaryInv'
<1>1. Moves(t)
  BY StageMoves
<1>2. call[t].todo # <<>> /\ \A u \in Threads \ {t} : call'[u] = call[u]
  BY <1>1 DEF Moves
<1>3. CASE Ends(t) \/ Allows(t, call[t].gcos)
  BY <1>2, <1>3, SilentStep DEF Ends, Allows
<1>4. CASE Goes(t, call[t].gcos) /\ Finds(t)
  <2>1. Sending(call'[t])
    BY <1>2, <1>4, GoesOn DEF Finds
  <2> QED BY <1>2, <2>1, SilentStep
<1>5. CASE /\ Head(call[t].todo) = Derives \/ Head(call[t].todo)[1] \in Attests
           /\ \E child : Goes(t, <<call[t].gcos[1], child>>)
  <2>1. PICK child : Goes(t, <<call[t].gcos[1], child>>)
    BY <1>5
  <2>2. Head(call[t].todo) # Validates
    BY <1>5 DEF Derives, Attests, Validates
  <2>3. PICK gcos : gcos = <<call[t].gcos[1], child>>
    OBVIOUS
  <2>4. Len(gcos) = 2 /\ Goes(t, gcos)
    BY <2>1, <2>3
  <2>5. Sending(call'[t])
    BY <1>2, <2>2, <2>4, GoesOn
  <2> QED BY <1>2, <2>5, SilentStep
<1> QED BY <1>1, <1>3, <1>4, <1>5 DEF Moves

LEMMA MintSends ==
    ASSUME FlowInv, BoundaryInv, NEW t \in Threads, call[t].todo # <<>>,
           Head(call[t].todo)[1] \in Attests, NEW a, Mint(t, a), wire' = wire
    PROVE  BoundaryInv'
<1>1. /\ \E child : Goes(t, <<call[t].gcos[1], child>>)
      /\ \A u \in Threads \ {t} : call'[u] = call[u]
  BY MintMoves
<1>2. PICK child : Goes(t, <<call[t].gcos[1], child>>)
  BY <1>1
<1>3. PICK gcos : gcos = <<call[t].gcos[1], child>>
  OBVIOUS
<1>4. Len(gcos) = 2 /\ Goes(t, gcos)
  BY <1>2, <1>3
<1>5. Head(call[t].todo) # Validates
  BY DEF Attests, Validates
<1>6. Sending(call'[t])
  BY <1>4, <1>5, GoesOn
<1> QED BY <1>1, <1>6, SilentStep

-----------------------------------------------------------------------------
(* Calls *)

WellMade(c) ==
    /\ {"host", "gcos", "todo"} \subseteq DOMAIN c /\ DOMAIN c \subseteq DOMAIN Idle
    /\ {"now", "began", "child"} \cap DOMAIN c = {}
    /\ c.host \in Hosts
    /\ Legal(c.todo) /\ Sends(c.todo) /\ c.todo # <<>>
    /\ Head(c.todo) \in {<<"sample", 1>>, Extracts}
    /\ Len(c.gcos) \in 0 .. 1 /\ DOMAIN c.gcos = 1 .. Len(c.gcos)
    /\ \A k \in DOMAIN c.gcos :
           c.gcos[k] \in Offered /\ <<"check", k>> \in Range(c.todo)
    /\ Derives \in Range(c.todo) =>
           "request" \in DOMAIN c /\ c.request \in Requests /\ Len(c.gcos) = 1
    /\ Ships(c.todo) => Derives \in Range(c.todo)
    /\ Carries(c.todo) => "meta" \in DOMAIN c /\ (c.meta = NONE \/ IsMeta(c.meta))

Arrives == "authorize_incoming"

\* A call of anything but authorize_incoming; what it will send, it attests,
\* and a host with a cache prints nothing.
Opens(c) ==
    /\ "op" \in DOMAIN c /\ c.op # Arrives /\ "fault" \notin DOMAIN c
    /\ Places(c.todo, Len(c.gcos))
    /\ c.host \in Protected => Prints \notin Range(c.todo)
    /\ Head(c.todo) = <<"sample", 1>>
    /\ (\E s \in Range(c.todo) : s[1] \in Attaches) =>
           \E s \in Range(c.todo) : s[1] \in Attests

\* A call of authorize_incoming with a _meta.
Takes(c, meta) ==
    /\ {"op", "ask", "meta"} \subseteq DOMAIN c /\ "fault" \notin DOMAIN c
    /\ c.op = Arrives /\ c.ask \in ToolAsks /\ c.meta = meta
    /\ c.todo = <<Extracts>>

LEMMA CallStarts ==
    ASSUME FlowInv, BoundaryInv, NEW t \in Threads, NEW c, Begin(t, c), WellMade(c),
           wire' = wire
    PROVE  FlowInv' /\ BoundaryInv'
<1>1. Head(c.todo)[1] \notin Attests \cup {"check"} /\ Head(c.todo)[1] \notin Attaches
  BY DEF WellMade, Attests, Attaches, Extracts
<1>2. Len(c.gcos) \in 0 .. 2
  BY DEF WellMade
<1>3. FlowInv'
  BY <1>1, <1>2, BeginStep DEF WellMade
<1>4. /\ \A u \in Threads \ {t} : call'[u] = call[u]
      /\ call'[t].todo = c.todo /\ call'[t].child = NONE
      /\ "meta" \in DOMAIN c => call'[t].meta = c.meta
  BY BeginMeans DEF WellMade, FlowInv
<1>5. PICK d : d = call'[t]
  OBVIOUS
<1>6. Sending(d)
  BY <1>1, <1>4, <1>5 DEF Sending, WellMade
<1> QED BY <1>3, <1>4, <1>5, <1>6, SilentStep

\* A call about one GCO.
LEMMA OneStarts ==
    ASSUME NEW c, NEW g \in Offered, c.gcos = <<g>>, Check1 \in Range(c.todo),
           {"host", "gcos", "todo"} \subseteq DOMAIN c, DOMAIN c \subseteq DOMAIN Idle,
           {"now", "began", "child"} \cap DOMAIN c = {},
           c.host \in Hosts, Legal(c.todo), Sends(c.todo), c.todo # <<>>,
           Head(c.todo) = <<"sample", 1>>,
           Derives \in Range(c.todo) => "request" \in DOMAIN c /\ c.request \in Requests,
           Ships(c.todo) => Derives \in Range(c.todo),
           Carries(c.todo) => "meta" \in DOMAIN c /\ (c.meta = NONE \/ IsMeta(c.meta))
    PROVE  WellMade(c)
<1>1. Len(c.gcos) = 1 /\ DOMAIN c.gcos = 1 .. 1 /\ c.gcos[1] = g
  OBVIOUS
<1>2. \A k \in DOMAIN c.gcos : c.gcos[k] \in Offered /\ <<"check", k>> \in Range(c.todo)
  BY <1>1 DEF Check1
<1> QED BY <1>1, <1>2 DEF WellMade

\* What a base _meta or a sent one may hold.
LEMMA BasesAreMetas ==
    ASSUME BoundaryInv, NEW m \in BaseMetas \cup wire
    PROVE  m = NONE \/ IsMeta(m)
<1>1. CASE m \in BaseMetas /\ m # NONE
  BY <1>1, BaseMetasAssumption DEF IsMeta
<1>2. CASE m \in wire
  BY <1>2 DEF BoundaryInv
<1> QED BY <1>1, <1>2

LEMMA ArrivingAreMetas ==
    ASSUME FlowInv, BoundaryInv, NEW m \in Arriving
    PROVE  m = NONE \/ IsMeta(m)
<1>1. CASE m \in wire \cup BaseMetas
  BY <1>1, BasesAreMetas
<1>2. ASSUME NEW s \in wire,
             m = [s EXCEPT !.capable = FALSE] \/ m = [s EXCEPT !.handle = MALFORMED]
      PROVE  IsMeta(m)
  <2>1. IsMeta(s)
    BY DEF BoundaryInv
  <2>2. DOMAIN m = DOMAIN s /\ m.gco = s.gco /\ m.parent = s.parent
    BY <1>2, <2>1 DEF IsMeta, EmptyMeta
  <2> QED BY <2>1, <2>2 DEF IsMeta
<1>3. ASSUME NEW g, NEW p, g # NONE => Sound(g), p # NONE => Sound(p),
             m = [EmptyMeta EXCEPT !.capable = TRUE, !.gco = g, !.parent = p]
      PROVE  IsMeta(m)
  <2>1. DOMAIN m = DOMAIN EmptyMeta /\ m.gco = g /\ m.parent = p
    BY <1>3 DEF EmptyMeta
  <2> QED BY <1>3, <2>1 DEF IsMeta
<1>4. \A g \in Offered : Sound(g)
  BY OfferedSound
<1>5. Pool \subseteq Offered
  BY DEF Offered
<1>6. \A s \in wire : s.gco # NONE => Sound(s.gco)
  BY DEF BoundaryInv, IsMeta
<1>7. ASSUME NEW both \in (Offered \X (Pool \cup {NONE}))
                              \cup ({s.gco : s \in wire} \X Offered),
             m = [EmptyMeta EXCEPT !.capable = TRUE, !.gco = both[1], !.parent = both[2]]
      PROVE  IsMeta(m)
  <2>1. PICK g : g = both[1]
    OBVIOUS
  <2>2. PICK p : p = both[2]
    OBVIOUS
  <2>3. (g # NONE => Sound(g)) /\ (p # NONE => Sound(p))
    BY <1>4, <1>5, <1>6, <1>7, <2>1, <2>2
  <2> QED BY <1>3, <1>7, <2>1, <2>2, <2>3
<1> QED BY <1>1, <1>2, <1>7 DEF Arriving

LEMMA PrepareStarts ==
    ASSUME FlowInv, BoundaryInv, NEW t \in Threads, NEW attach \in Attaches,
           Prepare(t, attach)
    PROVE  \E c : Begin(t, c) /\ WellMade(c) /\ Opens(c)
<1>1. PICK host \in Hosts, parent \in Offered, ask \in ToolAsks, request \in Requests,
           base \in BaseMetas \cup wire :
          Begin(t, [host |-> host, op |-> "prepare", ask |-> ask,
                    request |-> request, meta |-> base, gcos |-> <<parent>>,
                    todo |-> PrepareProgram(attach)])
  BY DEF Prepare, PrepareProgram
<1>2. PICK c : c = [host |-> host, op |-> "prepare", ask |-> ask,
                    request |-> request, meta |-> base, gcos |-> <<parent>>,
                    todo |-> PrepareProgram(attach)]
  OBVIOUS
<1>3. /\ DOMAIN c = {"host", "op", "ask", "request", "meta", "gcos", "todo"}
      /\ c.host = host /\ c.request = request /\ c.meta = base
      /\ c.gcos = <<parent>> /\ c.todo = PrepareProgram(attach) /\ c.op = "prepare"
  BY <1>2
<1>4. /\ {"host", "gcos", "todo"} \subseteq DOMAIN c /\ DOMAIN c \subseteq DOMAIN Idle
      /\ {"now", "began", "child"} \cap DOMAIN c = {}
  BY <1>3 DEF Idle
<1>5. c.meta = NONE \/ IsMeta(c.meta)
  BY <1>3, BasesAreMetas
<1>6. "request" \in DOMAIN c /\ c.request \in Requests /\ "meta" \in DOMAIN c
  BY <1>3
<1>7. /\ Legal(c.todo) /\ Sends(c.todo) /\ c.todo # <<>> /\ Head(c.todo) = <<"sample", 1>>
      /\ Check1 \in Range(c.todo) /\ Derives \in Range(c.todo)
  BY <1>3, PrepareLegal
<1>8. WellMade(c)
  BY <1>3, <1>4, <1>5, <1>6, <1>7, OneStarts
<1>9. Opens(c)
  <2>1. Len(c.gcos) = 1
    BY <1>3
  <2> QED BY <1>3, <1>7, <2>1, PrepareLegal DEF Opens, Arrives
<1> QED BY <1>1, <1>2, <1>8, <1>9

LEMMA IncomingStarts ==
    ASSUME FlowInv, BoundaryInv, NEW t \in Threads, AuthorizeIncoming(t)
    PROVE  \E meta \in Arriving : \E c : Begin(t, c) /\ WellMade(c) /\ Takes(c, meta)
<1>1. PICK host \in Hosts, ask \in ToolAsks, meta \in Arriving :
          Begin(t, [host |-> host, op |-> "authorize_incoming", ask |-> ask,
                    meta |-> meta, gcos |-> <<>>, todo |-> <<Extracts>>])
  BY DEF AuthorizeIncoming, Extracts
<1>2. PICK c : c = [host |-> host, op |-> "authorize_incoming", ask |-> ask,
                    meta |-> meta, gcos |-> <<>>, todo |-> <<Extracts>>]
  OBVIOUS
<1>3. /\ DOMAIN c = {"host", "op", "ask", "meta", "gcos", "todo"}
      /\ c.host = host /\ c.meta = meta /\ c.gcos = <<>> /\ c.todo = <<Extracts>>
      /\ c.op = Arrives /\ c.ask = ask
  BY <1>2 DEF Arrives
<1>4. /\ {"host", "gcos", "todo"} \subseteq DOMAIN c /\ DOMAIN c \subseteq DOMAIN Idle
      /\ {"now", "began", "child"} \cap DOMAIN c = {} /\ "meta" \in DOMAIN c
  BY <1>3 DEF Idle
<1>5. c.meta = NONE \/ IsMeta(c.meta)
  BY <1>3, ArrivingAreMetas
<1>6. Len(c.gcos) = 0 /\ DOMAIN c.gcos = 1 .. 0
  BY <1>3
<1>7. /\ Legal(c.todo) /\ Sends(c.todo) /\ c.todo # <<>> /\ Head(c.todo) = Extracts
      /\ ~Ships(c.todo) /\ Derives \notin Range(c.todo)
  BY <1>3, ExtractLegal
<1>8. WellMade(c)
  BY <1>3, <1>4, <1>5, <1>6, <1>7 DEF WellMade
<1>9. Takes(c, meta)
  BY <1>3 DEF Takes
<1> QED BY <1>1, <1>2, <1>8, <1>9

LEMMA CommandStarts ==
    ASSUME FlowInv, BoundaryInv, NEW t \in Threads, NEW issue, NEW program,
           DeriveCommand(t, issue, program), issue # Arrives,
           Legal(program), Sends(program), program # <<>>,
           Head(program) = <<"sample", 1>>, ~Carries(program),
           Check1 \in Range(program), Places(program, 1),
           Ships(program) => Derives \in Range(program)
    PROVE  \E c : Begin(t, c) /\ WellMade(c) /\ Opens(c)
<1>1. PICK host \in Hosts \ Protected, parent \in Offered,
           request \in Requests \ {MALFORMED} :
          Begin(t, [host |-> host, op |-> issue, request |-> request,
                    gcos |-> <<parent>>, todo |-> program])
  BY DEF DeriveCommand
<1>2. PICK c : c = [host |-> host, op |-> issue, request |-> request,
                    gcos |-> <<parent>>, todo |-> program]
  OBVIOUS
<1>3. /\ DOMAIN c = {"host", "op", "request", "gcos", "todo"}
      /\ c.host = host /\ c.request = request /\ c.gcos = <<parent>> /\ c.todo = program
      /\ c.op = issue
  BY <1>2
<1>4. /\ {"host", "gcos", "todo"} \subseteq DOMAIN c /\ DOMAIN c \subseteq DOMAIN Idle
      /\ {"now", "began", "child"} \cap DOMAIN c = {}
  BY <1>3 DEF Idle
<1>5. "request" \in DOMAIN c /\ c.request \in Requests
  BY <1>3
<1>6. WellMade(c)
  BY <1>3, <1>4, <1>5, OneStarts
<1>7. Opens(c)
  <2>1. Len(c.gcos) = 1 /\ c.host \notin Protected
    BY <1>3
  <2> QED BY <1>3, <2>1 DEF Opens, Carries
<1> QED BY <1>1, <1>2, <1>6, <1>7

LEMMA ProgramStarts ==
    ASSUME FlowInv, BoundaryInv, NEW t \in Threads, DeriveSigned(t) \/ DerivePreview(t)
    PROVE  \E c : Begin(t, c) /\ WellMade(c) /\ Opens(c)
<1>1. CASE DeriveSigned(t)
  <2>1. Plain(DeriveProgram("sign_pem"))
    BY SimplePlain
  <2>2. DeriveCommand(t, "sign_pem", DeriveProgram("sign_pem"))
    BY <1>1 DEF DeriveSigned
  <2>3. PICK p : p = DeriveProgram("sign_pem")
    OBVIOUS
  <2>4. Sends(p) /\ ~Ships(p) /\ ~Carries(p) /\ Plain(p)
    BY <2>1, <2>3, PlainSends
  <2> QED BY <2>2, <2>3, <2>4, SimplePlaces, CommandStarts DEF Plain, Arrives
<1>2. CASE DerivePreview(t)
  <2>1. DeriveCommand(t, "preview", PreviewProgram)
    BY <1>2 DEF DerivePreview, PreviewProgram
  <2> QED BY <2>1, PreviewLegal, CommandStarts DEF Arrives
<1> QED BY <1>1, <1>2

LEMMA LookStarts ==
    ASSUME FlowInv, BoundaryInv, NEW t \in Threads, AuthorizeState(t) \/ VerifyCommand(t)
    PROVE  \E c : Begin(t, c) /\ WellMade(c) /\ Opens(c)
<1>1. ASSUME NEW c, NEW g \in Offered, Begin(t, c), c.gcos = <<g>>, c.host \in Hosts,
             {"host", "gcos", "todo"} \subseteq DOMAIN c, DOMAIN c \subseteq DOMAIN Idle,
             {"now", "began", "child"} \cap DOMAIN c = {},
             "op" \in DOMAIN c, c.op # Arrives, "fault" \notin DOMAIN c,
             Plain(c.todo), Derives \notin Range(c.todo), Places(c.todo, 1)
      PROVE  \E b : Begin(t, b) /\ WellMade(b) /\ Opens(b)
  <2>1. WellMade(c)
    BY <1>1, PlainSends, OneStarts DEF Plain
  <2>2. Opens(c)
    <3>1. Len(c.gcos) = 1
      BY <1>1
    <3> QED BY <1>1, <3>1 DEF Opens, Plain
  <2> QED BY <1>1, <2>1, <2>2
<1>2. CASE AuthorizeState(t)
  <2>1. PICK host \in Hosts, g \in Offered, ask \in Asks \ ToolAsks :
            Begin(t, [host |-> host, op |-> "authorize", ask |-> ask,
                      gcos |-> <<g>>, todo |-> AuthorizeProgram(1)])
    BY <1>2 DEF AuthorizeState
  <2>2. PICK c : c = [host |-> host, op |-> "authorize", ask |-> ask,
                      gcos |-> <<g>>, todo |-> AuthorizeProgram(1)]
    OBVIOUS
  <2>3. /\ DOMAIN c = {"host", "op", "ask", "gcos", "todo"}
        /\ c.host = host /\ c.gcos = <<g>> /\ c.todo = AuthorizeProgram(1)
        /\ c.op = "authorize"
    BY <2>2
  <2>4. /\ {"host", "gcos", "todo"} \subseteq DOMAIN c /\ DOMAIN c \subseteq DOMAIN Idle
        /\ {"now", "began", "child"} \cap DOMAIN c = {} /\ c.host \in Hosts
        /\ "op" \in DOMAIN c /\ c.op # Arrives /\ "fault" \notin DOMAIN c
    BY <2>3 DEF Idle, Arrives
  <2>5. Plain(c.todo) /\ Derives \notin Range(c.todo) /\ Places(c.todo, 1)
    BY <2>3, SimplePlain, SimplePlaces
  <2> QED BY <1>1, <2>1, <2>2, <2>3, <2>4, <2>5
<1>3. CASE VerifyCommand(t)
  <2>1. PICK host \in Hosts \ Protected, g \in Offered :
            Begin(t, [host |-> host, op |-> "verify", gcos |-> <<g>>,
                      todo |-> Verify(1)])
    BY <1>3 DEF VerifyCommand
  <2>2. PICK c : c = [host |-> host, op |-> "verify", gcos |-> <<g>>,
                      todo |-> Verify(1)]
    OBVIOUS
  <2>3. /\ DOMAIN c = {"host", "op", "gcos", "todo"}
        /\ c.host = host /\ c.gcos = <<g>> /\ c.todo = Verify(1)
        /\ c.op = "verify"
    BY <2>2
  <2>4. /\ {"host", "gcos", "todo"} \subseteq DOMAIN c /\ DOMAIN c \subseteq DOMAIN Idle
        /\ {"now", "began", "child"} \cap DOMAIN c = {} /\ c.host \in Hosts
        /\ "op" \in DOMAIN c /\ c.op # Arrives /\ "fault" \notin DOMAIN c
    BY <2>3 DEF Idle, Arrives
  <2>5. Plain(c.todo) /\ Derives \notin Range(c.todo) /\ Places(c.todo, 1)
    BY <2>3, SimplePlain, SimplePlaces
  <2> QED BY <1>1, <2>1, <2>2, <2>3, <2>4, <2>5
<1> QED BY <1>2, <1>3

StartsCall(t) ==
    \/ PrepareToolCall(t) \/ PrepareSubcall(t) \/ AuthorizeIncoming(t)
    \/ DeriveSigned(t) \/ DerivePreview(t) \/ VerifyCommand(t) \/ AuthorizeState(t)

LEMMA StartsMean ==
    ASSUME FlowInv, BoundaryInv, NEW t \in Threads, StartsCall(t)
    PROVE  \E c : /\ Begin(t, c) /\ WellMade(c)
                  /\ Opens(c) \/ \E meta \in Arriving : Takes(c, meta)
<1>1. CASE PrepareToolCall(t) \/ PrepareSubcall(t)
  <2>1. PICK attach \in Attaches : Prepare(t, attach)
    BY <1>1 DEF PrepareToolCall, PrepareSubcall, Attaches
  <2> QED BY <2>1, PrepareStarts
<1>2. CASE AuthorizeIncoming(t)
  BY <1>2, IncomingStarts
<1>3. CASE DeriveSigned(t) \/ DerivePreview(t)
  BY <1>3, ProgramStarts
<1>4. CASE VerifyCommand(t) \/ AuthorizeState(t)
  BY <1>4, LookStarts
<1> QED BY <1>1, <1>2, <1>3, <1>4 DEF StartsCall

-----------------------------------------------------------------------------
(* The boundaries' own stages *)

\* authorize_incoming lets pass what the client says nothing of.
LEMMA LetsPass ==
    ASSUME FlowInv, BoundaryInv, NEW t \in Threads, call[t].todo # <<>>,
           Head(call[t].todo) = Extracts, Pass(t, call[t].now, <<>>),
           clock' = clock, wire' = wire
    PROVE  FlowInv' /\ BoundaryInv'
<1> DEFINE d == [host |-> call[t].host, gcos |-> <<>>, child |-> call[t].child,
                 began |-> call[t].began, at |-> clock]
<1>1. PICK c : c = call[t]
  OBVIOUS
<1>2. /\ CallsShaped /\ Flow(c, clock) /\ Listed(c.todo) /\ c.todo # <<>>
      /\ Sending(c) /\ Head(c.todo) = Extracts /\ clock \in 0 .. MaxClock
      /\ \A g \in issued : Rooted(g)
  BY <1>1 DEF FlowInv, BoundaryInv, Flow, Legal
<1>3. 1 \in DOMAIN c.todo /\ c.todo[1] = Extracts
  BY <1>2, TailFacts
<1>4. Len(c.todo) = 1 /\ Extracts \in Range(c.todo)
  BY <1>2, <1>3 DEF Sending, Sends, Range
<1>5. Tail(c.todo) = <<>> /\ c.child = NONE
  BY <1>2, <1>4, TailFacts DEF Sending
<1>6. /\ CallsShaped' /\ \A u \in Threads \ {t} : call'[u] = call[u]
      /\ call'[t].todo = <<>> /\ issued' = issued
      /\ decisions' = Append(decisions, d)
  BY <1>1, <1>2, <1>5, PassEnds
<1>7. /\ d.host = c.host /\ d.child = c.child /\ d.began = c.began /\ d.at = clock
      /\ Range(d.gcos) = {}
  BY <1>1 DEF Range
<1> HIDE DEF d
<1>8. Settled(d, clock)
  <2>1. c.host \in Hosts /\ c.began \in 0 .. clock /\ clock \in 0 .. clock
    BY <1>2, RuntimeBounds DEF Flow
  <2> QED BY <1>5, <1>7, <2>1 DEF Settled
<1>9. FlowInv'
  BY <1>2, <1>6, <1>8, ThreadStep
<1> QED BY <1>6, <1>9, SilentStep

LEMMA ExtractStep ==
    ASSUME FlowInv, BoundaryInv, NEW t \in Threads, Extract(t)
    PROVE  FlowInv' /\ BoundaryInv'
<1>1. PICK meta : meta = call[t].meta
  OBVIOUS
<1>2. PICK gcos : gcos = IF meta.parent = NONE THEN <<meta.gco>>
                         ELSE <<meta.parent, meta.gco>>
  OBVIOUS
<1>3. /\ call[t].todo # <<>> /\ Head(call[t].todo) = Extracts
      /\ clock' = clock /\ wire' = wire
  BY DEF Extract, At, Extracts
<1>4. CASE \E fault, of : Deny(t, fault, of)
  <2>1. FlowInv'
    BY <1>3, <1>4, DenyStep
  <2>2. call'[t].todo = <<>> /\ \A u \in Threads \ {t} : call'[u] = call[u]
    BY <1>4, DenyMoves DEF Ends
  <2> QED BY <1>3, <2>1, <2>2, SilentStep
<1>5. CASE Pass(t, call[t].now, <<>>)
  BY <1>3, <1>5, LetsPass
<1>6. CASE /\ Advertised(meta) /\ ExtractFault(call[t].host, meta) = "OK"
           /\ call' = [call EXCEPT ![t].gcos = gcos,
                                   ![t].fresh = Fresh(gcos),
                                   ![t].todo = IncomingProgram(gcos)]
           /\ UNCHANGED <<decisions, issued, begun>>
  <2>1. PICK c : c = call[t]
    OBVIOUS
  <2>2. PICK d : d = call'[t]
    OBVIOUS
  <2>3. /\ CallsShaped /\ Flow(c, clock) /\ Sending(c) /\ c.todo # <<>>
        /\ Head(c.todo) = Extracts /\ Listed(c.todo) /\ clock \in 0 .. MaxClock
        /\ \A g \in issued : Rooted(g)
    BY <1>3, <2>1 DEF FlowInv, BoundaryInv, Flow, Legal
  <2>4. Extracts \in Range(c.todo)
    BY <2>3, RangeOfTail
  <2>5. c.child = NONE /\ IsMeta(meta)
    BY <1>1, <1>6, <2>1, <2>3, <2>4 DEF Sending, Carries, Advertised
  <2>6. meta.gco # NONE
    BY <1>6 DEF ExtractFault
  <2>7. Sound(meta.gco) /\ (meta.parent # NONE => Sound(meta.parent))
    BY <2>5, <2>6 DEF IsMeta
  <2>8. /\ CallsShaped' /\ \A u \in Threads \ {t} : call'[u] = call[u]
        /\ d.gcos = gcos /\ d.todo = IncomingProgram(gcos)
        /\ d.host = c.host /\ d.began = c.began /\ d.now = c.now
        /\ d.child = c.child /\ d.meta = c.meta
    <3>1. {"gcos", "fresh", "todo", "host", "began", "now", "child", "meta"}
              \subseteq DOMAIN call[t] /\ t \in DOMAIN call
      BY <2>3 DEF CallsShaped, Idle
    <3>2. PICK fresh, todo : fresh = Fresh(gcos) /\ todo = IncomingProgram(gcos)
      OBVIOUS
    <3>3. call' = [call EXCEPT ![t].gcos = gcos, ![t].fresh = fresh, ![t].todo = todo]
      BY <1>6, <3>2
    <3>4. DOMAIN call' = DOMAIN call /\ \A u \in Threads \ {t} : call'[u] = call[u]
      BY <2>3, <3>3 DEF CallsShaped
    <3>5. call'[t] = [call[t] EXCEPT !.gcos = gcos, !.fresh = fresh, !.todo = todo]
      BY <3>1, <3>3
    <3>6. CallsShaped'
      BY <2>3, <3>4, <3>5 DEF CallsShaped
    <3> QED BY <2>1, <2>2, <3>1, <3>2, <3>4, <3>5, <3>6
  <2>9. /\ Plain(d.todo) /\ Derives \notin Range(d.todo)
        /\ Len(gcos) \in 1 .. 2 /\ DOMAIN gcos = 1 .. Len(gcos)
        /\ \A k \in DOMAIN gcos : Sound(gcos[k]) /\ <<"check", k>> \in Range(d.todo)
    <3>1. CASE meta.parent = NONE
      <4>1. Len(gcos) = 1 /\ DOMAIN gcos = 1 .. 1 /\ gcos[1] = meta.gco
        BY <1>2, <3>1
      <4>2. d.todo = AuthorizeProgram(1)
        BY <2>8, <4>1 DEF IncomingProgram
      <4>3. Plain(d.todo) /\ Derives \notin Range(d.todo)
        BY <4>2, SimplePlain
      <4> QED BY <2>7, <4>1, <4>3 DEF Plain, Check1
    <3>2. CASE meta.parent # NONE
      <4>1. /\ Len(gcos) = 2 /\ DOMAIN gcos = 1 .. 2
            /\ gcos[1] = meta.parent /\ gcos[2] = meta.gco
        BY <1>2, <3>2
      <4>2. d.todo = SubcallProgram \o AuthorizeProgram(2)
        BY <2>8, <4>1 DEF IncomingProgram
      <4>3. Plain(d.todo) /\ Derives \notin Range(d.todo) /\ Check2 \in Range(d.todo)
        BY <4>2, IncomingPlain
      <4> QED BY <2>7, <3>2, <4>1, <4>3 DEF Plain, Check1, Check2
    <3> QED BY <3>1, <3>2
  <2>10. Flow(d, clock)
    <3>1. /\ Legal(d.todo) /\ d.todo # <<>> /\ Head(d.todo) = <<"sample", 1>>
      BY <2>9 DEF Plain
    <3>2. (\A k \in 1 .. 2 : Head(d.todo) # <<"check", k>>) /\ Head(d.todo)[1] \notin Attests
      BY <3>1 DEF Attests
    <3>3. d.host \in Hosts /\ d.began \in 0 .. clock /\ d.now \in 0 .. clock
      BY <2>3, <2>8 DEF Flow
    <3>4. Len(d.gcos) \in 0 .. 2 /\ d.child = NONE
      BY <2>5, <2>8, <2>9
    <3> QED BY <2>3, <2>8, <2>9, <3>1, <3>2, <3>3, <3>4, FlowBegins
  <2>11. Sending(d)
    <3>1. Sends(d.todo) /\ ~Ships(d.todo) /\ ~Carries(d.todo)
      BY <2>9, PlainSends
    <3>2. Head(d.todo)[1] \notin Attaches /\ Extracts \notin Range(d.todo)
      BY <2>9 DEF Plain, Attaches
    <3> QED BY <3>1, <3>2 DEF Sending
  <2>12. FlowInv'
    BY <1>3, <1>6, <2>2, <2>3, <2>8, <2>10, ThreadStep
  <2> QED BY <1>3, <2>2, <2>8, <2>11, <2>12, SilentStep
<1>7. \/ \E fault, of : Deny(t, fault, of)
      \/ Pass(t, call[t].now, <<>>)
      \/ /\ Advertised(meta) /\ ExtractFault(call[t].host, meta) = "OK"
         /\ call' = [call EXCEPT ![t].gcos = gcos,
                                 ![t].fresh = Fresh(gcos),
                                 ![t].todo = IncomingProgram(gcos)]
         /\ UNCHANGED <<decisions, issued, begun>>
  BY <1>1, <1>2 DEF Extract
<1> QED BY <1>4, <1>5, <1>6, <1>7

\* The child was compared with its parent just before it is sent.
LEMMA AttachStep ==
    ASSUME FlowInv, BoundaryInv, NEW t \in Threads, Attach(t)
    PROVE  FlowInv' /\ BoundaryInv'
<1>1. PICK attach \in Attaches :
          LET child  == call[t].gcos[2]
              parent == IF attach = "attach" THEN NONE ELSE call[t].gcos[1]
              fault  == AttachFault(call[t].host, child, parent)
          IN  /\ At(t, <<attach, 1>>)
              /\ Outcome(t, fault, child)
              /\ wire' = IF fault # "OK" THEN wire
                         ELSE wire \cup {Attached(call[t].meta, child, parent)}
              /\ UNCHANGED <<clock, entries>>
  BY DEF Attach, Attaches
<1>2. PICK c : c = call[t]
  OBVIOUS
<1>3. PICK child, parent :
          /\ child = c.gcos[2]
          /\ parent = IF attach = "attach" THEN NONE ELSE c.gcos[1]
  OBVIOUS
<1>4. PICK m : m = Attached(c.meta, child, parent)
  OBVIOUS
<1>5. /\ c.todo # <<>> /\ Head(c.todo) = <<attach, 1>> /\ clock' = clock
      /\ wire' = wire \/ wire' = wire \cup {m}
      /\ \E fault : Outcome(t, fault, child)
  BY <1>1, <1>2, <1>3, <1>4 DEF At
<1>6. /\ Flow(c, clock) /\ Sending(c) /\ Listed(c.todo)
  BY <1>2, <1>5 DEF FlowInv, BoundaryInv, Flow, Legal
<1>7. Head(c.todo)[1] = attach
  BY <1>5
<1>8. /\ Head(c.todo)[1] \in Attaches
      /\ Head(c.todo)[1] \notin Attests \cup {"request", "print", "sample"}
      /\ \A k : Head(c.todo) # <<"check", k>>
      /\ Head(c.todo) # Derives /\ Head(c.todo) # Validates
  BY <1>5, <1>7 DEF Attaches, Attests, Derives, Validates
<1>9. FlowInv'
  BY <1>2, <1>5, <1>8, OutcomeStep
<1>10. /\ Linked(c.gcos[1], c.gcos[2]) /\ Len(c.gcos) = 2
       /\ c.meta = NONE \/ IsMeta(c.meta)
  <2>1. /\ 1 \in DOMAIN c.todo /\ c.todo[1] = Head(c.todo)
        /\ \A s \in Range(c.todo) : s = Head(c.todo) \/ s \in Range(Tail(c.todo))
        /\ Head(c.todo) \in Range(c.todo)
    BY <1>5, <1>6, TailFacts, RangeOfTail
  <2>2. Len(c.todo) = 1
    BY <1>6, <1>8, <2>1 DEF Sending, Sends
  <2>3. Tail(c.todo) = <<>>
    BY <1>5, <1>6, <2>2, TailFacts
  <2>4. Derives \notin Range(c.todo)
    <3>1. Range(<<>>) = {}
      BY DEF Range
    <3> QED BY <1>8, <2>1, <2>3, <3>1
  <2>5. Ships(c.todo) /\ Carries(c.todo)
    BY <1>8, <2>1 DEF Ships, Carries
  <2> QED BY <1>6, <1>8, <2>4, <2>5 DEF Sending
<1>11. Sound(c.gcos[1]) /\ Sound(c.gcos[2])
  <2>1. 1 \in DOMAIN c.gcos /\ 2 \in DOMAIN c.gcos
    BY <1>6, <1>10 DEF Flow
  <2> QED BY <1>6, <2>1 DEF Flow
<1>12. IsMeta(m) /\ (m.parent # NONE => Linked(m.parent, m.gco))
  <2>1. PICK base : base = IF c.meta = NONE THEN EmptyMeta ELSE c.meta
    OBVIOUS
  <2>2. DOMAIN base = DOMAIN EmptyMeta
    BY <1>10, <2>1 DEF IsMeta
  <2>3. m = [base EXCEPT !.gco = child, !.parent = parent]
    BY <1>4, <2>1 DEF Attached
  <2>4. {"gco", "parent"} \subseteq DOMAIN base
    BY <2>2 DEF EmptyMeta
  <2>5. DOMAIN m = DOMAIN EmptyMeta /\ m.gco = child /\ m.parent = parent
    BY <2>2, <2>3, <2>4
  <2> QED BY <1>3, <1>10, <1>11, <2>5 DEF IsMeta
<1>13. /\ \A u \in Threads \ {t} : call'[u] = call[u]
       /\ call'[t].todo # <<>> => Sending(call'[t])
  <2>1. PICK fault : Outcome(t, fault, child)
    BY <1>5
  <2>2. /\ \A u \in Threads \ {t} : call'[u] = call[u]
        /\ Ends(t) \/ Goes(t, call[t].gcos) \/ Allows(t, call[t].gcos)
    BY <1>2, <1>5, <2>1, OutcomeMoves
  <2>3. CASE Goes(t, call[t].gcos)
    BY <1>2, <1>5, <1>8, <2>2, <2>3, GoesOn
  <2> QED BY <2>2, <2>3 DEF Ends, Allows
<1>14. \A u \in Threads : call'[u].todo # <<>> => Sending(call'[u])
  BY <1>13 DEF BoundaryInv
<1>15. \A s \in wire' : IsMeta(s) /\ (s.parent # NONE => Linked(s.parent, s.gco))
  BY <1>5, <1>12 DEF BoundaryInv
<1> QED BY <1>9, <1>14, <1>15 DEF BoundaryInv

\* gco derive attests its child with a key of its own, or with a preview.
LEMMA AttestStep ==
    ASSUME FlowInv, BoundaryInv, NEW t \in Threads, SignPem(t) \/ Preview(t)
    PROVE  FlowInv' /\ BoundaryInv'
<1>1. CASE SignPem(t)
  <2>1. /\ call[t].todo # <<>> /\ Head(call[t].todo) = <<"sign_pem", 1>>
        /\ clock' = clock /\ wire' = wire
    BY <1>1 DEF SignPem, At
  <2>2. Head(call[t].todo)[1] \in Attests /\ Head(call[t].todo)[1] # "preview"
    BY <2>1 DEF Attests
  <2>3. PICK child : child = call[t].gcos[2]
    OBVIOUS
  <2>4. PICK key, a :
            /\ a = PemAttestation(call[t].gcos[1].model_identity, child, key)
            /\ Mint(t, a) /\ issued' = issued \cup {Attested(t, a)}
    BY <1>1, <2>3 DEF SignPem
  <2>5. child.expires_at \in Int
    BY <2>1, <2>2, <2>3 DEF FlowInv, Flow, IsAttested, IsGCO
  <2>6. Second * (child.expires_at \div Second) \in Int
    BY <2>5, BoundaryBounds
  <2>7. IsAttestation(a)
    BY <2>4, <2>6 DEF PemAttestation, IsAttestation, IsDate
  <2>8. FlowInv'
    BY <2>1, <2>2, <2>4, <2>7, MintStep
  <2> QED BY <2>1, <2>2, <2>4, <2>8, MintSends
<1>2. CASE Preview(t)
  <2>1. /\ call[t].todo # <<>> /\ Head(call[t].todo) = <<"preview", 1>>
        /\ clock' = clock /\ wire' = wire /\ issued' = issued
        /\ Mint(t, PreviewAttestation)
    BY <1>2 DEF Preview, At
  <2>2. Head(call[t].todo)[1] \in Attests
    BY <2>1 DEF Attests
  <2>3. IsAttestation(PreviewAttestation) /\ Dud(PreviewAttestation)
    BY DEF PreviewAttestation, IsAttestation, IsDate, Dud
  <2>4. FlowInv'
    BY <2>1, <2>2, <2>3, MintStep
  <2> QED BY <2>1, <2>2, <2>4, MintSends
<1> QED BY <1>1, <1>2

\* The preview is allowed with its parent, which was verified.
LEMMA ShowStep ==
    ASSUME FlowInv, BoundaryInv, NEW t \in Threads, ShowPreview(t)
    PROVE  FlowInv' /\ BoundaryInv'
<1> DEFINE d == [host |-> call[t].host, gcos |-> <<call[t].gcos[1]>>,
                 child |-> call[t].child, began |-> call[t].began, at |-> clock]
<1>1. PICK c : c = call[t]
  OBVIOUS
<1>2. /\ c.todo # <<>> /\ Head(c.todo) = Prints /\ clock' = clock /\ wire' = wire
      /\ Pass(t, c.now, <<c.gcos[1]>>)
  BY <1>1 DEF ShowPreview, At, Prints
<1>3. /\ CallsShaped /\ Flow(c, clock) /\ Legal(c.todo) /\ Listed(c.todo)
      /\ Sending(c) /\ clock \in 0 .. MaxClock /\ \A g \in issued : Rooted(g)
  BY <1>1, <1>2 DEF FlowInv, BoundaryInv, Flow, Legal
<1>4. Tail(c.todo) = <<>>
  BY <1>2, <1>3, PrintsLast
<1>5. \A s \in Range(c.todo) : s = Prints
  <2>1. Range(<<>>) = {}
    BY DEF Range
  <2> QED BY <1>2, <1>3, <1>4, <2>1, RangeOfTail
<1>6. Prints \in Range(c.todo)
  BY <1>2, <1>3, RangeOfTail
<1>7. /\ Check1 \notin Range(c.todo) /\ Check2 \notin Range(c.todo)
      /\ Derives \notin Range(c.todo) /\ Ships(c.todo)
  BY <1>5, <1>6 DEF Check1, Check2, Derives, Prints, Ships
<1>8. Len(c.gcos) = 2
  BY <1>3, <1>7 DEF Sending
<1>9. Sound(c.gcos[1]) /\ Verified(c.gcos[1], c.began, clock)
  <2>1. 1 \in DOMAIN c.gcos /\ 1 # 2
    BY <1>3, <1>8 DEF Flow
  <2> QED BY <1>3, <1>7, <2>1 DEF Flow, Check1
<1>10. c.child # NONE => Backed(c.child)
  BY <1>3, <1>7 DEF Flow, Backed
<1>11. /\ CallsShaped' /\ \A u \in Threads \ {t} : call'[u] = call[u]
       /\ call'[t].todo = <<>> /\ issued' = issued
       /\ decisions' = Append(decisions, d)
  <2>1. PICK gcos : gcos = <<call[t].gcos[1]>>
    OBVIOUS
  <2>2. /\ Pass(t, c.now, gcos) /\ Listed(call[t].todo) /\ call[t].todo # <<>>
        /\ Tail(call[t].todo) = <<>> /\ CallsShaped
    BY <1>1, <1>2, <1>3, <1>4, <2>1
  <2> QED BY <2>1, <2>2, PassEnds
<1>12. /\ d.host = c.host /\ d.child = c.child /\ d.began = c.began /\ d.at = clock
       /\ Range(d.gcos) = {c.gcos[1]}
  BY <1>1 DEF Range
<1> HIDE DEF d
<1>13. Settled(d, clock)
  <2>1. c.host \in Hosts /\ c.began \in 0 .. clock /\ clock \in 0 .. clock
    BY <1>3, RuntimeBounds DEF Flow
  <2>2. \A g \in Range(d.gcos) : Sound(g) /\ Verified(g, d.began, d.at)
    BY <1>9, <1>12
  <2> QED BY <1>10, <1>12, <2>1, <2>2 DEF Settled
<1>14. FlowInv'
  BY <1>2, <1>3, <1>11, <1>13, ThreadStep
<1> QED BY <1>2, <1>11, <1>14, SilentStep

LEMMA InitSends == BInit => FlowInv /\ BoundaryInv
<1> SUFFICES ASSUME BInit PROVE FlowInv /\ BoundaryInv
  OBVIOUS
<1>1. Init /\ wire = {}
  BY DEF BInit
<1>2. \A t \in Threads : call[t].todo = <<>>
  BY <1>1 DEF Init, Idle
<1> QED BY <1>1, <1>2, InitFlow DEF BoundaryInv

LEMMA StepSends == FlowInv /\ BoundaryInv /\ [BNext]_bvars => FlowInv' /\ BoundaryInv'
<1> SUFFICES ASSUME FlowInv, BoundaryInv, [BNext]_bvars PROVE FlowInv' /\ BoundaryInv'
  OBVIOUS
<1>1. ASSUME call' = call, wire' = wire PROVE BoundaryInv'
  BY <1>1 DEF BoundaryInv
<1>2. CASE UNCHANGED bvars
  <2>1. UNCHANGED vars /\ call' = call /\ wire' = wire
    BY <1>2 DEF bvars, vars
  <2> QED BY <1>1, <2>1, StepFlow
<1>3. CASE Tick /\ UNCHANGED wire
  <2>1. call' = call /\ wire' = wire
    BY <1>3 DEF Tick
  <2> QED BY <1>1, <1>3, <2>1, TickStep
<1>4. ASSUME NEW t \in Threads, StartsCall(t), wire' = wire
      PROVE  FlowInv' /\ BoundaryInv'
  BY <1>4, StartsMean, CallStarts
<1>5. ASSUME NEW t \in Threads, Stage(t), wire' = wire
      PROVE  FlowInv' /\ BoundaryInv'
  BY <1>5, StageStep, StageSends
<1> QED BY <1>2, <1>3, <1>4, <1>5, ExtractStep, AttachStep, AttestStep, ShowStep
        DEF BNext, StartsCall

(***************************************************************************)
(* Through the MCP boundaries and gco derive as well, every GCO of an      *)
(* allowed decision holds at most the authority of a root.                 *)
(***************************************************************************)
THEOREM BoundaryDecisionsAreRooted == BSpec => []RootedAuthority
<1>1. FlowInv => RootedAuthority
  BY FlowRooted
<1> QED BY InitSends, StepSends, <1>1, PTL DEF BSpec

(***************************************************************************)
(* Nor do the authorities, that of gco derive included, attest more.       *)
(***************************************************************************)
THEOREM BoundaryAttestedAreRooted == BSpec => []IssuedIsRooted
<1>1. FlowInv => IssuedIsRooted
  BY FlowRooted
<1> QED BY InitSends, StepSends, <1>1, PTL DEF BSpec

(***************************************************************************)
(* attach(): a parent travels only with the child it was compared with,    *)
(* whatever the base _meta carried.                                        *)
(***************************************************************************)
THEOREM ParentsTravelWithChildren == BSpec => []SentParentIsParent
<1>1. BoundaryInv => SentParentIsParent
  BY DEF BoundaryInv, SentParentIsParent, Linked
<1> QED BY InitSends, StepSends, <1>1, PTL DEF BSpec

(***************************************************************************)
(* A preview of gco derive backs no decision.                              *)
(***************************************************************************)
THEOREM PreviewsBackNothing == BSpec => []PreviewBacksNothing
<1>1. FlowInv => PreviewBacksNothing
  <2> SUFFICES ASSUME FlowInv, NEW i \in DOMAIN decisions,
                      NEW g \in Range(decisions[i].gcos)
               PROVE  g.attestation # PreviewAttestation
    BY DEF PreviewBacksNothing
  <2>1. PICK now : Passes(g, now)
    BY DEF FlowInv, Settled, Verified
  <2>2. Dud(PreviewAttestation)
    BY DEF PreviewAttestation, Dud
  <2> QED BY <2>1, <2>2, DudFails
<1> QED BY InitSends, StepSends, <1>1, PTL DEF BSpec

-----------------------------------------------------------------------------
(* Types and single use, through the boundaries too *)

\* What is left of a program finds its GCOs, whether or not one was derived.
LEMMA PlacesTail ==
    ASSUME NEW p, Listed(p), p # <<>>, NEW m \in 0 .. 2, NEW n \in 0 .. 2,
           Places(p, m), (n = m /\ Head(p) # Derives) \/ n = 2
    PROVE  Places(Tail(p), n)
<1>1. PICK q : q = Tail(p)
  OBVIOUS
<1>2. /\ DOMAIN q = 1 .. Len(p) - 1 /\ DOMAIN p = 1 .. Len(p) /\ Len(p) \in Nat
      /\ Head(p) = p[1]
      /\ \A i \in DOMAIN q : i + 1 \in DOMAIN p /\ q[i] = p[i + 1] /\ i \in Nat
      /\ \A i \in DOMAIN p : i # 1 => i - 1 \in DOMAIN q /\ p[i] = q[i - 1]
  BY <1>1, TailFacts
<1>3. ASSUME NEW i \in DOMAIN q, q[i][2] > n
      PROVE  \E j \in DOMAIN q : j < i /\ q[j] = Derives
  <2>1. i + 1 \in DOMAIN p /\ i \in Nat /\ p[i + 1][2] \in 0 .. 2 /\ p[i + 1][2] > n
    BY <1>2, <1>3 DEF Places
  <2>2. p[i + 1][2] > m /\ Head(p) # Derives
    BY <2>1
  <2>3. PICK j \in DOMAIN p : j < i + 1 /\ p[j] = Derives
    BY <2>1, <2>2 DEF Places
  <2>4. j # 1
    BY <1>2, <2>2, <2>3
  <2>5. j - 1 \in DOMAIN q /\ q[j - 1] = Derives /\ j - 1 < i
    BY <1>2, <2>1, <2>3, <2>4
  <2> QED BY <2>5
<1>4. \A i \in DOMAIN q : q[i][2] \in 0 .. 2
  BY <1>2 DEF Places
<1> QED BY <1>1, <1>3, <1>4 DEF Places

\* A step of one thread.
LEMMA HeldStep ==
    ASSUME HeldInv, NEW t \in Threads, \A u \in Threads \ {t} : call'[u] = call[u],
           begun' \in 0 .. MaxCalls,
           DOMAIN entries' = Hosts, \A h \in Hosts : Remembers(entries'[h]),
           call'[t].todo # <<>> =>
               /\ Places(call'[t].todo, Len(call'[t].gcos))
               /\ call'[t].host \in Protected => Prints \notin Range(call'[t].todo)
    PROVE  HeldInv'
<1>1. \A u \in Threads : call'[u].todo # <<>> =>
          /\ Places(call'[u].todo, Len(call'[u].gcos))
          /\ call'[u].host \in Protected => Prints \notin Range(call'[u].todo)
  BY DEF HeldInv
<1> QED BY <1>1 DEF HeldInv

LEMMA HeldGoes ==
    ASSUME FlowInv, HeldInv, NEW t \in Threads, call[t].todo # <<>>, NEW gcos,
           Goes(t, gcos),
           (gcos = call[t].gcos /\ Head(call[t].todo) # Derives) \/ Len(gcos) = 2
    PROVE  /\ Places(call'[t].todo, Len(call'[t].gcos))
           /\ call'[t].host \in Protected => Prints \notin Range(call'[t].todo)
<1>1. PICK c : c = call[t]
  OBVIOUS
<1>2. PICK e : e = call'[t]
  OBVIOUS
<1>3. e.todo = Tail(c.todo) /\ e.gcos = gcos /\ e.host = c.host /\ c.todo # <<>>
  BY <1>1, <1>2 DEF Goes
<1>4. /\ Listed(c.todo) /\ Len(c.gcos) \in 0 .. 2 /\ Places(c.todo, Len(c.gcos))
      /\ c.host \in Protected => Prints \notin Range(c.todo)
  BY <1>1, <1>3 DEF FlowInv, HeldInv, Flow, Legal
<1>5. Range(e.todo) \subseteq Range(c.todo)
  BY <1>3, <1>4, RangeOfTail
<1>6. PICK m, n : m = Len(c.gcos) /\ n = Len(gcos)
  OBVIOUS
<1>7. m \in 0 .. 2 /\ n \in 0 .. 2 /\ ((n = m /\ Head(c.todo) # Derives) \/ n = 2)
  <2>1. m \in 0 .. 2
    BY <1>4, <1>6
  <2>2. (n = m /\ Head(c.todo) # Derives) \/ n = 2
    BY <1>1, <1>6, Zenon
  <2> QED BY <2>1, <2>2
<1>8. Places(e.todo, n)
  BY <1>3, <1>4, <1>6, <1>7, PlacesTail
<1> QED BY <1>2, <1>3, <1>4, <1>5, <1>6, <1>8

LEMMA HeldStage ==
    ASSUME FlowInv, HeldInv, NEW t \in Threads, Stage(t)
    PROVE  HeldInv'
<1>1. Moves(t)
  BY StageMoves
<1>2. /\ call[t].todo # <<>> /\ begun' \in 0 .. MaxCalls
      /\ \A u \in Threads \ {t} : call'[u] = call[u]
  BY <1>1 DEF Moves, HeldInv
<1>3. call'[t].todo # <<>> =>
          /\ Places(call'[t].todo, Len(call'[t].gcos))
          /\ call'[t].host \in Protected => Prints \notin Range(call'[t].todo)
  <2>1. CASE Ends(t) \/ Allows(t, call[t].gcos)
    BY <2>1 DEF Ends, Allows
  <2>2. CASE Goes(t, call[t].gcos) /\ Finds(t)
    BY <1>2, <2>2, HeldGoes DEF Finds
  <2>3. ASSUME NEW child, Goes(t, <<call[t].gcos[1], child>>)
        PROVE  /\ Places(call'[t].todo, Len(call'[t].gcos))
               /\ call'[t].host \in Protected => Prints \notin Range(call'[t].todo)
    <3>1. PICK gcos : gcos = <<call[t].gcos[1], child>>
      OBVIOUS
    <3>2. Len(gcos) = 2 /\ Goes(t, gcos)
      BY <2>3, <3>1
    <3> QED BY <1>2, <3>2, HeldGoes
  <2> QED BY <1>1, <2>1, <2>2, <2>3 DEF Moves
<1>4. DOMAIN entries' = Hosts /\ \A h \in Hosts : Remembers(entries'[h])
  <2>1. CASE \E i \in 1 .. 2 : Head(call[t].todo) = <<"check", i>>
    <3>1. PICK i \in 1 .. 2 : CheckAttestation(t, i)
      BY <1>1, <2>1 DEF Moves
    <3>2. i \in DOMAIN call[t].gcos
      BY <3>1, CheckPlaced
    <3> QED BY <3>1, <3>2, CheckCaches DEF HeldInv
  <2>2. CASE \A i \in 1 .. 2 : Head(call[t].todo) # <<"check", i>>
    BY <1>1, <2>2 DEF Moves, HeldInv
  <2> QED BY <2>1, <2>2
<1> QED BY <1>2, <1>3, <1>4, HeldStep

\* A step of one thread that checks nothing.
LEMMA QuietOnce ==
    ASSUME FlowInv, OnceInv, NEW t \in Threads, UNCHANGED <<clock, entries>>,
           \A u \in Threads \ {t} : call'[u] = call[u],
           NEW c, c = call[t], NEW e, e = call'[t],
           Checked(e) \subseteq Checked(c), Checked(e) # {} => e.host = c.host,
           \/ decisions' = decisions
           \/ /\ Checked(e) = {}
              /\ \E d : /\ decisions' = Append(decisions, d)
                        /\ d.host = c.host /\ d.at = clock
                        /\ Backing(d) \subseteq Checked(c)
    PROVE  OnceInv'
<1>1. PICK calls, caches, made, calls2, made2, new :
          /\ calls = call /\ caches = entries /\ made = decisions
          /\ calls2 = call' /\ made2 = decisions' /\ new = {}
  OBVIOUS
<1>2. Once(calls, caches, made, clock) /\ Listed(made)
  BY <1>1 DEF OnceInv, FlowInv
<1>3. /\ c = calls[t] /\ e = calls2[t]
      /\ \A u \in Threads \ {t} : calls2[u] = calls[u]
      /\ Checked(e) \subseteq Checked(c) \cup new
      /\ \A d : Backing(d) \subseteq Checked(c) => Backing(d) \subseteq Checked(c) \cup new
  BY <1>1
<1>4. ChecksOnce(calls, caches, made, calls2, caches, made2, clock, t, c, e, new)
  <2>1. \A g \in new : FALSE
    BY <1>1
  <2>2. \/ made2 = made
        \/ /\ Checked(e) = {}
           /\ \E d : /\ made2 = Append(made, d) /\ d.host = c.host /\ d.at = clock
                     /\ Backing(d) \subseteq Checked(c) \cup new
    BY <1>1, <1>3
  <2> QED BY <1>3, <2>1, <2>2 DEF ChecksOnce
<1>5. Once(calls2, caches, made2, clock)
  BY <1>2, <1>4, OnceStep
<1> QED BY <1>1, <1>5 DEF OnceInv

LEMMA OnceGoes ==
    ASSUME FlowInv, HeldInv, OnceInv, NEW t \in Threads, call[t].todo # <<>>,
           \A i \in 1 .. 2 : Head(call[t].todo) # <<"check", i>>,
           UNCHANGED <<clock, entries, begun>>,
           \A u \in Threads \ {t} : call'[u] = call[u],
           \/ Ends(t)
           \/ /\ Goes(t, call[t].gcos) \/ Allows(t, call[t].gcos)
              /\ Head(call[t].todo) # Derives
           \/ /\ Head(call[t].todo)[1] \in Attests
              /\ \E child : Goes(t, <<call[t].gcos[1], child>>)
    PROVE  HeldInv' /\ OnceInv'
<1>1. PICK c : c = call[t]
  OBVIOUS
<1>2. PICK e : e = call'[t]
  OBVIOUS
<1>3. /\ Flow(c, clock) /\ c.todo # <<>> /\ Len(c.gcos) \in 0 .. 2
      /\ DOMAIN c.gcos = 1 .. Len(c.gcos)
      /\ c.host \in Protected => Prints \notin Range(c.todo)
      /\ begun' \in 0 .. MaxCalls
      /\ DOMAIN entries' = Hosts /\ \A h \in Hosts : Remembers(entries'[h])
  BY <1>1 DEF FlowInv, HeldInv, Flow
<1>4. \A k \in DOMAIN c.gcos : Head(c.todo) # <<"check", k>>
  <2>1. PICK n : n = Len(c.gcos)
    OBVIOUS
  <2>2. n \in 0 .. 2 /\ DOMAIN c.gcos = 1 .. n
    BY <1>3, <2>1, Zenon
  <2>3. 1 .. n \subseteq 1 .. 2
    BY <2>2
  <2> QED BY <1>1, <2>2, <2>3, Zenon
<1>5. CASE Ends(t)
  <2>1. e.todo = <<>> /\ Checked(e) = {} /\ decisions' = decisions
    BY <1>2, <1>5 DEF Ends, Checked
  <2>2. HeldInv'
    BY <1>2, <1>3, <2>1, HeldStep
  <2> QED BY <1>1, <1>2, <2>1, <2>2, QuietOnce
<1>6. CASE Allows(t, c.gcos)
  <2>1. PICK d : /\ decisions' = Append(decisions, d) /\ d.gcos = c.gcos
                 /\ d.host = c.host /\ d.at = clock
    BY <1>1, <1>6 DEF Allows
  <2>2. e.todo = <<>> /\ Tail(c.todo) = <<>> /\ Checked(e) = {}
    BY <1>1, <1>2, <1>6 DEF Allows, Checked
  <2>3. Backing(d) \subseteq Checked(c)
    BY <1>3, <1>4, <2>1, <2>2, CheckedDecides
  <2>4. HeldInv'
    BY <1>2, <1>3, <2>2, HeldStep
  <2> QED BY <1>1, <1>2, <2>1, <2>2, <2>3, <2>4, QuietOnce
<1>7. ASSUME NEW gcos, Goes(t, gcos),
             \/ gcos = c.gcos /\ Head(c.todo) # Derives
             \/ /\ Head(c.todo)[1] \in Attests
                /\ \E child : gcos = <<c.gcos[1], child>>
      PROVE  HeldInv' /\ OnceInv'
  <2>1. (gcos = c.gcos /\ Head(c.todo) # Derives) \/ Len(gcos) = 2
    BY <1>7
  <2>2. HeldInv'
    BY <1>1, <1>3, <1>7, <2>1, HeldGoes, HeldStep
  <2>3. /\ e.todo = Tail(c.todo) /\ e.gcos = gcos /\ e.host = c.host
        /\ decisions' = decisions
    BY <1>1, <1>2, <1>7 DEF Goes
  <2>4. Checked(e) \subseteq Checked(c)
    BY <1>3, <1>4, <1>7, <2>3, CheckedPasses
  <2> QED BY <1>1, <1>2, <2>2, <2>3, <2>4, QuietOnce
<1> QED BY <1>1, <1>5, <1>6, <1>7

\* A call begins with nothing checked.
LEMMA BeginOnce ==
    ASSUME FlowInv, BoundaryInv, HeldInv, OnceInv, NEW t \in Threads, StartsCall(t)
    PROVE  HeldInv' /\ OnceInv'
<1>1. PICK c : /\ Begin(t, c) /\ WellMade(c)
               /\ Opens(c) \/ \E meta \in Arriving : Takes(c, meta)
  BY StartsMean
<1>2. PICK e : e = call'[t]
  OBVIOUS
<1>3. /\ \A u \in Threads \ {t} : call'[u] = call[u]
      /\ UNCHANGED <<clock, entries, decisions>>
      /\ e.host = c.host /\ e.gcos = c.gcos /\ e.todo = c.todo
  BY <1>1, <1>2, BeginMeans DEF WellMade, FlowInv
<1>4. begun' \in 0 .. MaxCalls
  BY <1>1, RuntimeBounds DEF Begin, CanBegin, HeldInv
<1>5. Places(c.todo, Len(c.gcos)) /\ (c.host \in Protected => Prints \notin Range(c.todo))
  <2>1. CASE Opens(c)
    BY <2>1 DEF Opens
  <2>2. ASSUME NEW meta, Takes(c, meta)
        PROVE  Places(c.todo, Len(c.gcos)) /\ Prints \notin Range(c.todo)
    <3>1. c.todo = <<Extracts>> /\ Len(c.gcos) \in 0 .. 1
      BY <1>1, <2>2 DEF Takes, WellMade
    <3>2. \A i \in DOMAIN <<Extracts>> : <<Extracts>>[i] = Extracts
      OBVIOUS
    <3>3. Places(<<Extracts>>, Len(c.gcos))
      BY <3>1, <3>2 DEF Places, Extracts
    <3>4. Prints \notin Range(<<Extracts>>)
      BY <3>2 DEF Range, Prints, Extracts
    <3> QED BY <3>1, <3>3, <3>4
  <2> QED BY <1>1, <2>1, <2>2
<1>6. HeldInv'
  <2>1. DOMAIN entries' = Hosts /\ \A h \in Hosts : Remembers(entries'[h])
    BY <1>3 DEF HeldInv
  <2> QED BY <1>2, <1>3, <1>4, <1>5, <2>1, HeldStep
<1>7. Checked(e) = {}
  BY <1>1, <1>3 DEF Checked, WellMade
<1>8. PICK b : b = call[t]
  OBVIOUS
<1>9. OnceInv'
  BY <1>2, <1>3, <1>7, <1>8, QuietOnce
<1> QED BY <1>6, <1>9

\* What an incoming call is extracted to has still to be checked.
LEMMA ExtractOnce ==
    ASSUME FlowInv, BoundaryInv, HeldInv, OnceInv, NEW t \in Threads, Extract(t)
    PROVE  HeldInv' /\ OnceInv'
<1>1. PICK c : c = call[t]
  OBVIOUS
<1>2. PICK e : e = call'[t]
  OBVIOUS
<1>3. PICK gcos : gcos = IF c.meta.parent = NONE THEN <<c.meta.gco>>
                         ELSE <<c.meta.parent, c.meta.gco>>
  OBVIOUS
<1>4. /\ c.todo # <<>> /\ Head(c.todo) = Extracts /\ UNCHANGED <<clock, entries>>
      /\ CallsShaped /\ Listed(c.todo) /\ Sending(c)
      /\ DOMAIN entries' = Hosts /\ \A h \in Hosts : Remembers(entries'[h])
  <2>1. c.todo # <<>> /\ Head(c.todo) = Extracts /\ UNCHANGED <<clock, entries>>
    BY <1>1 DEF Extract, At, Extracts
  <2> QED BY <1>1, <2>1 DEF FlowInv, BoundaryInv, HeldInv, Flow, Legal
<1>5. Tail(c.todo) = <<>>
  <2>1. 1 \in DOMAIN c.todo /\ c.todo[1] = Extracts
    BY <1>4, TailFacts
  <2>2. Len(c.todo) = 1
    BY <1>4, <2>1 DEF Sending, Sends, Range
  <2> QED BY <1>4, <2>2, TailFacts
<1>6. begun \in 0 .. MaxCalls
  BY DEF HeldInv
<1>7. ASSUME NEW fault, NEW of, Deny(t, fault, of)
      PROVE  HeldInv' /\ OnceInv'
  <2>1. Ends(t) /\ begun' = begun /\ \A u \in Threads \ {t} : call'[u] = call[u]
    BY <1>7, DenyMoves
  <2>2. \A i \in 1 .. 2 : Head(call[t].todo) # <<"check", i>>
    BY <1>1, <1>4 DEF Extracts
  <2> QED BY <1>1, <1>4, <2>1, <2>2, OnceGoes
<1>8. CASE Pass(t, c.now, <<>>)
  <2>1. PICK none : none = <<>>
    OBVIOUS
  <2>2. Pass(t, c.now, none)
    BY <1>8, <2>1
  <2>3. PICK d : d = [host |-> c.host, gcos |-> none, child |-> c.child,
                      began |-> c.began, at |-> clock]
    OBVIOUS
  <2>4. /\ begun' = begun /\ \A u \in Threads \ {t} : call'[u] = call[u]
        /\ e.todo = <<>> /\ decisions' = Append(decisions, d)
    BY <1>1, <1>2, <1>4, <1>5, <2>2, <2>3, PassEnds
  <2>5. HeldInv'
    BY <1>2, <1>4, <1>6, <2>4, HeldStep
  <2>6. Checked(e) = {}
    BY <2>4 DEF Checked
  <2>7. Backing(d) \subseteq Checked(c) /\ d.host = c.host /\ d.at = clock
    BY <2>1, <2>3 DEF Backing, Range
  <2> QED BY <1>1, <1>2, <1>4, <2>4, <2>5, <2>6, <2>7, QuietOnce
<1>9. CASE /\ call' = [call EXCEPT ![t].gcos = gcos,
                                   ![t].fresh = Fresh(gcos),
                                   ![t].todo = IncomingProgram(gcos)]
           /\ UNCHANGED <<decisions, issued, begun>>
  <2>1. PICK todo, fresh : todo = IncomingProgram(gcos) /\ fresh = Fresh(gcos)
    OBVIOUS
  <2>2. /\ \A u \in Threads \ {t} : call'[u] = call[u]
        /\ e.gcos = gcos /\ e.todo = todo
    <3>1. call' = [call EXCEPT ![t].gcos = gcos, ![t].fresh = fresh, ![t].todo = todo]
      BY <1>9, <2>1
    <3>2. {"gcos", "fresh", "todo"} \subseteq DOMAIN call[t] /\ DOMAIN call = Threads
      BY <1>4 DEF CallsShaped, Idle
    <3> QED BY <1>2, <3>1, <3>2
  <2>3. /\ Places(todo, Len(gcos)) /\ Prints \notin Range(todo)
        /\ DOMAIN gcos = 1 .. Len(gcos) /\ Len(gcos) \in 1 .. 2
        /\ \A k \in DOMAIN gcos : <<"check", k>> \in Range(todo)
    <3>1. CASE c.meta.parent = NONE
      <4>1. Len(gcos) = 1 /\ DOMAIN gcos = 1 .. 1
        BY <1>3, <3>1
      <4>2. todo = AuthorizeProgram(1)
        BY <2>1, <4>1 DEF IncomingProgram
      <4>3. Plain(todo) /\ Places(todo, 1)
        BY <4>2, SimplePlain, SimplePlaces
      <4> QED BY <4>1, <4>3 DEF Plain, Check1
    <3>2. CASE c.meta.parent # NONE
      <4>1. Len(gcos) = 2 /\ DOMAIN gcos = 1 .. 2
        BY <1>3, <3>2
      <4>2. todo = SubcallProgram \o AuthorizeProgram(2)
        BY <2>1, <4>1 DEF IncomingProgram
      <4>3. Plain(todo) /\ Places(todo, 2) /\ Check2 \in Range(todo)
        BY <4>2, IncomingPlain
      <4> QED BY <4>1, <4>3 DEF Plain, Check1, Check2
    <3> QED BY <3>1, <3>2
  <2>4. HeldInv'
    BY <1>2, <1>4, <1>6, <1>9, <2>2, <2>3, HeldStep
  <2>5. Checked(e) = {}
    BY <2>2, <2>3 DEF Checked
  <2> QED BY <1>1, <1>2, <1>4, <1>9, <2>2, <2>4, <2>5, QuietOnce
<1>10. \/ \E fault, of : Deny(t, fault, of)
       \/ Pass(t, c.now, <<>>)
       \/ /\ call' = [call EXCEPT ![t].gcos = gcos,
                                  ![t].fresh = Fresh(gcos),
                                  ![t].todo = IncomingProgram(gcos)]
          /\ UNCHANGED <<decisions, issued, begun>>
  BY <1>1, <1>3 DEF Extract
<1> QED BY <1>7, <1>8, <1>9, <1>10

\* Nothing is checked when a child is sent or attested.
LEMMA AttachOnce ==
    ASSUME FlowInv, HeldInv, OnceInv, NEW t \in Threads, Attach(t)
    PROVE  HeldInv' /\ OnceInv'
<1>1. PICK attach \in Attaches :
          /\ At(t, <<attach, 1>>) /\ UNCHANGED <<clock, entries>>
          /\ \E fault, of : Outcome(t, fault, of)
  BY DEF Attach, Attaches
<1>2. /\ call[t].todo # <<>> /\ Head(call[t].todo) = <<attach, 1>>
      /\ attach \notin {"check", "derive"} /\ Head(call[t].todo) # Derives
  BY <1>1 DEF At, Attaches, Derives
<1>3. \A i \in 1 .. 2 : Head(call[t].todo) # <<"check", i>>
  BY <1>2
<1>4. PICK fault, of : Outcome(t, fault, of)
  BY <1>1
<1>5. /\ Ends(t) \/ Goes(t, call[t].gcos) \/ Allows(t, call[t].gcos)
      /\ begun' = begun /\ \A u \in Threads \ {t} : call'[u] = call[u]
  BY <1>2, <1>4, OutcomeMoves
<1> QED BY <1>1, <1>2, <1>3, <1>5, OnceGoes

LEMMA AttestOnce ==
    ASSUME FlowInv, HeldInv, OnceInv, NEW t \in Threads, SignPem(t) \/ Preview(t)
    PROVE  HeldInv' /\ OnceInv'
<1>1. /\ call[t].todo # <<>> /\ Head(call[t].todo)[1] \in Attests
      /\ UNCHANGED <<clock, entries>> /\ \E a : Mint(t, a)
  BY DEF SignPem, Preview, At, Attests
<1>2. \A i \in 1 .. 2 : Head(call[t].todo) # <<"check", i>>
  BY <1>1 DEF Attests
<1>3. /\ \E child : Goes(t, <<call[t].gcos[1], child>>)
      /\ begun' = begun /\ \A u \in Threads \ {t} : call'[u] = call[u]
  BY <1>1, MintMoves
<1> QED BY <1>1, <1>2, <1>3, OnceGoes

\* A preview is printed where nothing is cached.
LEMMA ShowOnce ==
    ASSUME FlowInv, HeldInv, OnceInv, NEW t \in Threads, ShowPreview(t)
    PROVE  HeldInv' /\ OnceInv'
<1>1. PICK c : c = call[t]
  OBVIOUS
<1>2. PICK e : e = call'[t]
  OBVIOUS
<1>3. PICK gcos : gcos = <<c.gcos[1]>>
  OBVIOUS
<1>4. /\ c.todo # <<>> /\ Head(c.todo) = Prints /\ UNCHANGED <<clock, entries>>
      /\ Pass(t, c.now, gcos)
  BY <1>1, <1>3 DEF ShowPreview, At, Prints
<1>5. /\ CallsShaped /\ Legal(c.todo) /\ Listed(c.todo)
      /\ c.host \in Protected => Prints \notin Range(c.todo)
      /\ DOMAIN entries' = Hosts /\ \A h \in Hosts : Remembers(entries'[h])
      /\ begun \in 0 .. MaxCalls
  BY <1>1, <1>4 DEF FlowInv, HeldInv, Flow, Legal
<1>6. c.host \notin Protected
  BY <1>4, <1>5, RangeOfTail
<1>7. Tail(c.todo) = <<>>
  BY <1>4, <1>5, PrintsLast
<1>8. PICK d : d = [host |-> c.host, gcos |-> gcos, child |-> c.child,
                    began |-> c.began, at |-> clock]
  OBVIOUS
<1>9. /\ begun' = begun /\ \A u \in Threads \ {t} : call'[u] = call[u]
      /\ e.todo = <<>> /\ decisions' = Append(decisions, d)
  BY <1>1, <1>2, <1>4, <1>5, <1>7, <1>8, PassEnds
<1>10. HeldInv'
  BY <1>2, <1>5, <1>9, HeldStep
<1>11. Checked(e) = {} /\ Backing(d) \subseteq Checked(c) /\ d.host = c.host /\ d.at = clock
  BY <1>6, <1>8, <1>9 DEF Checked, Backing
<1> QED BY <1>1, <1>2, <1>4, <1>9, <1>10, <1>11, QuietOnce

LEMMA InitOnce == BInit => HeldInv /\ OnceInv
BY StagedInit, StagedHeld, OnceInit DEF BInit

LEMMA StepOnce ==
    FlowInv /\ BoundaryInv /\ HeldInv /\ OnceInv /\ [BNext]_bvars => HeldInv' /\ OnceInv'
<1> SUFFICES ASSUME FlowInv, BoundaryInv, HeldInv, OnceInv, [BNext]_bvars
             PROVE  HeldInv' /\ OnceInv'
  OBVIOUS
<1>1. CASE UNCHANGED bvars
  BY <1>1 DEF bvars, vars, HeldInv, OnceInv
<1>2. CASE Tick
  <2>1. /\ clock \in Int /\ clock' \in Int /\ clock <= clock'
        /\ UNCHANGED <<entries, call, decisions, begun>>
    BY <1>2, RuntimeBounds DEF Tick, history, FlowInv
  <2>2. Once(call, entries, decisions, clock')
    BY <2>1, OnceLater DEF OnceInv
  <2> QED BY <2>1, <2>2 DEF OnceInv, HeldInv
<1>3. ASSUME NEW t \in Threads, StartsCall(t) PROVE HeldInv' /\ OnceInv'
  BY <1>3, BeginOnce
<1>4. ASSUME NEW t \in Threads, Stage(t) PROVE HeldInv' /\ OnceInv'
  BY <1>4, HeldStage, OnceStage
<1> QED BY <1>1, <1>2, <1>3, <1>4, ExtractOnce, AttachOnce, AttestOnce, ShowOnce
        DEF BNext, StartsCall

(***************************************************************************)
(* Through the MCP boundaries and the commands too, the stages find their  *)
(* GCOs, decisions rest on well-formed ones, and no cache outgrows         *)
(* max_entries.                                                            *)
(***************************************************************************)
THEOREM BoundaryTypes == BSpec => []TypeOK
<1> QED BY InitSends, StepSends, InitOnce, StepOnce, HeldTypes, PTL DEF BSpec

(***************************************************************************)
(* At a host with a replay cache an attestation backs one allowed decision *)
(* while it is live, also when it arrives through the server's boundary,   *)
(* as the child of one _meta and the parent of another.                    *)
(***************************************************************************)
THEOREM BoundaryOneDecision == BSpec => []OneDecisionPerAttestation
<1>1. OnceInv => OneDecisionPerAttestation
  BY DEF OnceInv, Once, Backing, OneDecisionPerAttestation
<1> QED BY InitSends, StepSends, InitOnce, StepOnce, <1>1, PTL DEF BSpec

-----------------------------------------------------------------------------
(* What is sent arrives *)

(***************************************************************************)
(* The sentinels are no GCOs and no _metas.  (Model values are not, and    *)
(* TLC cannot take the fields of one, so this is no assumption of the      *)
(* modules it checks.)                                                     *)
(***************************************************************************)
SentinelsApart ==
    /\ ~IsGCO(NONE) /\ ~IsGCO(MALFORMED)
    /\ DOMAIN NONE # DOMAIN EmptyMeta

\* Some verification accepts it.
Accepted(g) == IsAttested(g) /\ \E now \in Int : Passes(g, now)

\* It passed verification by then, and is not too large for a host to send.
Fit(g, time) ==
    /\ g # MALFORMED /\ IsAttested(g) /\ \E h \in Hosts : ~Oversize(h, g)
    /\ \E now \in 0 .. time : Passes(g, now)

Validated(parent, child, time) ==
    \E now \in 0 .. time : ValidateFault(parent, child, now) = "OK"

Sent(m, time) ==
    /\ m.gco # NONE /\ Fit(m.gco, time)
    /\ m.parent # NONE => Fit(m.parent, time) /\ Validated(m.parent, m.gco, time)

Unpacked(m) == IF m.parent = NONE THEN <<m.gco>> ELSE <<m.parent, m.gco>>

\* The stages of authorize_incoming on n GCOs.
Looks(n) ==
    {<<stage, i>> : stage \in {"sample", "check"}, i \in 1 .. n}
      \cup {<<stage, n>> : stage \in {"expiry", "decide"}}
      \cup (IF n = 2 THEN {Validates} ELSE {})

\* A call of a derivation that has its child.
Bears(c) == c.todo # <<>> /\ c.op # Arrives /\ Len(c.gcos) = 2

\* The child that a call made, whose span nothing else has.
Makes(c, pool, time) ==
    /\ c.child # NONE => Len(c.gcos) = 2 /\ c.child = c.gcos[2]
    /\ (\E s \in Range(c.todo) : s[1] \in Attaches) =>
           c.child # NONE \/ \E s \in Range(c.todo) : s[1] \in Attests
    /\ Head(c.todo) # Extracts
    /\ Head(c.todo)[1] \in Attaches => Validated(c.gcos[1], c.gcos[2], time)
    /\ Len(c.gcos) = 2 =>
           /\ IsAttested(c.gcos[2]) /\ "span_id" \in DOMAIN c.gcos[2]
           /\ \A g \in pool : g.span_id # c.gcos[2].span_id

\* What passes verification has the span of a member of the pool.
Known(g, pool) ==
    Accepted(g) /\ "span_id" \in DOMAIN g => \E h \in pool : h.span_id = g.span_id

(***************************************************************************)
(* A call of authorize_incoming looks at what its _meta held.  One with a  *)
(* _meta that was sent was begun when it had been: what circulates and     *)
(* passes verification was returned.                                       *)
(***************************************************************************)
Receives(c, pool, sent) ==
    /\ c.ask \in ToolAsks /\ c.child = NONE
    /\ c.meta # NONE => Known(c.meta.gco, pool)
    /\ c.meta \in sent => Sent(c.meta, c.began)
    /\ \/ c.todo = <<Extracts>>
       \/ c.gcos = Unpacked(c.meta) /\ Range(c.todo) \subseteq Looks(Len(c.gcos))

Delivers(c, pool, sent, time) ==
    /\ c.fault = NONE
    /\ IF c.op = Arrives THEN Receives(c, pool, sent) ELSE Makes(c, pool, time)

Apart(c, d) == Bears(c) /\ Bears(d) => c.gcos[2].span_id # d.gcos[2].span_id

DeliveryInv ==
    /\ \A t \in Threads :
           call[t].todo # <<>> => Delivers(call[t], Pool, wire, clock)
    /\ \A t, u \in Threads : t # u => Apart(call[t], call[u])
    /\ \A m \in wire : Sent(m, clock) /\ m.gco \in Pool

LEMMA PoolGrows ==
    ASSUME FlowInv, NEW d, decisions' = Append(decisions, d)
    PROVE  /\ Pool \subseteq Pool'
           /\ \A g \in Pool' : g \in Pool \/ (g = d.child /\ g # NONE)
           /\ d.child # NONE => d.child \in Pool'
<1>1. Listed(decisions)
  BY DEF FlowInv
<1>2. PICK s : s = decisions
  OBVIOUS
<1>3. PICK r : r = Append(s, d)
  OBVIOUS
<1>4. /\ DOMAIN r = 1 .. Len(s) + 1 /\ r[Len(s) + 1] = d
      /\ DOMAIN s = 1 .. Len(s) /\ Len(s) \in Nat
      /\ \A i \in 1 .. Len(s) : r[i] = s[i]
  BY <1>1, <1>2, <1>3, ListedAppend, ListedFacts
<1>5. \A i \in DOMAIN r : (i \in DOMAIN s /\ r[i] = s[i]) \/ r[i] = d
  BY <1>1, <1>2, <1>3, AppendMembers
<1>6. Len(s) + 1 \in DOMAIN r /\ \A i \in DOMAIN s : i \in DOMAIN r /\ r[i] = s[i]
  BY <1>4
<1>7. \A g : g \in Pool <=>
          \/ g \in Roots
          \/ \E i \in DOMAIN s : g = s[i].child /\ g # NONE
  BY <1>2 DEF Pool, Returned
<1>8. \A g : g \in Pool' <=>
          \/ g \in Roots
          \/ \E i \in DOMAIN r : g = r[i].child /\ g # NONE
  BY <1>2, <1>3 DEF Pool, Returned
<1>9. \A g \in Pool : g \in Pool'
  BY <1>6, <1>7, <1>8
<1>10. \A g \in Pool' : g \in Pool \/ (g = d.child /\ g # NONE)
  BY <1>5, <1>7, <1>8
<1>11. d.child # NONE => d.child \in Pool'
  BY <1>4, <1>6, <1>8
<1> QED BY <1>9, <1>10, <1>11

\* A child in hand is the second GCO of the call.
LEMMA ChildInHand ==
    ASSUME DeliveryInv, NEW t \in Threads, call[t].todo # <<>>, call[t].child # NONE
    PROVE  /\ Bears(call[t]) /\ call[t].child = call[t].gcos[2]
           /\ Makes(call[t], Pool, clock)
BY DEF DeliveryInv, Delivers, Receives, Makes, Bears

\* A step of one thread that returns nothing and sends nothing.
LEMMA QuietDelivery ==
    ASSUME DeliveryInv, NEW t \in Threads, UNCHANGED <<clock, decisions, wire>>,
           \A u \in Threads \ {t} : call'[u] = call[u],
           call'[t].todo # <<>> => Delivers(call'[t], Pool, wire, clock),
           \A u \in Threads \ {t} : Apart(call'[t], call[u])
    PROVE  DeliveryInv'
<1>1. Pool' = Pool
  BY DEF Pool, Returned
<1>2. \A u \in Threads : call'[u].todo # <<>> => Delivers(call'[u], Pool, wire, clock)
  BY DEF DeliveryInv
<1>3. ASSUME NEW u \in Threads, NEW v \in Threads, u # v
      PROVE  Apart(call'[u], call'[v])
  <2>1. CASE u = t
    BY <1>3, <2>1
  <2>2. CASE v = t
    <3>1. Apart(call'[v], call'[u])
      BY <1>3, <2>2
    <3> QED BY <3>1 DEF Apart
  <2>3. CASE u # t /\ v # t
    BY <1>3, <2>3 DEF DeliveryInv
  <2> QED BY <2>1, <2>2, <2>3
<1>4. \A m \in wire : Sent(m, clock) /\ m.gco \in Pool
  BY DEF DeliveryInv
<1> QED BY <1>1, <1>2, <1>3, <1>4 DEF DeliveryInv

\* A call that keeps its GCOs stays apart from the others.
LEMMA KeepsApart ==
    ASSUME DeliveryInv, NEW t \in Threads, NEW e,
           Bears(e) => Bears(call[t]) /\ e.gcos[2].span_id = call[t].gcos[2].span_id
    PROVE  \A u \in Threads \ {t} : Apart(e, call[u])
BY DEF DeliveryInv, Apart

LEMMA DeniedDelivery ==
    ASSUME DeliveryInv, NEW t \in Threads, UNCHANGED <<clock, decisions, wire>>,
           \A u \in Threads \ {t} : call'[u] = call[u], call'[t].todo = <<>>
    PROVE  DeliveryInv'
<1>1. \A u \in Threads \ {t} : Apart(call'[t], call[u])
  BY DEF Apart, Bears
<1> QED BY <1>1, QuietDelivery

\* What is left of a call that leaves its GCOs as they are.
LEMMA GoesOnDelivering ==
    ASSUME NEW c, NEW e, NEW pool, NEW sent, NEW time \in Nat,
           Delivers(c, pool, sent, time), Legal(c.todo), Sends(c.todo), c.todo # <<>>,
           Tail(c.todo) # <<>>, Head(c.todo)[1] \notin Attests,
           Head(c.todo) = Validates => ValidateFault(c.gcos[1], c.gcos[2], time) = "OK",
           e.todo = Tail(c.todo), e.gcos = c.gcos, e.child = c.child, e.meta = c.meta,
           e.op = c.op, e.ask = c.ask, e.fault = c.fault, e.began = c.began
    PROVE  Delivers(e, pool, sent, time)
<1>1. /\ Range(e.todo) \subseteq Range(c.todo)
      /\ \A s \in Range(c.todo) : s = Head(c.todo) \/ s \in Range(e.todo)
  BY RangeOfTail DEF Legal
<1>2. /\ Extracts \notin Range(e.todo)
      /\ Head(e.todo)[1] \in Attaches => Head(c.todo) = Validates
  BY SendsTail
<1>3. Head(e.todo) \in Range(e.todo)
  BY TailFacts, RangeOfTail DEF Legal
<1>4. CASE c.op = Arrives
  <2>1. c.todo # <<Extracts>>
    <3>1. Len(c.todo) # 1
      BY TailFacts DEF Legal
    <3>2. Len(<<Extracts>>) = 1
      OBVIOUS
    <3> QED BY <3>1, <3>2
  <2>2. Receives(e, pool, sent)
    BY <1>1, <1>4, <2>1 DEF Delivers, Receives
  <2> QED BY <1>4, <2>2 DEF Delivers
<1>5. CASE c.op # Arrives
  <2>1. Makes(c, pool, time)
    BY <1>5 DEF Delivers
  <2>2. (\E s \in Range(e.todo) : s[1] \in Attaches) =>
            e.child # NONE \/ \E s \in Range(e.todo) : s[1] \in Attests
    BY <1>1, <2>1 DEF Makes
  <2>3. Head(e.todo)[1] \in Attaches => Validated(e.gcos[1], e.gcos[2], time)
    BY <1>2 DEF Validated
  <2>4. Head(e.todo) # Extracts
    BY <1>2, <1>3
  <2>5. Makes(e, pool, time)
    BY <2>1, <2>2, <2>3, <2>4 DEF Makes
  <2> QED BY <1>5, <2>5 DEF Delivers
<1> QED BY <1>4, <1>5

(***************************************************************************)
(* A call is allowed, and may send the child it made: no call that is      *)
(* under way had it, since nothing that circulated had its span.           *)
(***************************************************************************)
LEMMA LastDelivery ==
    ASSUME SentinelsApart, FlowInv, DeliveryInv, NEW t \in Threads, clock' = clock,
           call[t].todo # <<>>, call'[t].todo = <<>>,
           \A u \in Threads \ {t} : call'[u] = call[u],
           NEW d, decisions' = Append(decisions, d), d.child = call[t].child,
           NEW m,
           \/ wire' = wire
           \/ /\ wire' = wire \cup {m} /\ Sent(m, clock) /\ DOMAIN m = DOMAIN EmptyMeta
              /\ m.gco = call[t].child /\ call[t].child # NONE
    PROVE  DeliveryInv'
<1>1. PICK sent : sent = wire'
  OBVIOUS
<1>2. PICK pool : pool = Pool'
  OBVIOUS
<1>3. /\ Pool \subseteq pool
      /\ \A g \in pool : g \in Pool \/ (g = call[t].child /\ g # NONE)
      /\ call[t].child # NONE => call[t].child \in pool
  BY <1>2, PoolGrows
<1>4. clock \in Nat
  BY RuntimeBounds DEF FlowInv
<1>5. ASSUME NEW s \in sent, s \notin wire
      PROVE  /\ s = m /\ s # NONE /\ Sent(s, clock) /\ s.gco = call[t].child
             /\ call[t].child # NONE /\ ~Known(s.gco, Pool)
  <2>1. /\ s = m /\ Sent(s, clock) /\ DOMAIN s = DOMAIN EmptyMeta
        /\ s.gco = call[t].child /\ call[t].child # NONE
    BY <1>1, <1>5
  <2>2. s # NONE
    BY <2>1 DEF SentinelsApart
  <2>3. Accepted(s.gco)
    BY <1>4, <2>1 DEF Sent, Fit, Accepted
  <2>4. Makes(call[t], Pool, clock) /\ s.gco = call[t].gcos[2] /\ Len(call[t].gcos) = 2
    BY <2>1, ChildInHand DEF Bears
  <2>5. /\ "span_id" \in DOMAIN s.gco
        /\ \A g \in Pool : g.span_id # s.gco.span_id
    BY <2>4 DEF Makes
  <2> QED BY <2>1, <2>2, <2>3, <2>5 DEF Known
<1>6. ASSUME NEW u \in Threads \ {t}, call[u].todo # <<>>
      PROVE  Delivers(call[u], pool, sent, clock)
  <2>1. PICK c : c = call[u]
    OBVIOUS
  <2>2. Delivers(c, Pool, wire, clock) /\ c.todo # <<>>
    BY <1>6, <2>1 DEF DeliveryInv
  <2>3. CASE c.op = Arrives
    <3>1. Receives(c, Pool, wire)
      BY <2>2, <2>3 DEF Delivers
    <3>2. c.meta # NONE => Known(c.meta.gco, pool)
      BY <1>3, <3>1 DEF Receives, Known
    <3>3. c.meta \in sent => Sent(c.meta, c.began)
      BY <1>5, <3>1 DEF Receives
    <3>4. Receives(c, pool, sent)
      BY <3>1, <3>2, <3>3 DEF Receives
    <3> QED BY <2>1, <2>2, <2>3, <3>4 DEF Delivers
  <2>4. CASE c.op # Arrives
    <3>1. Makes(c, Pool, clock)
      BY <2>2, <2>4 DEF Delivers
    <3>2. ASSUME Len(c.gcos) = 2, NEW g \in pool
          PROVE  g.span_id # c.gcos[2].span_id
      <4>1. CASE g \in Pool
        BY <3>1, <3>2, <4>1 DEF Makes
      <4>2. CASE g = call[t].child /\ g # NONE
        <5>1. Bears(call[t]) /\ g = call[t].gcos[2]
          BY <4>2, ChildInHand
        <5>2. Bears(call[u]) /\ Apart(call[t], call[u])
          BY <1>6, <2>1, <2>4, <3>2 DEF Bears, DeliveryInv
        <5> QED BY <2>1, <5>1, <5>2 DEF Apart
      <4> QED BY <1>3, <4>1, <4>2
    <3>3. Makes(c, pool, clock)
      BY <3>1, <3>2 DEF Makes
    <3> QED BY <2>1, <2>2, <2>4, <3>3 DEF Delivers
  <2> QED BY <2>3, <2>4
<1>7. \A u \in Threads : call'[u].todo # <<>> => Delivers(call'[u], pool, sent, clock)
  BY <1>6
<1>8. \A u, v \in Threads : u # v => Apart(call'[u], call'[v])
  BY DEF DeliveryInv, Apart, Bears
<1>9. \A s \in sent : Sent(s, clock) /\ s.gco \in pool
  BY <1>1, <1>3, <1>5 DEF DeliveryInv
<1> QED BY <1>1, <1>2, <1>7, <1>8, <1>9 DEF DeliveryInv

LEMMA PassDelivery ==
    ASSUME SentinelsApart, FlowInv, BoundaryInv, DeliveryInv, NEW t \in Threads,
           call[t].todo # <<>>, NEW now, Pass(t, now, call[t].gcos),
           UNCHANGED <<clock, wire>>, Head(call[t].todo)[1] \notin Attests,
           Head(call[t].todo) = Validates =>
               ValidateFault(call[t].gcos[1], call[t].gcos[2], clock) = "OK"
    PROVE  DeliveryInv'
<1>1. PICK c : c = call[t]
  OBVIOUS
<1>2. PICK e : e = call'[t]
  OBVIOUS
<1>3. PICK d : d = [host |-> c.host, gcos |-> c.gcos, child |-> c.child,
                    began |-> c.began, at |-> clock]
  OBVIOUS
<1>4. /\ CallsShaped /\ Legal(c.todo) /\ Listed(c.todo) /\ Sends(c.todo)
      /\ Delivers(c, Pool, wire, clock) /\ clock \in Nat
  BY <1>1, RuntimeBounds DEF FlowInv, Flow, Legal, BoundaryInv, Sending, DeliveryInv
<1>5. /\ \A u \in Threads \ {t} : call'[u] = call[u]
      /\ Tail(c.todo) # <<>> =>
             /\ decisions' = decisions
             /\ e.todo = Tail(c.todo) /\ e.gcos = c.gcos /\ e.child = c.child
             /\ e.meta = c.meta /\ e.op = c.op /\ e.ask = c.ask
             /\ e.fault = c.fault /\ e.began = c.began
      /\ Tail(c.todo) = <<>> => e.todo = <<>> /\ decisions' = Append(decisions, d)
  BY <1>1, <1>2, <1>3, <1>4, PassGoesOn, PassEnds
<1>6. CASE Tail(c.todo) # <<>>
  <2>1. Delivers(e, Pool, wire, clock)
    BY <1>1, <1>4, <1>5, <1>6, GoesOnDelivering
  <2>2. Bears(e) => Bears(c) /\ e.gcos[2].span_id = c.gcos[2].span_id
    BY <1>1, <1>5, <1>6 DEF Bears
  <2>3. \A u \in Threads \ {t} : Apart(e, call[u])
    BY <1>1, <2>2, KeepsApart
  <2> QED BY <1>2, <1>5, <1>6, <2>1, <2>3, QuietDelivery
<1>7. CASE Tail(c.todo) = <<>>
  <2>1. d.child = c.child
    BY <1>3
  <2> QED BY <1>1, <1>2, <1>5, <1>7, <2>1, LastDelivery
<1> QED BY <1>6, <1>7

LEMMA OutcomeDelivery ==
    ASSUME SentinelsApart, FlowInv, BoundaryInv, DeliveryInv, NEW t \in Threads,
           call[t].todo # <<>>, NEW fault, NEW of, Outcome(t, fault, of),
           UNCHANGED <<clock, wire>>, Head(call[t].todo)[1] \notin Attests,
           Head(call[t].todo) = Validates /\ fault = "OK" =>
               ValidateFault(call[t].gcos[1], call[t].gcos[2], clock) = "OK"
    PROVE  DeliveryInv'
<1>1. CASE fault = "OK"
  BY <1>1, PassDelivery DEF Outcome
<1>2. CASE fault # "OK"
  <2>1. Deny(t, fault, of)
    BY <1>2 DEF Outcome
  <2> QED BY <2>1, DenyMeans, DeniedDelivery DEF FlowInv, history
<1> QED BY <1>1, <1>2

\* The stages that leave the GCOs of a call as they are.
LEMMA LookDelivery ==
    ASSUME SentinelsApart, FlowInv, BoundaryInv, DeliveryInv, NEW t \in Threads,
           NEW i \in 1 .. 2, wire' = wire,
           \/ Sample(t, i) \/ CheckAttestation(t, i)
           \/ Expiry(t, i) \/ Decide(t, i) \/ Validate(t)
    PROVE  DeliveryInv'
<1>1. CASE Sample(t, i) \/ CheckAttestation(t, i) \/ Expiry(t, i) \/ Decide(t, i)
  <2>1. /\ call[t].todo # <<>> /\ clock' = clock
        /\ Head(call[t].todo)[1] \notin Attests /\ Head(call[t].todo) # Validates
    BY <1>1 DEF Sample, CheckAttestation, Expiry, Decide, At, Attests, Validates
  <2>2. \/ Pass(t, clock, call[t].gcos)
        \/ \E fault, of : Deny(t, fault, of) \/ Outcome(t, fault, of)
    BY <1>1 DEF Sample, CheckAttestation, Expiry, Decide
  <2>3. ASSUME NEW fault, NEW of, Deny(t, fault, of) PROVE DeliveryInv'
    BY <2>1, <2>3, DenyMeans, DeniedDelivery DEF FlowInv, history
  <2> QED BY <2>1, <2>2, <2>3, PassDelivery, OutcomeDelivery
<1>2. CASE Validate(t)
  <2>1. /\ call[t].todo # <<>> /\ clock' = clock /\ Head(call[t].todo)[1] \notin Attests
        /\ Outcome(t, ValidateFault(call[t].gcos[1], call[t].gcos[2], clock),
                   call[t].gcos[2])
    BY <1>2 DEF Validate, At, Attests
  <2> QED BY <2>1, OutcomeDelivery
<1> QED BY <1>1, <1>2

\* What authorize_incoming does, and what only the calls that make a child do.
LEMMA LooksOnly ==
    ASSUME NEW c, NEW pool, NEW sent, Receives(c, pool, sent), Listed(c.todo),
           c.todo # <<>>
    PROVE  /\ Head(c.todo) = Extracts
              \/ (Head(c.todo) \in Looks(Len(c.gcos)) /\ c.gcos = Unpacked(c.meta))
           /\ Head(c.todo)[1] \notin Attests \cup Attaches \cup {"request", "print"}
<1>1. Head(c.todo) \in Range(c.todo)
  BY RangeOfTail
<1>2. \A s \in Looks(Len(c.gcos)) :
          s[1] \in {"sample", "check", "expiry", "decide", "validate"}
  BY DEF Looks, Validates
<1>3. CASE c.todo = <<Extracts>>
  <2>1. Head(c.todo) = Extracts
    BY <1>3
  <2> QED BY <2>1 DEF Extracts, Attests, Attaches
<1>4. CASE c.gcos = Unpacked(c.meta) /\ Range(c.todo) \subseteq Looks(Len(c.gcos))
  <2>1. Head(c.todo) \in Looks(Len(c.gcos))
    BY <1>1, <1>4
  <2>2. Head(c.todo)[1] \in {"sample", "check", "expiry", "decide", "validate"}
    BY <1>2, <2>1
  <2> QED BY <1>4, <2>1, <2>2 DEF Attests, Attaches
<1> QED BY <1>3, <1>4 DEF Receives

LEMMA MakersOwn ==
    ASSUME FlowInv, DeliveryInv, NEW t \in Threads, call[t].todo # <<>>,
           Head(call[t].todo)[1] \in Attests \cup Attaches \cup {"request", "print"}
    PROVE  /\ call[t].op # Arrives /\ call[t].fault = NONE
           /\ Makes(call[t], Pool, clock)
<1>1. Delivers(call[t], Pool, wire, clock) /\ Listed(call[t].todo)
  BY DEF DeliveryInv, FlowInv, Flow, Legal
<1> QED BY <1>1, LooksOnly DEF Delivers

\* The program goes on, with a child of the call.
LEMMA MakesGoesOn ==
    ASSUME NEW c, NEW e, NEW pool, NEW time, Makes(c, pool, time),
           Legal(c.todo), Sends(c.todo), c.todo # <<>>, Tail(c.todo) # <<>>,
           Head(c.todo) # Validates, e.todo = Tail(c.todo), Len(e.gcos) = 2,
           e.child # NONE => e.child = e.gcos[2],
           e.child # NONE \/ (c.child = NONE /\ Head(c.todo)[1] \notin Attests),
           IsAttested(e.gcos[2]), "span_id" \in DOMAIN e.gcos[2],
           \A g \in pool : g.span_id # e.gcos[2].span_id
    PROVE  Makes(e, pool, time)
<1>1. /\ Range(e.todo) \subseteq Range(c.todo)
      /\ \A s \in Range(c.todo) : s = Head(c.todo) \/ s \in Range(e.todo)
  BY RangeOfTail DEF Legal
<1>2. /\ Extracts \notin Range(e.todo)
      /\ Head(e.todo)[1] \notin Attaches
  BY SendsTail
<1>3. Head(e.todo) \in Range(e.todo)
  BY TailFacts, RangeOfTail DEF Legal
<1>4. Head(e.todo) # Extracts
  BY <1>2, <1>3
<1>5. (\E s \in Range(e.todo) : s[1] \in Attaches) =>
          e.child # NONE \/ \E s \in Range(e.todo) : s[1] \in Attests
  BY <1>1 DEF Makes
<1> QED BY <1>2, <1>4, <1>5 DEF Makes

\* uuid4() gives a child a span that nothing has.
LEMMA SpanIsFresh ==
    ASSUME SentinelsApart, FlowInv, DeliveryInv, NEW span \in FreshSpan
    PROVE  /\ \A g \in Pool : g.span_id # span
           /\ \A u \in Threads : Bears(call[u]) => call[u].gcos[2].span_id # span
<1>1. \A g \in Pool \cup UNION {Range(call[t].gcos) : t \in Threads} :
          g # MALFORMED => g.span_id # span
  BY DEF FreshSpan
<1>2. \A g \in Pool : g # MALFORMED
  BY PoolBacked DEF Backed, IsAttested, SentinelsApart
<1>3. ASSUME NEW u \in Threads, Bears(call[u])
      PROVE  call[u].gcos[2].span_id # span
  <2>1. call[u].todo # <<>> /\ call[u].op # Arrives /\ Len(call[u].gcos) = 2
    BY <1>3 DEF Bears
  <2>2. IsAttested(call[u].gcos[2])
    BY <2>1 DEF DeliveryInv, Delivers, Makes
  <2>3. DOMAIN call[u].gcos = 1 .. 2
    BY <2>1 DEF FlowInv, Flow
  <2>4. call[u].gcos[2] \in Range(call[u].gcos)
    BY <2>3 DEF Range
  <2>5. call[u].gcos[2] # MALFORMED
    BY <2>2 DEF IsAttested, SentinelsApart
  <2> QED BY <1>1, <2>4, <2>5
<1> QED BY <1>1, <1>2, <1>3

LEMMA RequestDelivery ==
    ASSUME SentinelsApart, FlowInv, BoundaryInv, DeliveryInv, NEW t \in Threads,
           Request(t), wire' = wire
    PROVE  DeliveryInv'
<1>1. PICK c : c = call[t]
  OBVIOUS
<1>2. PICK e : e = call'[t]
  OBVIOUS
<1>3. /\ c.todo # <<>> /\ Head(c.todo) = Derives /\ clock' = clock
      /\ Head(c.todo)[1] = "request"
  BY <1>1 DEF Request, At, Derives
<1>4. /\ CallsShaped /\ Flow(c, clock) /\ Legal(c.todo) /\ Listed(c.todo)
      /\ Sends(c.todo) /\ clock \in 0 .. MaxClock
      /\ c.op # Arrives /\ c.fault = NONE /\ Makes(c, Pool, clock)
  BY <1>1, <1>3, MakersOwn DEF FlowInv, Flow, Legal, BoundaryInv, Sending
<1>5. ASSUME NEW fault, NEW of, Deny(t, fault, of) PROVE DeliveryInv'
  BY <1>3, <1>5, DenyMeans, DeniedDelivery DEF FlowInv, history
<1>6. ASSUME NEW span \in FreshSpan, c.request # MALFORMED,
             DeriveFault(c.gcos[1], c.request) = "OK",
             ValidateFault(c.gcos[1], ForValidation(Derived(c, span)), clock) = "OK",
             Pass(t, c.now, <<c.gcos[1], Derived(c, span)>>)
      PROVE  DeliveryInv'
  <2>1. PICK child, gcos : child = Derived(c, span) /\ gcos = <<c.gcos[1], child>>
    OBVIOUS
  <2>2. Len(gcos) = 2 /\ gcos[2] = child
    BY <2>1
  <2>3. "span_id" \in DOMAIN child /\ child.span_id = span
    BY <2>1 DEF Derived, DerivedChild
  <2>4. c.child = NONE /\ IsAttested(child)
    BY <1>3, <1>4, <1>6, <2>1, DerivedOfVerified
  <2>5. Tail(c.todo) # <<>>
    BY <1>3, <1>4, AfterDerives
  <2>6. Pass(t, c.now, gcos)
    BY <1>6, <2>1
  <2>7. /\ \A u \in Threads \ {t} : call'[u] = call[u]
        /\ decisions' = decisions
        /\ e.todo = Tail(c.todo) /\ e.gcos = gcos /\ e.child = c.child
        /\ e.op = c.op /\ e.fault = c.fault
    <3>1. /\ CallsShaped /\ Listed(call[t].todo) /\ call[t].todo # <<>>
          /\ Tail(call[t].todo) # <<>>
      BY <1>1, <1>3, <1>4, <2>5
    <3>2. /\ \A u \in Threads \ {t} : call'[u] = call[u]
          /\ decisions' = decisions
          /\ call'[t].todo = Tail(call[t].todo) /\ call'[t].gcos = gcos
          /\ call'[t].child = call[t].child /\ call'[t].op = call[t].op
          /\ call'[t].fault = call[t].fault
      BY <2>6, <3>1, PassGoesOn
    <3> QED BY <1>1, <1>2, <3>2
  <2>8. /\ \A g \in Pool : g.span_id # child.span_id
        /\ \A u \in Threads : Bears(call[u]) =>
               call[u].gcos[2].span_id # child.span_id
    BY <2>3, SpanIsFresh
  <2>9. Head(c.todo) # Validates /\ Head(c.todo)[1] \notin Attests
    BY <1>3 DEF Validates, Attests
  <2>10. Makes(e, Pool, clock)
    BY <1>3, <1>4, <2>2, <2>3, <2>4, <2>5, <2>7, <2>8, <2>9, MakesGoesOn
  <2>11. Delivers(e, Pool, wire, clock)
    BY <1>4, <2>7, <2>10 DEF Delivers
  <2>12. \A u \in Threads \ {t} : Apart(e, call[u])
    BY <2>2, <2>7, <2>8 DEF Apart
  <2> QED BY <1>2, <1>3, <2>7, <2>11, <2>12, QuietDelivery
<1>7. \/ \E fault, of : Deny(t, fault, of)
      \/ \E span \in FreshSpan :
             /\ c.request # MALFORMED /\ DeriveFault(c.gcos[1], c.request) = "OK"
             /\ ValidateFault(c.gcos[1], ForValidation(Derived(c, span)), clock) = "OK"
             /\ Pass(t, c.now, <<c.gcos[1], Derived(c, span)>>)
  BY <1>1 DEF Request, Derived
<1> QED BY <1>5, <1>6, <1>7

LEMMA MintDelivery ==
    ASSUME SentinelsApart, FlowInv, BoundaryInv, DeliveryInv, NEW t \in Threads,
           call[t].todo # <<>>, Head(call[t].todo)[1] \in Attests,
           NEW a, IsAttestation(a), Mint(t, a), UNCHANGED <<clock, wire>>
    PROVE  DeliveryInv'
<1>1. PICK c : c = call[t]
  OBVIOUS
<1>2. PICK e : e = call'[t]
  OBVIOUS
<1>3. PICK child : child = WithAttestation(c.gcos[2], a)
  OBVIOUS
<1>4. /\ CallsShaped /\ Flow(c, clock) /\ Legal(c.todo) /\ Sends(c.todo)
      /\ c.todo # <<>> /\ Head(c.todo)[1] \in Attests
      /\ c.op # Arrives /\ c.fault = NONE /\ Makes(c, Pool, clock)
  BY <1>1, MakersOwn DEF FlowInv, Flow, BoundaryInv, Sending
<1>5. Len(c.gcos) = 2 /\ IsAttested(c.gcos[2]) /\ Rooted(c.gcos[2])
  BY <1>4 DEF Flow
<1>6. IsAttested(child)
  BY <1>3, <1>5, AttestedRooted
<1>7. child # NONE
  BY <1>6 DEF IsAttested, SentinelsApart
<1>8. "span_id" \in DOMAIN c.gcos[2] /\ \A g \in Pool : g.span_id # c.gcos[2].span_id
  BY <1>4, <1>5 DEF Makes
<1>9. "span_id" \in DOMAIN child /\ child.span_id = c.gcos[2].span_id
  BY <1>3, <1>8 DEF WithAttestation
<1>10. /\ \A u \in Threads \ {t} : call'[u] = call[u]
       /\ decisions' = decisions /\ e.todo = Tail(c.todo) /\ e.child = child
       /\ e.gcos = <<c.gcos[1], child>> /\ e.op = c.op /\ e.fault = c.fault
  BY <1>1, <1>2, <1>3, <1>4, MintMeans DEF Attested
<1>11. Len(e.gcos) = 2 /\ e.gcos[2] = child
  BY <1>10
<1>12. Tail(c.todo) # <<>>
  BY <1>4, AfterAttests
<1>13. Head(c.todo) # Validates
  BY <1>4 DEF Attests, Validates
<1>14. Makes(e, Pool, clock)
  BY <1>4, <1>6, <1>7, <1>8, <1>9, <1>10, <1>11, <1>12, <1>13, MakesGoesOn
<1>15. Delivers(e, Pool, wire, clock)
  BY <1>4, <1>10, <1>14 DEF Delivers
<1>16. Bears(e) => Bears(call[t]) /\ e.gcos[2].span_id = call[t].gcos[2].span_id
  BY <1>1, <1>4, <1>5, <1>9, <1>11 DEF Bears
<1>17. \A u \in Threads \ {t} : Apart(e, call[u])
  BY <1>16, KeepsApart
<1> QED BY <1>2, <1>10, <1>15, <1>17, QuietDelivery

LEMMA StageDelivery ==
    ASSUME SentinelsApart, FlowInv, BoundaryInv, DeliveryInv, NEW t \in Threads,
           Stage(t), wire' = wire
    PROVE  DeliveryInv'
<1>1. CASE \E i \in 1 .. 2 : \/ Sample(t, i) \/ CheckAttestation(t, i)
                             \/ Expiry(t, i) \/ Decide(t, i)
  BY <1>1, LookDelivery
<1>2. CASE Validate(t)
  BY <1>2, LookDelivery
<1>3. CASE Request(t)
  BY <1>3, RequestDelivery
<1>4. CASE IssueAttestation(t)
  <2>1. /\ call[t].todo # <<>> /\ Head(call[t].todo) = <<"issue", 1>> /\ clock' = clock
    BY <1>4 DEF IssueAttestation, At
  <2>2. Head(call[t].todo)[1] \in Attests
    BY <2>1 DEF Attests
  <2>3. ASSUME NEW fault, NEW of, Deny(t, fault, of) PROVE DeliveryInv'
    BY <2>1, <2>3, DenyMeans, DeniedDelivery DEF FlowInv, history
  <2>4. \/ \E fault, of : Deny(t, fault, of)
        \/ \E a : IsAttestation(a) /\ Mint(t, a)
    BY <1>4 DEF IssueAttestation
  <2> QED BY <2>1, <2>2, <2>3, <2>4, MintDelivery
<1> QED BY <1>1, <1>2, <1>3, <1>4 DEF Stage

LEMMA AttestDelivery ==
    ASSUME SentinelsApart, FlowInv, BoundaryInv, DeliveryInv, NEW t \in Threads,
           SignPem(t) \/ Preview(t)
    PROVE  DeliveryInv'
<1>1. CASE SignPem(t)
  <2>1. /\ call[t].todo # <<>> /\ Head(call[t].todo) = <<"sign_pem", 1>>
        /\ clock' = clock /\ wire' = wire
    BY <1>1 DEF SignPem, At
  <2>2. Head(call[t].todo)[1] \in Attests
    BY <2>1 DEF Attests
  <2>3. PICK child : child = call[t].gcos[2]
    OBVIOUS
  <2>4. PICK key, a :
            /\ a = PemAttestation(call[t].gcos[1].model_identity, child, key)
            /\ Mint(t, a)
    BY <1>1, <2>3 DEF SignPem
  <2>5. child.expires_at \in Int
    BY <2>1, <2>2, <2>3 DEF FlowInv, Flow, IsAttested, IsGCO
  <2>6. Second * (child.expires_at \div Second) \in Int
    BY <2>5, BoundaryBounds
  <2>7. IsAttestation(a)
    BY <2>4, <2>6 DEF PemAttestation, IsAttestation, IsDate
  <2> QED BY <2>1, <2>2, <2>4, <2>7, MintDelivery
<1>2. CASE Preview(t)
  <2>1. /\ call[t].todo # <<>> /\ Head(call[t].todo) = <<"preview", 1>>
        /\ clock' = clock /\ wire' = wire
        /\ Mint(t, PreviewAttestation)
    BY <1>2 DEF Preview, At
  <2>2. Head(call[t].todo)[1] \in Attests
    BY <2>1 DEF Attests
  <2>3. IsAttestation(PreviewAttestation)
    BY DEF PreviewAttestation, IsAttestation, IsDate
  <2> QED BY <2>1, <2>2, <2>3, MintDelivery
<1> QED BY <1>1, <1>2

LEMMA ShowDelivery ==
    ASSUME SentinelsApart, FlowInv, BoundaryInv, DeliveryInv, NEW t \in Threads,
           ShowPreview(t)
    PROVE  DeliveryInv'
<1>1. PICK gcos : gcos = <<call[t].gcos[1]>>
  OBVIOUS
<1>2. /\ call[t].todo # <<>> /\ Head(call[t].todo) = Prints /\ clock' = clock
      /\ wire' = wire /\ Pass(t, call[t].now, gcos)
  BY <1>1 DEF ShowPreview, At, Prints
<1>3. CallsShaped /\ Legal(call[t].todo) /\ Listed(call[t].todo)
  BY <1>2 DEF FlowInv, Flow, Legal
<1>4. Tail(call[t].todo) = <<>>
  BY <1>2, <1>3, PrintsLast
<1>5. PICK d : d = [host |-> call[t].host, gcos |-> gcos, child |-> call[t].child,
                    began |-> call[t].began, at |-> clock]
  OBVIOUS
<1>6. /\ \A u \in Threads \ {t} : call'[u] = call[u]
      /\ call'[t].todo = <<>> /\ decisions' = Append(decisions, d)
  BY <1>2, <1>3, <1>4, <1>5, PassEnds
<1>7. d.child = call[t].child
  BY <1>5
<1> QED BY <1>2, <1>6, <1>7, LastDelivery

\* The programs of authorize_incoming are looks at what the _meta held.
LEMMA IncomingLooks ==
    ASSUME NEW gcos, Len(gcos) \in 1 .. 2
    PROVE  Range(IncomingProgram(gcos)) \subseteq Looks(Len(gcos))
<1>1. CASE Len(gcos) = 1
  <2>1. IncomingProgram(gcos) = AuthorizeProgram(1)
    BY <1>1 DEF IncomingProgram
  <2>2. \A s \in Range(AuthorizeProgram(1)) :
            s \in {<<"sample", 1>>, <<"check", 1>>, <<"expiry", 1>>, <<"decide", 1>>}
    BY DEF AuthorizeProgram, Range
  <2>3. \A stage \in {"sample", "check", "expiry", "decide"} :
            <<stage, 1>> \in Looks(1)
    BY DEF Looks
  <2> QED BY <1>1, <2>1, <2>2, <2>3
<1>2. CASE Len(gcos) = 2
  <2>1. PICK a : a = SubcallProgram
    OBVIOUS
  <2>2. PICK b : b = AuthorizeProgram(2)
    OBVIOUS
  <2>3. PICK p : p = a \o b
    OBVIOUS
  <2>4. Listed(a) /\ Listed(b)
    <3>1. b \in Seq({<<"sample", 2>>, <<"check", 2>>, <<"expiry", 2>>, <<"decide", 2>>})
      BY <2>2 DEF AuthorizeProgram
    <3> QED BY <2>1, <3>1, SeqListed, SubcallLegal DEF Legal
  <2>5. Concats(p, a, b)
    BY <2>3, <2>4, ListedConcat
  <2>6. \A s \in Range(p) : s \in Range(a) \/ s \in Range(b)
    <3> SUFFICES ASSUME NEW j \in DOMAIN p PROVE p[j] \in Range(a) \/ p[j] \in Range(b)
      BY DEF Range
    <3>1. /\ DOMAIN a = 1 .. Len(a) /\ Len(a) \in Nat
          /\ DOMAIN b = 1 .. Len(b) /\ Len(b) \in Nat
      BY <2>4, ListedFacts
    <3>2. CASE j \in 1 .. Len(a)
      BY <2>5, <3>1, <3>2 DEF Concats, Range
    <3>3. CASE j \notin 1 .. Len(a)
      <4>1. j - Len(a) \in 1 .. Len(b) /\ Len(a) + (j - Len(a)) = j
        BY <2>5, <3>1, <3>3 DEF Concats
      <4>2. p[j] = b[j - Len(a)]
        BY <2>5, <4>1 DEF Concats
      <4> QED BY <3>1, <4>1, <4>2 DEF Range
    <3> QED BY <3>2, <3>3
  <2>7. \A s \in Range(a) : s \in {<<"sample", 1>>, <<"check", 1>>, <<"sample", 2>>,
                                   <<"check", 2>>, <<"validate", 2>>}
    BY <2>1 DEF SubcallProgram, Range
  <2>8. \A s \in Range(b) :
            s \in {<<"sample", 2>>, <<"check", 2>>, <<"expiry", 2>>, <<"decide", 2>>}
    BY <2>2 DEF AuthorizeProgram, Range
  <2>9. /\ \A stage \in {"sample", "check"}, i \in 1 .. 2 : <<stage, i>> \in Looks(2)
        /\ \A stage \in {"expiry", "decide"} : <<stage, 2>> \in Looks(2)
        /\ <<"validate", 2>> \in Looks(2)
    BY DEF Looks, Validates
  <2>10. \A s \in Range(p) : s \in Looks(2)
    BY <2>6, <2>7, <2>8, <2>9
  <2>11. IncomingProgram(gcos) = p
    BY <1>2, <2>1, <2>2, <2>3 DEF IncomingProgram
  <2> QED BY <1>2, <2>10, <2>11
<1> QED BY <1>1, <1>2

LEMMA ExtractDelivery ==
    ASSUME SentinelsApart, FlowInv, BoundaryInv, DeliveryInv, NEW t \in Threads,
           Extract(t)
    PROVE  DeliveryInv'
<1>1. PICK c : c = call[t]
  OBVIOUS
<1>2. PICK gcos : gcos = Unpacked(c.meta)
  OBVIOUS
<1>3. /\ c.todo # <<>> /\ Head(c.todo) = Extracts /\ clock' = clock /\ wire' = wire
  BY <1>1 DEF Extract, At, Extracts
<1>4. /\ CallsShaped /\ Listed(c.todo) /\ Sending(c) /\ Sends(c.todo)
      /\ Delivers(c, Pool, wire, clock)
  BY <1>1, <1>3 DEF FlowInv, Flow, Legal, BoundaryInv, Sending, DeliveryInv
<1>5. c.fault = NONE /\ c.op = Arrives /\ Receives(c, Pool, wire)
  BY <1>3, <1>4 DEF Delivers, Makes
<1>6. CASE \E fault, of : Deny(t, fault, of)
  BY <1>3, <1>4, <1>6, DenyMeans, DeniedDelivery DEF history
<1>7. CASE Pass(t, c.now, <<>>)
  <2>1. 1 \in DOMAIN c.todo /\ c.todo[1] = Extracts
    BY <1>3, <1>4, TailFacts
  <2>2. Len(c.todo) = 1
    BY <1>4, <2>1 DEF Sends
  <2>3. Tail(c.todo) = <<>>
    BY <1>3, <1>4, <2>2, TailFacts
  <2>4. PICK d : d = [host |-> c.host, gcos |-> <<>>, child |-> c.child,
                      began |-> c.began, at |-> clock]
    OBVIOUS
  <2>5. /\ \A u \in Threads \ {t} : call'[u] = call[u]
        /\ call'[t].todo = <<>> /\ decisions' = Append(decisions, d)
    BY <1>1, <1>3, <1>4, <1>7, <2>3, <2>4, PassEnds
  <2>6. d.child = c.child
    BY <2>4
  <2> QED BY <1>1, <1>3, <2>5, <2>6, LastDelivery
<1>8. CASE /\ call' = [call EXCEPT ![t].gcos = gcos,
                                   ![t].fresh = Fresh(gcos),
                                   ![t].todo = IncomingProgram(gcos)]
           /\ UNCHANGED <<decisions, issued, begun>>
  <2>1. PICK e : e = call'[t]
    OBVIOUS
  <2>2. /\ \A u \in Threads \ {t} : call'[u] = call[u]
        /\ e.gcos = gcos /\ e.todo = IncomingProgram(gcos)
        /\ e.began = c.began /\ e.child = c.child /\ e.meta = c.meta
        /\ e.op = c.op /\ e.ask = c.ask /\ e.fault = c.fault
    <3>1. {"gcos", "fresh", "todo", "began", "child", "meta", "op", "ask", "fault"}
              \subseteq DOMAIN call[t] /\ t \in DOMAIN call
      BY <1>4 DEF CallsShaped, Idle
    <3>2. PICK fresh, todo : fresh = Fresh(gcos) /\ todo = IncomingProgram(gcos)
      OBVIOUS
    <3>3. call' = [call EXCEPT ![t].gcos = gcos, ![t].fresh = fresh, ![t].todo = todo]
      BY <1>8, <3>2
    <3>4. \A u \in Threads \ {t} : call'[u] = call[u]
      BY <1>4, <3>3 DEF CallsShaped
    <3>5. call'[t] = [call[t] EXCEPT !.gcos = gcos, !.fresh = fresh, !.todo = todo]
      BY <3>1, <3>3
    <3> QED BY <1>1, <2>1, <3>1, <3>2, <3>4, <3>5
  <2>3. Len(gcos) \in 1 .. 2
    BY <1>2 DEF Unpacked
  <2>4. Range(e.todo) \subseteq Looks(Len(e.gcos))
    BY <2>2, <2>3, IncomingLooks
  <2>5. Receives(e, Pool, wire)
    BY <1>2, <1>5, <2>2, <2>4 DEF Receives
  <2>6. Delivers(e, Pool, wire, clock)
    BY <1>5, <2>2, <2>5 DEF Delivers
  <2>7. \A u \in Threads \ {t} : Apart(e, call[u])
    BY <1>5, <2>2 DEF Apart, Bears
  <2> QED BY <1>3, <1>8, <2>1, <2>2, <2>6, <2>7, QuietDelivery
<1>9. \/ \E fault, of : Deny(t, fault, of)
      \/ Pass(t, c.now, <<>>)
      \/ /\ call' = [call EXCEPT ![t].gcos = gcos,
                                 ![t].fresh = Fresh(gcos),
                                 ![t].todo = IncomingProgram(gcos)]
         /\ UNCHANGED <<decisions, issued, begun>>
  BY <1>1, <1>2 DEF Extract, Unpacked
<1> QED BY <1>6, <1>7, <1>8, <1>9

(***************************************************************************)
(* attach(): the child has passed verification since the call began, was   *)
(* validated against the parent that goes with it, and none is too large.  *)
(***************************************************************************)
LEMMA AttachDelivery ==
    ASSUME SentinelsApart, FlowInv, BoundaryInv, DeliveryInv, NEW t \in Threads,
           Attach(t)
    PROVE  DeliveryInv'
<1>1. PICK attach \in Attaches :
          LET child  == call[t].gcos[2]
              parent == IF attach = "attach" THEN NONE ELSE call[t].gcos[1]
              fault  == AttachFault(call[t].host, child, parent)
          IN  /\ At(t, <<attach, 1>>)
              /\ Outcome(t, fault, child)
              /\ wire' = IF fault # "OK" THEN wire
                         ELSE wire \cup {Attached(call[t].meta, child, parent)}
              /\ UNCHANGED <<clock, entries>>
  BY DEF Attach, Attaches
<1>2. PICK c : c = call[t]
  OBVIOUS
<1>3. PICK child, parent :
          /\ child = c.gcos[2]
          /\ parent = IF attach = "attach" THEN NONE ELSE c.gcos[1]
  OBVIOUS
<1>4. PICK m : m = Attached(c.meta, child, parent)
  OBVIOUS
<1>5. PICK fault : fault = AttachFault(c.host, child, parent)
  OBVIOUS
<1>6. /\ c.todo # <<>> /\ Head(c.todo) = <<attach, 1>> /\ clock' = clock
      /\ Outcome(t, fault, child)
      /\ wire' = IF fault # "OK" THEN wire ELSE wire \cup {m}
  BY <1>1, <1>2, <1>3, <1>4, <1>5 DEF At
<1>7. Head(c.todo)[1] = attach
  BY <1>6
<1>8. /\ CallsShaped /\ Flow(c, clock) /\ Sending(c) /\ Listed(c.todo)
      /\ clock \in Nat /\ c.op # Arrives /\ Makes(c, Pool, clock)
  BY <1>2, <1>6, <1>7, MakersOwn, RuntimeBounds DEF FlowInv, BoundaryInv, Flow, Legal
<1>9. Tail(c.todo) = <<>> /\ Range(c.todo) = {Head(c.todo)}
  <2>1. /\ 1 \in DOMAIN c.todo /\ c.todo[1] = Head(c.todo)
        /\ \A s \in Range(c.todo) : s = Head(c.todo) \/ s \in Range(Tail(c.todo))
        /\ Head(c.todo) \in Range(c.todo)
    BY <1>6, <1>8, TailFacts, RangeOfTail
  <2>2. Len(c.todo) = 1
    BY <1>7, <1>8, <2>1 DEF Sending, Sends
  <2>3. Tail(c.todo) = <<>>
    BY <1>6, <1>8, <2>2, TailFacts
  <2>4. Range(<<>>) = {}
    BY DEF Range
  <2> QED BY <2>1, <2>3, <2>4
<1>10. c.child # NONE /\ Len(c.gcos) = 2 /\ child = c.child
  <2>1. \E s \in Range(c.todo) : s[1] \in Attaches
    BY <1>7, <1>9
  <2>2. ~\E s \in Range(c.todo) : s[1] \in Attests
    BY <1>7, <1>9 DEF Attests, Attaches
  <2> QED BY <1>3, <1>8, <2>1, <2>2 DEF Makes
<1>11. ASSUME fault # "OK" PROVE DeliveryInv'
  <2>1. Deny(t, fault, child) /\ wire' = wire
    BY <1>6, <1>11 DEF Outcome
  <2> QED BY <1>6, <1>8, <2>1, DenyMeans, DeniedDelivery DEF history
<1>12. ASSUME fault = "OK" PROVE DeliveryInv'
  <2>1. Pass(t, call[t].now, call[t].gcos) /\ wire' = wire \cup {m}
    BY <1>6, <1>12 DEF Outcome
  <2>2. ~Oversize(c.host, child) /\ (parent # NONE => ~Oversize(c.host, parent))
    <3>1. FirstFault(<<Check(~Oversize(c.host, child), "OVERSIZE_GCO"),
                       Check(parent # NONE => ~Oversize(c.host, parent),
                             "OVERSIZE_GCO")>>) = "OK"
      BY <1>5, <1>12 DEF AttachFault
    <3>2. /\ Check(~Oversize(c.host, child), "OVERSIZE_GCO") = "OK"
          /\ Check(parent # NONE => ~Oversize(c.host, parent), "OVERSIZE_GCO") = "OK"
      BY <3>1, PairPasses
    <3>4. ~Oversize(c.host, child)
      BY <3>2 DEF Check
    <3>5. parent # NONE => ~Oversize(c.host, parent)
      BY <3>2 DEF Check
    <3> QED BY <3>4, <3>5
  <2>3. ASSUME NEW k \in 1 .. 2
        PROVE  /\ c.gcos[k] # MALFORMED /\ IsAttested(c.gcos[k])
               /\ \E now \in 0 .. clock : Passes(c.gcos[k], now)
    <3>1. k \in DOMAIN c.gcos /\ c.began \in 0 .. clock
      BY <1>8, <1>10 DEF Flow
    <3>2. <<"check", k>> \notin Range(c.todo) /\ Prints \notin Range(c.todo)
      BY <1>7, <1>9 DEF Attaches, Prints
    <3>3. Sound(c.gcos[k]) /\ Verified(c.gcos[k], c.began, clock)
      BY <1>8, <3>1, <3>2 DEF Flow
    <3> QED BY <1>8, <3>1, <3>3 DEF Sound, Verified
  <2>4. Fit(child, clock) /\ (parent # NONE => Fit(parent, clock))
    <3>1. c.host \in Hosts
      BY <1>8 DEF Flow
    <3> QED BY <1>3, <2>2, <2>3, <3>1 DEF Fit
  <2>5. Validated(c.gcos[1], c.gcos[2], clock)
    BY <1>7, <1>8 DEF Makes
  <2>6. DOMAIN m = DOMAIN EmptyMeta /\ m.gco = child /\ m.parent = parent
    <3>1. PICK base : base = IF c.meta = NONE THEN EmptyMeta ELSE c.meta
      OBVIOUS
    <3>2. Carries(c.todo)
      BY <1>7, <1>9 DEF Carries
    <3>3. DOMAIN base = DOMAIN EmptyMeta
      BY <1>8, <3>1, <3>2 DEF Sending, IsMeta
    <3>4. m = [base EXCEPT !.gco = child, !.parent = parent]
      BY <1>4, <3>1 DEF Attached
    <3>5. {"gco", "parent"} \subseteq DOMAIN base
      BY <3>3 DEF EmptyMeta
    <3> QED BY <3>3, <3>4, <3>5
  <2>7. Sent(m, clock)
    BY <1>3, <1>10, <2>4, <2>5, <2>6 DEF Sent
  <2>8. PICK d : d = [host |-> call[t].host, gcos |-> call[t].gcos,
                      child |-> call[t].child, began |-> call[t].began, at |-> clock]
    OBVIOUS
  <2>9. /\ \A u \in Threads \ {t} : call'[u] = call[u]
        /\ call'[t].todo = <<>> /\ decisions' = Append(decisions, d)
    BY <1>2, <1>6, <1>8, <1>9, <2>1, <2>8, PassEnds
  <2>10. d.child = call[t].child
    BY <2>8
  <2> QED BY <1>2, <1>6, <1>10, <2>1, <2>6, <2>7, <2>9, <2>10, LastDelivery
<1> QED BY <1>11, <1>12

-----------------------------------------------------------------------------
(* How the calls begin, time, and the invariant *)

(***************************************************************************)
(* What circulates and passes verification has a body that was returned:   *)
(* its attestation names the body of the member it was taken from.         *)
(***************************************************************************)
LEMMA OfferedKnown ==
    ASSUME SentinelsApart, FlowInv, NEW g \in Offered
    PROVE  Known(g, Pool)
<1> SUFFICES ASSUME Accepted(g), "span_id" \in DOMAIN g
             PROVE  \E h \in Pool : h.span_id = g.span_id
  BY DEF Known
<1>1. PICK now \in Int : Passes(g, now)
  BY DEF Accepted
<1>2. g # MALFORMED /\ IsAttested(g)
  BY DEF Accepted, IsAttested, SentinelsApart
<1>3. CASE g \in Forged
  <2>1. PICK h \in Pool : g.attestation = h.attestation
    BY <1>1, <1>3, PassesSigned DEF Forged
  <2>2. Backed(h) /\ ~Dud(h.attestation)
    BY <1>1, <2>1, PoolBacked, DudFails
  <2>3. Claims(h).gco_hash = canonical_gco_hash(h)
    BY <2>2 DEF Backed, Bound
  <2>4. Claims(g).gco_hash = canonical_gco_hash(g)
    BY <1>1, VerifiedFresh DEF Passes, Claims
  <2>5. canonical_gco_hash(g) = canonical_gco_hash(h)
    BY <2>1, <2>3, <2>4 DEF Claims
  <2>6. \A x : /\ DOMAIN canonical_gco_hash(x) = DOMAIN x \ {"attestation"}
               /\ \A f \in DOMAIN x \ {"attestation"} : canonical_gco_hash(x)[f] = x[f]
    BY DEF canonical_gco_hash
  <2>7. "span_id" \in DOMAIN g \ {"attestation"}
    OBVIOUS
  <2>8. "span_id" \in DOMAIN h \ {"attestation"}
    BY <2>5, <2>6, <2>7
  <2>9. h["span_id"] = g["span_id"]
    BY <2>5, <2>6, <2>7, <2>8
  <2> QED BY <2>9
<1> QED BY <1>2, <1>3 DEF Offered

LEMMA ArrivingKnown ==
    ASSUME SentinelsApart, FlowInv, BoundaryInv, DeliveryInv, NEW m \in Arriving, m # NONE
    PROVE  Known(m.gco, Pool)
<1>1. \A g \in Pool : Known(g, Pool)
  BY DEF Known
<1>2. CASE m \in wire
  BY <1>1, <1>2 DEF DeliveryInv
<1>3. CASE m \in BaseMetas
  <2>1. m.gco = NONE
    BY <1>3, BaseMetasAssumption
  <2> QED BY <2>1 DEF Known, Accepted, IsAttested, SentinelsApart
<1>4. ASSUME NEW s \in wire,
             m = [s EXCEPT !.capable = FALSE] \/ m = [s EXCEPT !.handle = MALFORMED]
      PROVE  Known(m.gco, Pool)
  <2>1. DOMAIN s = DOMAIN EmptyMeta
    BY DEF BoundaryInv, IsMeta
  <2>2. m.gco = s.gco
    BY <1>4, <2>1 DEF EmptyMeta
  <2> QED BY <1>1, <2>2 DEF DeliveryInv
<1>5. ASSUME NEW both \in (Offered \X (Pool \cup {NONE}))
                              \cup ({s.gco : s \in wire} \X Offered),
             m = [EmptyMeta EXCEPT !.capable = TRUE, !.gco = both[1], !.parent = both[2]]
      PROVE  Known(m.gco, Pool)
  <2>1. PICK g : g = both[1]
    OBVIOUS
  <2>2. m.gco = g
    BY <1>5, <2>1 DEF EmptyMeta
  <2>3. g \in Offered \/ g \in Pool
    BY <1>5, <2>1 DEF DeliveryInv
  <2> QED BY <1>1, <2>2, <2>3, OfferedKnown
<1> QED BY <1>2, <1>3, <1>4, <1>5 DEF Arriving

LEMMA BeginDelivery ==
    ASSUME SentinelsApart, FlowInv, BoundaryInv, DeliveryInv, NEW t \in Threads,
           StartsCall(t), wire' = wire
    PROVE  DeliveryInv'
<1>1. PICK c : /\ Begin(t, c) /\ WellMade(c)
               /\ Opens(c) \/ \E meta \in Arriving : Takes(c, meta)
  BY StartsMean
<1>2. PICK e : e = call'[t]
  OBVIOUS
<1>3. /\ \A u \in Threads \ {t} : call'[u] = call[u]
      /\ UNCHANGED <<clock, decisions>>
      /\ e.gcos = c.gcos /\ e.todo = c.todo /\ e.child = NONE /\ e.began = clock
      /\ "meta" \in DOMAIN c => e.meta = c.meta
      /\ "op" \in DOMAIN c => e.op = c.op
      /\ "ask" \in DOMAIN c => e.ask = c.ask
      /\ "fault" \notin DOMAIN c => e.fault = NONE
  BY <1>1, <1>2, BeginMeans DEF WellMade, FlowInv
<1>4. Len(c.gcos) # 2
  <2>1. Len(c.gcos) \in 0 .. 1
    BY <1>1, Zenon DEF WellMade
  <2> QED BY <2>1
<1>5. Delivers(e, Pool, wire, clock)
  <2>1. CASE Opens(c)
    <3>1. e.op # Arrives /\ e.fault = NONE /\ Head(e.todo) = <<"sample", 1>>
      BY <1>3, <2>1 DEF Opens
    <3>2. Head(e.todo) # Extracts /\ Head(e.todo)[1] \notin Attaches
      BY <3>1 DEF Extracts, Attaches
    <3>3. Makes(e, Pool, clock)
      BY <1>3, <1>4, <2>1, <3>2 DEF Makes, Opens
    <3> QED BY <3>1, <3>3 DEF Delivers
  <2>2. ASSUME NEW meta \in Arriving, Takes(c, meta)
        PROVE  Delivers(e, Pool, wire, clock)
    <3>1. /\ e.op = Arrives /\ e.fault = NONE /\ e.ask \in ToolAsks
          /\ e.meta = meta /\ e.todo = <<Extracts>>
      BY <1>3, <2>2 DEF Takes
    <3>2. meta # NONE => Known(meta.gco, Pool)
      BY <2>2, ArrivingKnown
    <3>3. meta \in wire => Sent(meta, clock)
      BY DEF DeliveryInv
    <3>4. Receives(e, Pool, wire)
      BY <1>3, <3>1, <3>2, <3>3 DEF Receives
    <3> QED BY <3>1, <3>4 DEF Delivers
  <2> QED BY <1>1, <2>1, <2>2
<1>6. \A u \in Threads \ {t} : Apart(e, call[u])
  BY <1>3, <1>4 DEF Apart, Bears
<1> QED BY <1>2, <1>3, <1>5, <1>6, QuietDelivery

LEMMA TickDelivery ==
    ASSUME FlowInv, DeliveryInv, Tick, wire' = wire
    PROVE  DeliveryInv'
<1>1. /\ clock \in Nat /\ clock' \in Nat /\ clock <= clock'
      /\ call' = call /\ decisions' = decisions
  BY RuntimeBounds DEF FlowInv, Tick, history
<1>2. PICK later : later = clock'
  OBVIOUS
<1>3. Pool' = Pool
  BY <1>1 DEF Pool, Returned
<1>4. 0 .. clock \subseteq 0 .. later
  BY <1>1, <1>2
<1>5. /\ \A g : Fit(g, clock) => Fit(g, later)
      /\ \A p, g : Validated(p, g, clock) => Validated(p, g, later)
  BY <1>4 DEF Fit, Validated
<1>6. \A m : Sent(m, clock) => Sent(m, later)
  BY <1>5 DEF Sent
<1>7. \A c : Makes(c, Pool, clock) => Makes(c, Pool, later)
  BY <1>5 DEF Makes
<1>8. \A c : Delivers(c, Pool, wire, clock) => Delivers(c, Pool, wire, later)
  BY <1>7 DEF Delivers
<1>9. \A t \in Threads : call'[t].todo # <<>> => Delivers(call'[t], Pool', wire', clock')
  BY <1>1, <1>2, <1>3, <1>8 DEF DeliveryInv
<1>10. \A t, u \in Threads : t # u => Apart(call'[t], call'[u])
  BY <1>1 DEF DeliveryInv
<1>11. \A m \in wire' : Sent(m, clock') /\ m.gco \in Pool'
  BY <1>2, <1>3, <1>6 DEF DeliveryInv
<1> QED BY <1>9, <1>10, <1>11 DEF DeliveryInv

LEMMA InitDelivery == BInit => DeliveryInv
<1> SUFFICES ASSUME BInit PROVE DeliveryInv
  OBVIOUS
<1>1. wire = {} /\ \A t \in Threads : call[t].todo = <<>>
  BY DEF BInit, Init, Idle
<1> QED BY <1>1 DEF DeliveryInv, Apart, Bears

LEMMA StepDelivery ==
    ASSUME SentinelsApart, FlowInv, BoundaryInv, DeliveryInv, [BNext]_bvars
    PROVE  DeliveryInv'
<1>1. CASE UNCHANGED bvars
  <2>1. call' = call /\ wire' = wire /\ clock' = clock /\ decisions' = decisions
    BY <1>1 DEF bvars, vars
  <2>2. Pool' = Pool
    BY <2>1 DEF Pool, Returned
  <2> QED BY <2>1, <2>2 DEF DeliveryInv
<1>2. CASE Tick /\ UNCHANGED wire
  BY <1>2, TickDelivery
<1>3. ASSUME NEW t \in Threads, StartsCall(t), wire' = wire PROVE DeliveryInv'
  BY <1>3, BeginDelivery
<1>4. ASSUME NEW t \in Threads, Stage(t), wire' = wire PROVE DeliveryInv'
  BY <1>4, StageDelivery
<1> QED BY <1>1, <1>2, <1>3, <1>4, ExtractDelivery, AttachDelivery, AttestDelivery,
           ShowDelivery DEF BNext, StartsCall

-----------------------------------------------------------------------------
(* Why what was sent is refused *)

Cause(c, fault) ==
    \/ fault = "MISSING_CAPABILITY" /\ ~c.meta.capable
    \/ fault = "MALFORMED_GCO" /\ c.meta.handle = MALFORMED
    \/ fault = "TOOL_AUTHORITY_EXPANDED" /\ DecideFault(c.meta.gco, c.ask) # "OK"
    \/ /\ fault \in {"EXPIRED", "EXPIRED_ATTESTATION"}
       /\ \E g \in Range(c.gcos) : g.expires_at <= clock \/ Claims(g).exp <= clock
    \/ /\ fault = "OVERSIZE_GCO"
       /\ \E g \in {c.meta.gco, c.meta.parent} \ {NONE} :
              Oversize(c.host, g) /\ \E h \in Hosts : ~Oversize(h, g)
    \/ /\ fault = "UNTRUSTED_KEY"
       /\ \E g \in Range(c.gcos) : RanOut(g) \/ PassesElsewhere(g, c.host, "domains")
    \/ /\ fault \in {"UNVERIFIED_SIGNATURE", "MALFORMED_ATTESTATION"}
       /\ \E g \in Range(c.gcos) : PassesElsewhere(g, c.host, "domains")
    \/ /\ fault = "AUDIENCE_MISMATCH"
       /\ \E g \in Range(c.gcos) : PassesElsewhere(g, c.host, "expected_audience")
    \/ fault \in {"REPLAY_DETECTED", "JTI_MISSING"} /\ c.host \in Protected

\* A call of authorize_incoming under way, whose _meta was sent.
Honest(t) ==
    /\ call[t].todo # <<>> /\ call[t].op = Arrives /\ call[t].meta \in wire

\* What authorize_incoming took from a _meta that was sent was fit to be sent.
LEMMA HonestGcos ==
    ASSUME FlowInv, DeliveryInv, NEW t \in Threads, Honest(t),
           NEW i \in 1 .. 2, NEW stage, Head(call[t].todo) = <<stage, i>>,
           stage # "extract"
    PROVE  LET c == call[t]
           IN  /\ Len(c.gcos) \in 1 .. 2 /\ c.gcos[Len(c.gcos)] = c.meta.gco
               /\ i \in 1 .. Len(c.gcos) /\ DOMAIN c.gcos = 1 .. Len(c.gcos)
               /\ Fit(c.gcos[i], c.began) /\ IsAttested(c.gcos[Len(c.gcos)])
               /\ stage \in {"expiry", "decide", "validate"} => i = Len(c.gcos)
               /\ stage = "validate" =>
                      Len(c.gcos) = 2 /\ Validated(c.gcos[1], c.gcos[2], c.began)
<1>1. PICK c : c = call[t]
  OBVIOUS
<1>2. Receives(c, Pool, wire) /\ Sent(c.meta, c.began) /\ Listed(c.todo) /\ c.todo # <<>>
  BY <1>1 DEF Honest, DeliveryInv, Delivers, Receives, FlowInv, Flow, Legal
<1>3. Head(c.todo) # Extracts
  BY <1>1 DEF Extracts
<1>4. Head(c.todo) \in Looks(Len(c.gcos)) /\ c.gcos = Unpacked(c.meta)
  BY <1>2, <1>3, LooksOnly
<1>5. \/ /\ Len(c.gcos) = 1 /\ DOMAIN c.gcos = 1 .. 1
         /\ c.gcos[1] = c.meta.gco /\ c.meta.parent = NONE
      \/ /\ Len(c.gcos) = 2 /\ DOMAIN c.gcos = 1 .. 2 /\ c.meta.parent # NONE
         /\ c.gcos[1] = c.meta.parent /\ c.gcos[2] = c.meta.gco
  BY <1>4 DEF Unpacked
<1>6. \A k \in 1 .. Len(c.gcos) : Fit(c.gcos[k], c.began)
  BY <1>2, <1>5 DEF Sent
<1>7. Len(c.gcos) = 2 => Validated(c.gcos[1], c.gcos[2], c.began)
  BY <1>2, <1>5 DEF Sent
<1>8. /\ i \in 1 .. Len(c.gcos)
      /\ stage \in {"expiry", "decide", "validate"} => i = Len(c.gcos)
      /\ stage = "validate" => Len(c.gcos) = 2
  <2>1. <<stage, i>> \in Looks(Len(c.gcos))
    BY <1>1, <1>4
  <2>2. \/ \E s \in {"sample", "check"}, k \in 1 .. Len(c.gcos) : <<stage, i>> = <<s, k>>
        \/ \E s \in {"expiry", "decide"} : <<stage, i>> = <<s, Len(c.gcos)>>
        \/ Len(c.gcos) = 2 /\ <<stage, i>> = <<"validate", 2>>
    BY <2>1 DEF Looks, Validates
  <2>3. \/ stage \in {"sample", "check"} /\ i \in 1 .. Len(c.gcos)
        \/ stage \in {"expiry", "decide"} /\ i = Len(c.gcos)
        \/ Len(c.gcos) = 2 /\ stage = "validate" /\ i = 2
    BY <2>2
  <2>4. Len(c.gcos) \in 1 .. 2
    BY <1>5
  <2>5. PICK n : n = Len(c.gcos)
    OBVIOUS
  <2>6. /\ i \in 1 .. n
        /\ stage \in {"expiry", "decide", "validate"} => i = n
        /\ stage = "validate" => n = 2
    <3>1. n \in 1 .. 2
      BY <2>4, <2>5
    <3>2. CASE stage \in {"sample", "check"} /\ i \in 1 .. n
      BY <3>2
    <3>3. CASE stage \in {"expiry", "decide"} /\ i = n
      BY <3>1, <3>3
    <3>4. CASE n = 2 /\ stage = "validate" /\ i = 2
      BY <3>4
    <3> QED BY <2>3, <2>5, <3>2, <3>3, <3>4
  <2> QED BY <2>5, <2>6
<1>9. IsAttested(c.gcos[Len(c.gcos)])
  BY <1>5, <1>6 DEF Fit
<1> QED BY <1>1, <1>5, <1>6, <1>7, <1>8, <1>9

LEMMA PassFault ==
    ASSUME FlowInv, NEW t \in Threads, call[t].todo # <<>>, call[t].fault = NONE,
           NEW now, NEW gcos, Pass(t, now, gcos)
    PROVE  call'[t].fault = NONE
<1>1. CallsShaped /\ Listed(call[t].todo)
  BY DEF FlowInv, Flow, Legal
<1> QED BY <1>1, PassGoesOn, PassEnds

LEMMA OutcomeFault ==
    ASSUME FlowInv, NEW t \in Threads, call[t].todo # <<>>, call[t].fault = NONE,
           NEW fault, NEW of, Outcome(t, fault, of), call'[t].fault # NONE
    PROVE  fault # "OK" /\ call'[t].fault = fault
<1>1. CASE fault = "OK"
  BY <1>1, PassFault DEF Outcome
<1>2. CASE fault # "OK"
  BY <1>2, DenyMeans DEF Outcome, FlowInv
<1> QED BY <1>1, <1>2

\* The stages of the runtime.
LEMMA LookCause ==
    ASSUME FlowInv, DeliveryInv, NEW t \in Threads, Honest(t), NEW i \in 1 .. 2,
           Sample(t, i) \/ Expiry(t, i) \/ Decide(t, i), call'[t].fault # NONE
    PROVE  Cause(call[t], call'[t].fault)
<1>1. PICK c : c = call[t]
  OBVIOUS
<1>2. /\ c.todo # <<>> /\ c.fault = NONE /\ c.ask \in ToolAsks
      /\ clock \in Nat /\ c.began \in 0 .. clock
  BY <1>1, RuntimeBounds DEF Honest, DeliveryInv, Delivers, Receives, FlowInv, Flow
<1>3. CASE Sample(t, i)
  <2>1. Head(c.todo) = <<"sample", i>>
    BY <1>1, <1>3 DEF Sample, At
  <2>2. c.gcos[i] # MALFORMED
    BY <1>1, <2>1, HonestGcos DEF Fit
  <2>3. Pass(t, clock, call[t].gcos)
    BY <1>1, <1>3, <2>2 DEF Sample
  <2> QED BY <1>1, <1>2, <2>3, PassFault
<1>4. CASE Expiry(t, i)
  <2>1. Head(c.todo) = <<"expiry", i>>
    BY <1>1, <1>4 DEF Expiry, At
  <2>2. i = Len(c.gcos) /\ DOMAIN c.gcos = 1 .. Len(c.gcos) /\ IsAttested(c.gcos[i])
    BY <1>1, <2>1, HonestGcos
  <2>3. PICK fault : fault = Check(c.gcos[i].expires_at > clock, "EXPIRED")
    OBVIOUS
  <2>4. fault # "OK" /\ call'[t].fault = fault
    BY <1>1, <1>2, <1>4, <2>3, OutcomeFault DEF Expiry
  <2>5. fault = "EXPIRED" /\ ~(c.gcos[i].expires_at > clock)
    BY <2>3, <2>4 DEF Check
  <2>6. c.gcos[i].expires_at <= clock
    BY <1>2, <2>2, <2>5 DEF IsAttested, IsGCO
  <2>7. c.gcos[i] \in Range(c.gcos)
    <3>1. i \in DOMAIN c.gcos
      BY <2>2
    <3> QED BY <3>1 DEF Range
  <2> QED BY <1>1, <2>4, <2>5, <2>6, <2>7 DEF Cause
<1>5. CASE Decide(t, i)
  <2>1. Head(c.todo) = <<"decide", i>>
    BY <1>1, <1>5 DEF Decide, At
  <2>2. c.gcos[i] = c.meta.gco
    BY <1>1, <2>1, HonestGcos
  <2>3. PICK fault : fault = DecideFault(c.meta.gco, c.ask)
    OBVIOUS
  <2>4. fault # "OK" /\ call'[t].fault = fault
    BY <1>1, <1>2, <1>5, <2>2, <2>3, OutcomeFault DEF Decide
  <2>5. c.ask[1] = "tool"
    BY <1>2 DEF ToolAsks
  <2>6. fault = ToolCallFault(c.meta.gco, c.ask[2], c.ask[3])
    BY <2>3, <2>5 DEF DecideFault
  <2>7. fault \in {"OK", "TOOL_AUTHORITY_EXPANDED"}
    BY <2>6 DEF ToolCallFault, Check
  <2> QED BY <1>1, <2>3, <2>4, <2>7 DEF Cause
<1> QED BY <1>3, <1>4, <1>5

\* What passed before, at whatever host, fails now only with time or at a host
\* with other settings, and a jti only in a cache.
LEMMA CheckCause ==
    ASSUME FlowInv, DeliveryInv, NEW t \in Threads, Honest(t), NEW i \in 1 .. 2,
           CheckAttestation(t, i), call'[t].fault # NONE
    PROVE  Cause(call[t], call'[t].fault)
<1>1. PICK c : c = call[t]
  OBVIOUS
<1>2. PICK g : g = c.gcos[i]
  OBVIOUS
<1>3. PICK fault : fault = VerifyFault(Trust[c.host], g.attestation, g, c.now)
  OBVIOUS
<1>4. /\ c.todo # <<>> /\ c.fault = NONE /\ Head(c.todo) = <<"check", i>>
      /\ CallsShaped /\ Flow(c, clock) /\ clock \in Nat
  BY <1>1, RuntimeBounds DEF Honest, DeliveryInv, Delivers, FlowInv, CheckAttestation, At
<1>5. Fit(g, c.began) /\ g \in Range(c.gcos)
  <2>1. Fit(c.gcos[i], c.began) /\ i \in 1 .. Len(c.gcos) /\ DOMAIN c.gcos = 1 .. Len(c.gcos)
    BY <1>1, <1>4, HonestGcos
  <2> QED BY <1>2, <2>1 DEF Range
<1>6. PICK before \in 0 .. c.began : Passes(g, before)
  BY <1>5 DEF Fit
<1>7. /\ before \in Int /\ c.now \in Int /\ clock \in Int
      /\ before <= c.now /\ c.now <= clock
  <2>1. c.began \in 0 .. clock /\ c.now \in 0 .. clock /\ c.began <= c.now
    BY <1>4 DEF Flow
  <2> QED BY <1>4, <1>6, <2>1
<1>8. IsAttestation(g.attestation)
  BY <1>5 DEF Fit, IsAttested
<1>9. PICK h \in Hosts : VerifyFault(Trust[h], g.attestation, g, before) = "OK"
  BY <1>6 DEF Passes
<1>10. ElsewhereFault(Trust[h], Trust[c.host], g.attestation, c.now, fault)
  BY <1>3, <1>7, <1>8, <1>9, VerifyElsewhere
<1>11. \/ Outcome(t, fault, g)
       \/ /\ c.host \in Protected
          /\ Deny(t, "JTI_MISSING", g) \/ Deny(t, "REPLAY_DETECTED", g)
  BY <1>1, <1>2, <1>3 DEF CheckAttestation, Outcome
<1>12. CASE Outcome(t, fault, g)
  <2>1. fault # "OK" /\ call'[t].fault = fault
    BY <1>1, <1>4, <1>12, OutcomeFault
  <2>2. \A setting \in {"domains", "expected_audience"} :
            Trust[c.host][setting] # Trust[h][setting]
                => PassesElsewhere(g, c.host, setting)
    <3>1. before \in 0 .. clock
      BY <1>4, <1>6, <1>7
    <3> QED BY <1>9, <3>1 DEF PassesElsewhere
  <2>3. CASE fault = "EXPIRED_ATTESTATION" /\ Claims(g).exp \in Int /\ Claims(g).exp <= c.now
    <3>1. Claims(g).exp <= clock
      BY <1>7, <2>3
    <3> QED BY <1>1, <1>5, <2>1, <2>3, <3>1 DEF Cause
  <2>4. CASE /\ fault = "UNTRUSTED_KEY" /\ g.attestation.format = "X509_SVID"
             /\ g.attestation.value.header.x5c.not_after \in Int
             /\ g.attestation.value.header.x5c.not_after < c.now
    <3>1. g.attestation.value.header.x5c.not_after < clock
      BY <1>7, <2>4
    <3> QED BY <1>1, <1>5, <2>1, <2>4, <3>1 DEF Cause, RanOut
  <2>5. CASE /\ fault = "AUDIENCE_MISMATCH"
             /\ Trust[c.host].expected_audience # Trust[h].expected_audience
    BY <1>1, <1>5, <2>1, <2>2, <2>5 DEF Cause
  <2>6. CASE /\ fault \in {"UNTRUSTED_KEY", "UNVERIFIED_SIGNATURE",
                           "MALFORMED_ATTESTATION"}
             /\ Trust[c.host].domains # Trust[h].domains
    BY <1>1, <1>5, <2>1, <2>2, <2>6 DEF Cause
  <2> QED BY <1>10, <2>1, <2>3, <2>4, <2>5, <2>6 DEF ElsewhereFault, Claims
<1>13. CASE /\ c.host \in Protected
            /\ Deny(t, "JTI_MISSING", g) \/ Deny(t, "REPLAY_DETECTED", g)
  <2>1. call'[t].fault \in {"JTI_MISSING", "REPLAY_DETECTED"}
    BY <1>4, <1>13, DenyMeans
  <2> QED BY <1>1, <1>13, <2>1 DEF Cause
<1> QED BY <1>11, <1>12, <1>13

LEMMA ValidateCause ==
    ASSUME FlowInv, DeliveryInv, NEW t \in Threads, Honest(t), Validate(t),
           call'[t].fault # NONE
    PROVE  Cause(call[t], call'[t].fault)
<1>1. PICK c : c = call[t]
  OBVIOUS
<1>2. PICK fault : fault = ValidateFault(c.gcos[1], c.gcos[2], clock)
  OBVIOUS
<1>3. /\ c.todo # <<>> /\ c.fault = NONE /\ Head(c.todo) = <<"validate", 2>>
      /\ clock \in Nat
  BY <1>1, RuntimeBounds DEF Honest, DeliveryInv, Delivers, FlowInv, Validate, At
<1>4. /\ Len(c.gcos) = 2 /\ DOMAIN c.gcos = 1 .. 2 /\ IsAttested(c.gcos[2])
      /\ Validated(c.gcos[1], c.gcos[2], c.began)
  <2>1. 2 \in 1 .. 2
    OBVIOUS
  <2> QED BY <1>1, <1>3, <2>1, HonestGcos
<1>5. fault # "OK" /\ call'[t].fault = fault
  BY <1>1, <1>2, <1>3, OutcomeFault DEF Validate
<1>6. fault = "EXPIRED" /\ c.gcos[2].expires_at <= clock
  <2>1. PICK before : ValidateFault(c.gcos[1], c.gcos[2], before) = "OK"
    BY <1>4 DEF Validated
  <2>2. c.gcos[2].expires_at \in Int /\ clock \in Int
    BY <1>3, <1>4 DEF IsAttested, IsGCO
  <2> QED BY <1>2, <1>5, <2>1, <2>2, ValidateLater
<1>7. c.gcos[2] \in Range(c.gcos)
  BY <1>4 DEF Range
<1> QED BY <1>1, <1>5, <1>6, <1>7 DEF Cause

\* The boundary's own stage.
LEMMA ExtractCause ==
    ASSUME SentinelsApart, FlowInv, BoundaryInv, DeliveryInv, NEW t \in Threads,
           Honest(t), Extract(t), call'[t].fault # NONE
    PROVE  Cause(call[t], call'[t].fault)
<1>1. PICK c : c = call[t]
  OBVIOUS
<1>2. PICK meta : meta = c.meta
  OBVIOUS
<1>3. /\ CallsShaped /\ c.todo # <<>> /\ c.fault = NONE /\ Sent(meta, c.began)
  BY <1>1, <1>2 DEF Honest, DeliveryInv, Delivers, Receives, FlowInv
<1>4. meta # NONE
  BY <1>1, <1>2 DEF Honest, BoundaryInv, IsMeta, SentinelsApart
<1>5. CASE ~Advertised(meta) /\ Deny(t, "MISSING_CAPABILITY", NONE)
  <2>1. call'[t].fault = "MISSING_CAPABILITY"
    BY <1>3, <1>5, DenyMeans
  <2>2. ~meta.capable
    BY <1>4, <1>5 DEF Advertised
  <2> QED BY <1>1, <1>2, <2>1, <2>2 DEF Cause
<1>6. CASE /\ ExtractFault(c.host, meta) # "OK"
           /\ Deny(t, ExtractFault(c.host, meta), NONE)
  <2>1. PICK fault : fault = ExtractFault(c.host, meta)
    OBVIOUS
  <2>2. call'[t].fault = fault /\ fault # "OK"
    BY <1>3, <1>6, <2>1, DenyMeans
  <2>3. ASSUME NEW g, Fit(g, c.began), LoadFault(c.host, g) # "OK"
        PROVE  /\ LoadFault(c.host, g) = "OVERSIZE_GCO"
               /\ Oversize(c.host, g) /\ \E h \in Hosts : ~Oversize(h, g)
    <3>1. PICK a, b : /\ a = Check(~Oversize(c.host, g), "OVERSIZE_GCO")
                      /\ b = Check(g # MALFORMED, "MALFORMED_GCO")
      OBVIOUS
    <3>2. LoadFault(c.host, g) = IF a # "OK" THEN a ELSE b
      BY <3>1, FirstOfTwo DEF LoadFault
    <3>3. b = "OK"
      BY <2>3, <3>1 DEF Fit, Check
    <3> QED BY <2>3, <3>1, <3>2, <3>3 DEF Fit, Check
  <2>4. PICK checks :
            checks = <<LoadFault(c.host, meta.gco),
                       IF meta.parent = NONE THEN "OK" ELSE LoadFault(c.host, meta.parent),
                       Check(meta.handle # MALFORMED, "MALFORMED_GCO")>>
    OBVIOUS
  <2>5. /\ Len(checks) = 3 /\ DOMAIN checks = 1 .. Len(checks) /\ Len(checks) \in Nat
        /\ checks[1] = LoadFault(c.host, meta.gco)
        /\ checks[2] = IF meta.parent = NONE THEN "OK" ELSE LoadFault(c.host, meta.parent)
        /\ checks[3] = Check(meta.handle # MALFORMED, "MALFORMED_GCO")
    BY <2>4
  <2>6. fault = FirstFault(checks)
    BY <1>3, <2>1, <2>4 DEF ExtractFault, Sent
  <2>7. fault \in {checks[1], checks[2], checks[3]}
    <3>1. PICK i \in DOMAIN checks : fault = checks[i]
      BY <2>2, <2>5, <2>6, FirstFaultIs
    <3> QED BY <2>5, <3>1
  <2>8. CASE fault = checks[1]
    <3>1. meta.gco # NONE /\ Fit(meta.gco, c.began)
      BY <1>3 DEF Sent
    <3> QED BY <1>1, <1>2, <2>2, <2>3, <2>5, <2>8, <3>1 DEF Cause
  <2>9. CASE fault = checks[2]
    <3>1. meta.parent # NONE /\ Fit(meta.parent, c.began)
      BY <1>3, <2>2, <2>5, <2>9 DEF Sent
    <3> QED BY <1>1, <1>2, <2>2, <2>3, <2>5, <2>9, <3>1 DEF Cause
  <2>10. CASE fault = checks[3]
    BY <1>1, <1>2, <2>2, <2>5, <2>10 DEF Cause, Check
  <2> QED BY <2>7, <2>8, <2>9, <2>10
<1>7. CASE Pass(t, c.now, <<>>)
  BY <1>1, <1>3, <1>7, PassFault
<1>8. CASE \E gcos, fresh, todo : call' = [call EXCEPT ![t].gcos = gcos,
                                                   ![t].fresh = fresh, ![t].todo = todo]
  <2>1. PICK gcos, fresh, todo : call' = [call EXCEPT ![t].gcos = gcos,
                                                      ![t].fresh = fresh, ![t].todo = todo]
    BY <1>8
  <2>2. {"gcos", "fresh", "todo", "fault"} \subseteq DOMAIN call[t] /\ t \in DOMAIN call
    BY <1>3 DEF CallsShaped, Idle
  <2>3. call'[t].fault = call[t].fault
    BY <2>1, <2>2
  <2> QED BY <1>1, <1>3, <2>3
<1>9. \/ ~Advertised(meta) /\ Deny(t, "MISSING_CAPABILITY", NONE)
      \/ ExtractFault(c.host, meta) # "OK" /\ Deny(t, ExtractFault(c.host, meta), NONE)
      \/ Pass(t, c.now, <<>>)
      \/ \E gcos, fresh, todo : call' = [call EXCEPT ![t].gcos = gcos,
                                                   ![t].fresh = fresh, ![t].todo = todo]
  BY <1>1, <1>2 DEF Extract
<1> QED BY <1>5, <1>6, <1>7, <1>8, <1>9

\* A step is one thread's.
Acts(t) ==
    \/ (StartsCall(t) \/ Stage(t)) /\ wire' = wire
    \/ Extract(t) \/ Attach(t) \/ SignPem(t) \/ Preview(t) \/ ShowPreview(t)

LEMMA OthersWait ==
    ASSUME FlowInv, BoundaryInv, NEW t \in Threads, Acts(t)
    PROVE  \A u \in Threads \ {t} : call'[u] = call[u]
<1>1. CASE StartsCall(t)
  BY <1>1, StartsMean, BeginMeans DEF WellMade, FlowInv
<1>2. CASE Stage(t)
  BY <1>2, StageMoves DEF Moves
<1>3. CASE Extract(t)
  <2>1. call[t].todo # <<>>
    BY <1>3 DEF Extract, At
  <2>2. CallsShaped /\ Listed(call[t].todo)
    BY <2>1 DEF FlowInv, Flow, Legal
  <2>3. \/ \E fault : Deny(t, fault, NONE)
        \/ Pass(t, call[t].now, <<>>)
        \/ \E gcos, fresh, todo : call' = [call EXCEPT ![t].gcos = gcos,
                                               ![t].fresh = fresh, ![t].todo = todo]
    BY <1>3 DEF Extract
  <2>4. CASE \E fault : Deny(t, fault, NONE)
    BY <2>2, <2>4, DenyMeans
  <2>5. CASE Pass(t, call[t].now, <<>>)
    BY <2>1, <2>2, <2>5, PassGoesOn, PassEnds
  <2>6. CASE \E gcos, fresh, todo : call' = [call EXCEPT ![t].gcos = gcos,
                                               ![t].fresh = fresh, ![t].todo = todo]
    BY <2>2, <2>6 DEF CallsShaped
  <2> QED BY <2>3, <2>4, <2>5, <2>6
<1>4. CASE Attach(t)
  <2>1. call[t].todo # <<>> /\ \E fault, of : Outcome(t, fault, of)
    BY <1>4 DEF Attach, At
  <2> QED BY <2>1, OutcomeMoves
<1>5. CASE SignPem(t) \/ Preview(t)
  <2>1. \E a : Mint(t, a)
    BY <1>5 DEF SignPem, Preview
  <2> QED BY <2>1, MintMeans DEF FlowInv
<1>6. CASE ShowPreview(t)
  <2>1. PICK gcos : gcos = <<call[t].gcos[1]>>
    OBVIOUS
  <2>2. call[t].todo # <<>> /\ Pass(t, call[t].now, gcos)
    BY <1>6, <2>1 DEF ShowPreview, At
  <2>3. CallsShaped /\ Listed(call[t].todo)
    BY <2>2 DEF FlowInv, Flow, Legal
  <2> QED BY <2>2, <2>3, PassGoesOn, PassEnds
<1> QED BY <1>1, <1>2, <1>3, <1>4, <1>5, <1>6 DEF Acts

\* What authorize_incoming does next.
LEMMA HonestActs ==
    ASSUME FlowInv, BoundaryInv, DeliveryInv, NEW t \in Threads, Honest(t), Acts(t)
    PROVE  \/ Extract(t) \/ Validate(t)
           \/ \E i \in 1 .. 2 : \/ Sample(t, i) \/ CheckAttestation(t, i)
                                \/ Expiry(t, i) \/ Decide(t, i)
<1>1. /\ call[t].todo # <<>>
      /\ Head(call[t].todo)[1] \notin Attests \cup Attaches \cup {"request", "print"}
  BY MakersOwn DEF Honest
<1>2. ~StartsCall(t)
  BY <1>1, StartsMean, BeginMeans DEF WellMade, FlowInv
<1>3. ~Attach(t)
  <2> SUFFICES ASSUME Attach(t) PROVE FALSE
    OBVIOUS
  <2>1. PICK attach \in Attaches : Head(call[t].todo) = <<attach, 1>>
    BY DEF Attach, At, Attaches
  <2>2. Head(call[t].todo)[1] = attach
    BY <2>1
  <2> QED BY <1>1, <2>2
<1>4. ~SignPem(t) /\ ~Preview(t) /\ ~ShowPreview(t)
  <2>1. \A stage \in {"sign_pem", "preview", "print"} : ~At(t, <<stage, 1>>)
    <3> SUFFICES ASSUME NEW stage \in {"sign_pem", "preview", "print"},
                        Head(call[t].todo) = <<stage, 1>>
                 PROVE  FALSE
      BY DEF At
    <3>1. Head(call[t].todo)[1] = stage
      OBVIOUS
    <3> QED BY <1>1, <3>1 DEF Attests
  <2> QED BY <2>1 DEF SignPem, Preview, ShowPreview
<1>5. ~Request(t) /\ ~IssueAttestation(t)
  <2>1. \A stage \in {"request", "issue"} : ~At(t, <<stage, 1>>)
    <3> SUFFICES ASSUME NEW stage \in {"request", "issue"},
                        Head(call[t].todo) = <<stage, 1>>
                 PROVE  FALSE
      BY DEF At
    <3>1. Head(call[t].todo)[1] = stage
      OBVIOUS
    <3> QED BY <1>1, <3>1 DEF Attests
  <2> QED BY <2>1 DEF Request, IssueAttestation
<1> QED BY <1>2, <1>3, <1>4, <1>5 DEF Acts, Stage

LEMMA StepCause ==
    ASSUME SentinelsApart, FlowInv, BoundaryInv, DeliveryInv, BNext,
           NEW t \in Threads, Honest(t), call'[t].fault # NONE
    PROVE  Cause(call[t], call'[t].fault)
<1>1. call[t].fault = NONE
  BY DEF Honest, DeliveryInv, Delivers
<1>2. ~Tick
  BY <1>1 DEF Tick
<1>3. PICK u \in Threads : Acts(u)
  BY <1>2 DEF BNext, Acts, StartsCall
<1>4. u = t
  BY <1>1, <1>3, OthersWait
<1>5. \/ Extract(t) \/ Validate(t)
      \/ \E i \in 1 .. 2 : \/ Sample(t, i) \/ CheckAttestation(t, i)
                           \/ Expiry(t, i) \/ Decide(t, i)
  BY <1>3, <1>4, HonestActs
<1> QED BY <1>5, ExtractCause, ValidateCause, LookCause, CheckCause

LEMMA StepRefuses ==
    ASSUME SentinelsApart, FlowInv, BoundaryInv, DeliveryInv, BNext
    PROVE  RefusalHasCause
<1> SUFFICES ASSUME NEW t \in Threads, NEW fault, fault = call'[t].fault, fault # NONE,
                    call[t].todo # <<>>, call[t].op = "authorize_incoming",
                    call[t].meta \in wire
             PROVE  LET meta == call[t].meta
                        host == call[t].host
                        gcos == Range(call[t].gcos)
                    IN  CASE fault = "MISSING_CAPABILITY" -> ~meta.capable
                          [] fault = "MALFORMED_GCO" -> meta.handle = MALFORMED
                          [] fault = "TOOL_AUTHORITY_EXPANDED" ->
                                 DecideFault(meta.gco, call[t].ask) # "OK"
                          [] fault \in {"EXPIRED", "EXPIRED_ATTESTATION"} ->
                                 \E g \in gcos :
                                     g.expires_at <= clock \/ Claims(g).exp <= clock
                          [] fault = "OVERSIZE_GCO" ->
                                 \E g \in {meta.gco, meta.parent} \ {NONE} :
                                     /\ Oversize(host, g)
                                     /\ \E h \in Hosts : ~Oversize(h, g)
                          [] fault = "UNTRUSTED_KEY" ->
                                 \E g \in gcos :
                                     RanOut(g) \/ PassesElsewhere(g, host, "domains")
                          [] fault \in {"UNVERIFIED_SIGNATURE", "MALFORMED_ATTESTATION"} ->
                                 \E g \in gcos : PassesElsewhere(g, host, "domains")
                          [] fault = "AUDIENCE_MISMATCH" ->
                                 \E g \in gcos :
                                     PassesElsewhere(g, host, "expected_audience")
                          [] fault \in {"REPLAY_DETECTED", "JTI_MISSING"} ->
                                 host \in Protected
                          [] OTHER -> FALSE
  BY DEF RefusalHasCause, Refuses
<1>1. Cause(call[t], fault)
  BY StepCause DEF Honest, Arrives
<1> QED BY <1>1 DEF Cause

(***************************************************************************)
(* What a boundary sent arrives, whatever else circulates and however the  *)
(* calls interleave: authorize_incoming refuses a _meta that nobody        *)
(* altered only with a cause: the capability, a base handle, the tool,     *)
(* time, a replay cache, or a size limit, an audience or a trust bundle    *)
(* that is not that of a host which takes it.                              *)
(***************************************************************************)
THEOREM HonestRefusals ==
    ASSUME SentinelsApart
    PROVE  BSpec => HonestRefusalHasCause
<1> DEFINE Inv == FlowInv /\ BoundaryInv /\ DeliveryInv
<1>1. BInit => Inv
  BY InitSends, InitDelivery
<1>2. Inv /\ [BNext]_bvars => Inv'
  BY StepSends, StepDelivery
<1>3. Inv /\ [BNext]_bvars => [RefusalHasCause]_bvars
  BY StepRefuses
<1> QED BY <1>1, <1>2, <1>3, PTL DEF BSpec, HonestRefusalHasCause
=============================================================================
