---------------------------- MODULE MCBoundaries ----------------------------
(***************************************************************************)
(* A small instance of Boundaries: a client without and a server with a    *)
(* replay cache, roots and forgeries of MCRuntime.  The server is set more *)
(* narrowly than the client: by its size limit, its audience, and a bundle *)
(* without a CA.                                                           *)
(***************************************************************************)
EXTENDS Boundaries, MCRuntime

CONSTANT h2

MCBaseMetas == {NONE, [EmptyMeta EXCEPT !.capable = TRUE]}

\* A child that keeps a state grant is larger, and with a certificate chain it
\* is too large to send.
MCSize(g) ==
    IF g = MALFORMED \/ g.lineage = <<>> \/ g.state_access_permissions = <<>> THEN 1
    ELSE IF g.attestation.format = "X509_SVID" THEN 3 ELSE 2

MCMaxGcoBytes == h1 :> 2 @@ h2 :> 1

MCPemKeys == {TrustedRsa, UntrustedRsa}

\* A child that is about to end, or one more operation than the root grants.
BoundaryRequests ==
    {Req(Tool({opA}, 2), <<>>, 1), Req(Tool({opA, opB}, 1), <<>>, 2),
     Req(<<>>, Perm("read", "tainted"), 1), MALFORMED}

BoundaryAsks == {<<"tool", u1, Scoped({opA})>>, <<"state", n1, "append">>}

Trusting(ca_store, audience) ==
    [domains |-> dA :> [jwks |-> <<[kid |-> "k", key |-> TrustedRsa]>>,
                        ca_store |-> ca_store],
     expected_audience |-> audience]

BoundaryTrust == h1 :> Trusting({"ca"}, NONE) @@ h2 :> Trusting(NONE, {audX})

\* Attested with a certificate that is about to run out.
Certified(g) ==
    LET token == Sign(g, UntrustedRsa, g.expires_at).value
    IN  [format |-> "X509_SVID", value |->
            [token EXCEPT !.header.x5c =
                [spiffe |-> g.model_identity, issuer |-> "ca", not_before |-> 0,
                 not_after |-> 0, key |-> UntrustedRsa]]]

\* The authority attests with the trusted key, for longer than the child lasts,
\* or for no audience, with another key, or with a certificate, or raises.
BoundaryIssue(identity, g) ==
    LET a == Sign(g, TrustedRsa, 2)
    IN  {a, [a EXCEPT !.value.payload.aud = NONE], Sign(g, UntrustedRsa, 3),
         Certified(g), MALFORMED}

\* A wider root with an untrusted attestation, and an attestation of something
\* else.
BoundaryForgeries(pool) ==
    {WithAttestation(Wide(g), Sign(Wide(g), UntrustedRsa, 3)) : g \in Roots}
      \cup {WithAttestation(g, h.attestation) : g \in pool, h \in pool}
=============================================================================
