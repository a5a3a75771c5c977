----------------------------- MODULE MCRuntime -----------------------------
(***************************************************************************)
(* Small instances of GovernanceRuntime: one root with a tool and a state  *)
(* grant, requests within and beyond it, and forgeries of what circulates. *)
(***************************************************************************)
EXTENDS GovernanceRuntime, TLC

CONSTANTS t1, t2, h1, dA, u1, n1, opA, opB, s0, s1, s2, s3, audX, kA, kX

TrustedRsa == [id |-> kA, kty |-> "RSA"]
UntrustedRsa == [id |-> kX, kty |-> "RSA"]

MCRuntimeTrust ==
    h1 :> [domains |-> dA :> [jwks |-> <<[kid |-> "k", key |-> TrustedRsa]>>,
                              ca_store |-> NONE],
           expected_audience |-> {audX}]

\* Signed with the key until exp; the jti is the span, which no two GCOs share.
Sign(g, key, exp) ==
    [format |-> "JWT_SVID", value |->
        [shape |-> "ok", signer |-> key,
         header |-> [kid |-> "k", alg |-> "RS256", x5c |-> NONE],
         payload |-> [sub |-> g.model_identity, gco_hash |-> canonical_gco_hash(g),
                      aud |-> {audX}, exp |-> exp, nbf |-> NONE,
                      iat |-> NONE, jti |-> g.span_id]]]

Scoped(tokens) == [tokens |-> tokens, blank |-> FALSE]
Tool(tokens, depth) ==
    <<[tool_uri |-> u1, scope |-> Scoped(tokens), max_depth |-> depth]>>
Perm(mode, taint) ==
    <<[namespace |-> n1, access_mode |-> mode, taint_policy |-> taint]>>

RootBody ==
    [gco_version |-> [major |-> 1, rest |-> 0], trace_id |-> 1, span_id |-> s0,
     parent_span_id |-> NONE, policy_id |-> 1,
     model_identity |-> [domain |-> dA, path |-> 1], intervention_version |-> 1,
     tool_authority |-> Tool({opA}, 2),
     state_access_permissions |-> Perm("write", "sanitized"),
     expires_at |-> 2, lineage |-> <<>>, attestation |-> NONE]

\* The attestation of the root outlives it, that of a child does not.
MCRoots == {WithAttestation(RootBody, Sign(RootBody, TrustedRsa, 3))}

\* A second root, which grants no tool, so that the calls can fill the cache.
SecondRoot == [RootBody EXCEPT !.span_id = s3, !.tool_authority = <<>>]
TwoRoots == MCRoots \cup {WithAttestation(SecondRoot, Sign(SecondRoot, TrustedRsa, 3))}

\* The widest body one can claim.
Wide(g) == [g EXCEPT !.tool_authority = Tool({opA, opB}, 2), !.expires_at = 3]

Req(tools, perms, expiry) ==
    [tool_authority |-> tools, state_access_permissions |-> perms,
     requested_expiry |-> expiry]

FewRequests == {Req(Tool({opA}, 2), <<>>, 3), Req(Tool({opA}, 1), <<>>, 1)}

FewAsks == {<<"tool", u1, Scoped({opA})>>}

FewIssue(identity, g) == {Sign(g, TrustedRsa, g.expires_at)}

NoForgeries(pool) == {}

ThreadSymmetry == Permutations({t1, t2})
=============================================================================
