---------------------------- MODULE MCDelegation ----------------------------
(***************************************************************************)
(* Small instances of DelegationChain.  Each root varies one group of      *)
(* fields and keeps the others fixed: tools, state permissions, or the     *)
(* envelope (version, identities, linkage, lineage, expiry, attestation).  *)
(***************************************************************************)
EXTENDS DelegationChain

CONSTANTS u1, u2, n1, n2, opA, opB, s1, s2, s3, s4, Token

Signed == [format |-> "JWT_SVID", value |-> Token]
Unsigned == [format |-> "JWT_SVID", value |-> NONE]

MCAttestations == {Signed}
AttestationsOrEmpty == {Signed, Unsigned}

V(major, rest) == [major |-> major, rest |-> rest]

Base ==
    [gco_version |-> V(1, 0), trace_id |-> 1, span_id |-> s1,
     parent_span_id |-> NONE, policy_id |-> 1, model_identity |-> 1,
     intervention_version |-> 1, tool_authority |-> <<>>,
     state_access_permissions |-> <<>>, expires_at |-> 2, lineage |-> <<>>,
     attestation |-> Signed]

\* The correctly linked next member, to be given grants or be tampered with.
Linked(ch) ==
    LET parent == Last(ch)
    IN  [Base EXCEPT !.span_id = CHOOSE s \in SpanIds :
                                     \A i \in DOMAIN ch : ch[i].span_id # s,
                     !.parent_span_id = parent.span_id,
                     !.expires_at = parent.expires_at,
                     !.lineage = Append(parent.lineage, canonical_gco_hash(parent))]

Request(tools, perms, expiry) ==
    [tool_authority |-> tools, state_access_permissions |-> perms,
     requested_expiry |-> expiry]

-----------------------------------------------------------------------------
(* Tools: every scope over two operations, depths 0..2, two URIs *)

Tool(uri, tokens, blank, depth) ==
    [tool_uri |-> uri, scope |-> [tokens |-> tokens, blank |-> blank],
     max_depth |-> depth]

ScopeInputs == {[tokens |-> t, blank |-> FALSE] : t \in SUBSET {opA, opB}}
                 \cup {[tokens |-> {}, blank |-> TRUE]}

ToolInputs == {[tool_uri |-> u, scope |-> s, max_depth |-> d] :
                  u \in {u1, u2}, s \in ScopeInputs, d \in 0 .. 2}

\* Pairs, duplicates included, over a smaller set of entries.
FewTools == {t \in ToolInputs : t.scope.tokens = {opA} /\ t.max_depth < 2}
ToolLists == {<<>>} \cup {<<t>> : t \in ToolInputs}
               \cup {<<t, t2>> : t \in FewTools, t2 \in FewTools}

RootToolLists ==
    {<<t>> : t \in ToolInputs}
      \cup {<<Tool(u1, {opA, opB}, FALSE, 2), Tool(u2, {opA}, FALSE, 2)>>,
            <<Tool(u1, {opA}, FALSE, 1), Tool(u1, {opB}, FALSE, 2)>>}

\* Roots that vary in their grants expire after the first instant.
ToolRoots == {[Base EXCEPT !.tool_authority = l, !.expires_at = 1] :
                 l \in RootToolLists}
ToolChildren(ch) ==
    {[Linked(ch) EXCEPT !.tool_authority = l] : l \in ToolLists}
ToolRequests == {Request(l, <<>>, 3) : l \in ToolLists}

-----------------------------------------------------------------------------
(* State permissions: every mode and taint policy, two namespaces *)

Perm(ns, mode, taint) ==
    [namespace |-> ns, access_mode |-> mode, taint_policy |-> taint]

PermInputs == {Perm(ns, m, t) : ns \in {n1, n2}, m \in Modes, t \in Taints}
FewPerms == {p \in PermInputs :
                p.access_mode \in {"append", "write"} /\ p.taint_policy = "clean"}
PermLists == {<<>>} \cup {<<p>> : p \in PermInputs}
               \cup {<<p, p2>> : p \in FewPerms, p2 \in FewPerms}

RootPermLists ==
    {<<p>> : p \in {q \in PermInputs : q.namespace = n1}}
      \cup {<<Perm(n1, "write", "clean"), Perm(n2, "append", "sanitized")>>,
            <<Perm(n1, "write", "clean"), Perm(n1, "read", "tainted")>>}

PermRoots == {[Base EXCEPT !.state_access_permissions = l, !.expires_at = 1] :
                 l \in RootPermLists}
PermChildren(ch) ==
    {[Linked(ch) EXCEPT !.state_access_permissions = l] : l \in PermLists}
PermRequests == {Request(<<>>, l, 3) : l \in PermLists}

-----------------------------------------------------------------------------
(* Envelope: every other field, one of them wrong at a time *)

Tampers(g, ch) ==
    {g} \cup {[g EXCEPT !.gco_version = v] : v \in {V(1, 1), V(2, 0)}}
        \cup {[g EXCEPT !.trace_id = 2], [g EXCEPT !.policy_id = 2],
              [g EXCEPT !.model_identity = 2],
              [g EXCEPT !.intervention_version = 2]}
        \cup {[g EXCEPT !.span_id = s] : s \in SpanIds}
        \cup {[g EXCEPT !.parent_span_id = s] : s \in SpanIds \cup {NONE}}
        \cup {[g EXCEPT !.expires_at = e] : e \in 0 .. 3}
        \cup {[g EXCEPT !.attestation = a] : a \in {NONE, Unsigned}}
        \cup {[g EXCEPT !.lineage = l] :
                 l \in {<<>>, <<canonical_gco_hash(g)>>}
                       \cup {[i \in DOMAIN g.lineage |->
                                 canonical_gco_hash(ch[k])] : k \in DOMAIN ch}
                       \cup {Append(g.lineage, canonical_gco_hash(ch[k])) :
                                 k \in DOMAIN ch}}

EnvelopeRoots == Tampers(Base, <<>>) \cup {MALFORMED, BADFORMAT}
EnvelopeChildren(ch) ==
    Tampers(Linked(ch), ch) \cup {MALFORMED, BADFORMAT}
EnvelopeRequests == {Request(<<>>, <<>>, e) : e \in 0 .. 3}

-----------------------------------------------------------------------------
(* All of them: a chain goes on in the group of its root *)

AllRoots == ToolRoots \cup PermRoots \cup EnvelopeRoots
AllChildren(ch) ==
    IF ch[1].tool_authority # <<>> THEN ToolChildren(ch)
    ELSE IF ch[1].state_access_permissions # <<>> THEN PermChildren(ch)
    ELSE EnvelopeChildren(ch)
AllRequests == ToolRequests \cup PermRequests \cup EnvelopeRequests
=============================================================================
