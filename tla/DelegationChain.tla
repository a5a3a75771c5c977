-------------------------- MODULE DelegationChain --------------------------
(***************************************************************************)
(* A chain of delegations: a root GCO a host accepted with validate_root,  *)
(* then children, each either proposed by a host and accepted by           *)
(* GCOValidator.validate against its parent, or minted by                  *)
(* GCODerivationRuntime.derive.  Any path of a delegation tree is such a   *)
(* chain.                                                                  *)
(*                                                                         *)
(* A refused proposal raises and leaves everything as it was, so the       *)
(* actions below are the accepted ones.                                    *)
(***************************************************************************)
EXTENDS Authority

CONSTANTS
    Roots,        \* the inputs offered as a root
    Children(_),  \* the inputs offered as the next member of a chain
    Requests,     \* the delegation requests
    SpanIds,      \* what uuid4() can return
    Attestations, \* what the attestation authority can return (external)
    MaxChain,     \* bound: members of the chain
    MaxClock      \* bound: the last instant

ASSUME ChainBounds == MaxChain \in Nat \ {0} /\ MaxClock \in Nat

\* A DelegationRequest has these fields, and a placeholder is something.
ASSUME RequestsAssumption ==
    /\ \A r \in Requests :
           /\ IsRequest(r)
           /\ r = [tool_authority |-> r.tool_authority,
                   state_access_permissions |-> r.state_access_permissions,
                   requested_expiry |-> r.requested_expiry]
    /\ NONE # [format |-> "JWT_SVID", value |-> PLACEHOLDER]

VARIABLES
    chain,        \* accepted GCOs, the root first
    clock         \* what now() returns

vars == <<chain, clock>>

Init == chain = <<>> /\ clock = 0

AcceptRoot ==
    /\ chain = <<>>
    /\ \E root \in Roots :
        /\ CoerceFault(root) = "OK" => IsGCO(root)
        /\ ValidateRootFault(root, clock) = "OK"
        /\ chain' = <<root>>
        /\ UNCHANGED clock

AcceptChild ==
    /\ Len(chain) \in 1 .. MaxChain - 1
    /\ \E child \in Children(chain) :
        /\ CoerceFault(child) = "OK" => IsGCO(child)
        /\ ValidateFault(Last(chain), child, clock) = "OK"
        /\ chain' = Append(chain, child)
        /\ UNCHANGED clock

\* The fresh uuid4(): never one that is already in use.
FreshSpan == {s \in SpanIds : \A i \in DOMAIN chain : chain[i].span_id # s}

(***************************************************************************)
(* derive(): the request is checked, the child is built and validated with *)
(* a placeholder attestation, the authority issues, and the attested child *)
(* is validated again.                                                     *)
(***************************************************************************)
DeriveChild ==
    /\ Len(chain) \in 1 .. MaxChain - 1
    /\ \E request \in Requests, span \in FreshSpan, attestation \in Attestations :
        LET parent == Last(chain)
            child  == DerivedChild(parent, request, span)
            minted == WithAttestation(child, attestation)
        IN  /\ IsRequest(request)
            /\ DeriveFault(parent, request) = "OK"
            /\ ValidateFault(parent, ForValidation(child), clock) = "OK"
            /\ ValidateFault(parent, minted, clock) = "OK"
            /\ chain' = Append(chain, minted)
            /\ UNCHANGED clock

Tick == clock < MaxClock /\ clock' = clock + 1 /\ UNCHANGED chain

Next == AcceptRoot \/ AcceptChild \/ DeriveChild \/ Tick

Spec == Init /\ [][Next]_vars

-----------------------------------------------------------------------------
(* Type invariant: a chain of at most MaxChain GCOs. *)
TypeOK ==
    /\ IsList(chain) /\ Len(chain) <= MaxChain
    /\ \A i \in DOMAIN chain : IsGCO(chain[i])
    /\ clock \in 0 .. MaxClock

\* Scopes that name at least one operation.
OperationScopes == {s \in Scope : s.tokens # {}}

MayCall(g, uri, scope) == ToolCallFault(g, uri, scope) = "OK"
MayAccess(g, namespace, mode) == StateAccessFault(g, namespace, mode) = "OK"

(***************************************************************************)
(* No member of a chain may do what an ancestor may not: whatever tool     *)
(* operation authorize_tool_call, or state mode                            *)
(* _authorize_verified_state_access, would allow a descendant is allowed   *)
(* to every ancestor.  validate() only compares lists of grants entry by   *)
(* entry; this is about the decisions the runtime takes on them.           *)
(***************************************************************************)
AuthorityNeverWidens ==
    \A i, j \in DOMAIN chain : i < j =>
        /\ \A uri \in Uris, scope \in OperationScopes :
               MayCall(chain[j], uri, scope) => MayCall(chain[i], uri, scope)
        /\ \A namespace \in Namespaces, mode \in Modes :
               MayAccess(chain[j], namespace, mode)
                   => MayAccess(chain[i], namespace, mode)

(***************************************************************************)
(* Every hop costs a unit of depth: a tool k hops below an ancestor still  *)
(* has its own depth plus k within that ancestor's max_depth, whichever of *)
(* validate() and derive() (which caps) let the hops through.              *)
(***************************************************************************)
DepthBudget ==
    \A i, j \in DOMAIN chain : i < j =>
        \A b \in DOMAIN chain[j].tool_authority :
            \E a \in DOMAIN chain[i].tool_authority :
                /\ chain[i].tool_authority[a].tool_uri
                     = chain[j].tool_authority[b].tool_uri
                /\ chain[j].tool_authority[b].max_depth + (j - i)
                     <= chain[i].tool_authority[a].max_depth

(***************************************************************************)
(* The lineage of the member at position j is the digests of all its       *)
(* ancestors in order, though each validation only looks one hop back; it  *)
(* stays within the lineage bound, and the spans link the same way.        *)
(***************************************************************************)
LineageIsAncestry ==
    \A j \in DOMAIN chain :
        /\ Len(chain[j].lineage) = j - 1
        /\ j > 1 => /\ j - 1 <= MaxLineage
                    /\ chain[j].parent_span_id = chain[j - 1].span_id
        /\ \A i \in 1 .. j - 1 :
               chain[j].lineage[i] = canonical_gco_hash(chain[i])

(***************************************************************************)
(* A descendant carries the governance context of every ancestor, expires  *)
(* no later, and writes with at least the taint of every ancestor's grant  *)
(* on the namespace.                                                       *)
(***************************************************************************)
ContextPreserved ==
    \A i, j \in DOMAIN chain : i < j =>
        /\ chain[j].gco_version.major = chain[i].gco_version.major
        /\ chain[j].trace_id = chain[i].trace_id
        /\ chain[j].policy_id = chain[i].policy_id
        /\ chain[j].model_identity = chain[i].model_identity
        /\ chain[j].intervention_version = chain[i].intervention_version
        /\ chain[j].expires_at <= chain[i].expires_at
        /\ \A b \in DOMAIN chain[j].state_access_permissions :
               \E a \in DOMAIN chain[i].state_access_permissions :
                   LET low  == chain[i].state_access_permissions[a]
                       high == chain[j].state_access_permissions[b]
                   IN  /\ low.namespace = high.namespace
                       /\ TAINT_RANK[low.taint_policy]
                            <= TAINT_RANK[high.taint_policy]

\* The child a host would have to build to get the request past validate() at
\* the smallest depth there is.
LeastChild(parent, request) ==
    [ForValidation(DerivedChild(parent, [request EXCEPT !.tool_authority = <<>>],
                                CHOOSE s \in SpanIds : TRUE))
     EXCEPT !.tool_authority =
        [i \in DOMAIN request.tool_authority |->
            [request.tool_authority[i] EXCEPT !.max_depth = 0]]]

(***************************************************************************)
(* derive() and validate() implement the delegation rules twice.  They     *)
(* agree: derive() refuses a request exactly when no child with the        *)
(* requested grants could pass validate(), and what derive() builds fails  *)
(* its own validation for expiry only.                                     *)
(***************************************************************************)
DeriveMatchesValidate ==
    \A request \in Requests : chain # <<>> =>
        LET parent  == Last(chain)
            allowed == {"OK", "EXPIRED"}
            child   == DerivedChild(parent, request, CHOOSE s \in SpanIds : TRUE)
        IN  /\ DeriveFault(parent, request) = "OK" <=>
                   ValidateFault(parent, LeastChild(parent, request), clock)
                       \in allowed
            /\ DeriveFault(parent, request) = "OK" =>
                   ValidateFault(parent, ForValidation(child), clock) \in allowed

-----------------------------------------------------------------------------
(* Statement of the documentation that the code does not keep *)

(***************************************************************************)
(* README: a child context is "no broader than the authority it            *)
(* inherited", read for the data a grant can read: stored data of a taint  *)
(* a descendant may read can be read by every ancestor.                    *)
(***************************************************************************)
ReadsNeverWiden ==
    \A i, j \in DOMAIN chain : i < j =>
        \A namespace \in Namespaces, stored \in Taints :
            StoreReadFault(chain[j], namespace, stored) = "OK"
                => StoreReadFault(chain[i], namespace, stored) = "OK"
=============================================================================
