-------------------------- MODULE DelegationProofs --------------------------
(***************************************************************************)
(* Proofs about DelegationChain: what one validated delegation gives       *)
(* (AuthorityProofs) adds up to along a chain of any length, for any       *)
(* tools, namespaces, scopes and requests.                                 *)
(***************************************************************************)
EXTENDS DelegationChain, AuthorityProofs

-----------------------------------------------------------------------------
(* Chains *)

(***************************************************************************)
(* The inductive invariant.  The four properties relate every pair of a    *)
(* chain and are kept by one hop because each holds between an ancestor    *)
(* and the last member, and Delegated between that one and the new one;    *)
(* that no member holds two entries for one tool or namespace is what      *)
(* makes the grants found by validate() those the runtime decides on.      *)
(***************************************************************************)
ChainInv ==
    /\ TypeOK
    /\ \A i \in DOMAIN chain : WellFormed(chain[i])
    /\ AuthorityNeverWidens
    /\ DepthBudget
    /\ LineageIsAncestry
    /\ ContextPreserved

LEMMA RankIsNat ==
    ASSUME NEW g, IsGCO(g)
    PROVE  \A a \in DOMAIN g.state_access_permissions :
               TAINT_RANK[g.state_access_permissions[a].taint_policy] \in Nat
<1> TAKE a \in DOMAIN g.state_access_permissions
<1>1. g.state_access_permissions[a] \in StatePermission
  BY DEF IsGCO
<1> QED BY <1>1 DEF StatePermission, Taints, TAINT_RANK

LEMMA InitChain == Init => ChainInv
<1> SUFFICES ASSUME Init PROVE ChainInv
  OBVIOUS
<1>1. chain = <<>> /\ DOMAIN chain = {} /\ Len(chain) = 0
  BY DEF Init
<1>2. IsList(chain)
  <2>1. chain \in Seq({})
    BY <1>1
  <2> QED BY <2>1, SeqIsList
<1>3. TypeOK
  BY <1>1, <1>2, ChainBounds DEF TypeOK, Init
<1> QED BY <1>1, <1>3 DEF ChainInv, AuthorityNeverWidens, DepthBudget,
                          LineageIsAncestry, ContextPreserved

LEMMA RootChecks ==
    ASSUME NEW root, NEW now, ValidateRootFault(root, now) = "OK"
    PROVE  /\ CoerceFault(root) = "OK"
           /\ root.lineage = <<>>
           /\ NoDuplicates(root.state_access_permissions, "namespace")
           /\ NoDuplicates(root.tool_authority, "tool_uri")
<1> DEFINE checks == <<
        Check(root.parent_span_id = NONE, "PARENT_LINKAGE_INVALID"),
        Check(root.lineage = <<>>, "LINEAGE_APPEND_FAILED"),
        NamespacesFault(root.state_access_permissions),
        ToolUrisFault(root.tool_authority),
        ExpiryFault(root, root, now),
        AttestationFault(root)>>
<1>1. CoerceFault(root) = "OK" /\ FirstFault(checks) = "OK"
  BY DEF ValidateRootFault
<1>2. Len(checks) = 6 /\ DOMAIN checks = 1 .. Len(checks)
  OBVIOUS
<1>3. checks[2] = "OK" /\ checks[3] = "OK" /\ checks[4] = "OK"
  <2> HIDE DEF checks
  <2> QED BY <1>1, <1>2, FirstFaultOK
<1> QED BY <1>1, <1>3 DEF Check, NamespacesFault, ToolUrisFault

\* A chain of one root.
LEMMA RootStep == ChainInv /\ AcceptRoot => ChainInv'
<1> SUFFICES ASSUME ChainInv, AcceptRoot PROVE ChainInv'
  OBVIOUS
<1>1. PICK root \in Roots :
          /\ CoerceFault(root) = "OK" => IsGCO(root)
          /\ ValidateRootFault(root, clock) = "OK"
          /\ chain' = <<root>> /\ UNCHANGED clock
  BY DEF AcceptRoot
<1>2. WellFormed(root) /\ root.lineage = <<>>
  BY <1>1, RootChecks DEF WellFormed
<1>3. Len(chain') = 1 /\ DOMAIN chain' = {1} /\ chain'[1] = root
  BY <1>1
<1>4. IsList(chain')
  <2>1. chain' \in Seq({root})
    BY <1>1
  <2> QED BY <2>1, SeqIsList
<1>5. TypeOK'
  <2>1. 1 <= MaxChain
    BY <1>1, ChainBounds DEF AcceptRoot
  <2> QED BY <1>1, <1>2, <1>3, <1>4, <2>1 DEF TypeOK, ChainInv, WellFormed
<1>6. Len(root.lineage) = 0
  BY <1>2
<1> QED BY <1>2, <1>3, <1>5, <1>6
        DEF ChainInv, AuthorityNeverWidens, DepthBudget, LineageIsAncestry,
            ContextPreserved

(***************************************************************************)
(* One more member that validate() accepts against the last one.           *)
(***************************************************************************)
LEMMA HopStep ==
    ASSUME ChainInv, Len(chain) \in 1 .. MaxChain - 1, NEW g, IsGCO(g),
           ValidateFault(Last(chain), g, clock) = "OK",
           chain' = Append(chain, g), clock' = clock
    PROVE  ChainInv'
<1> DEFINE n == Len(chain)
           parent == chain[n]
<1>1. /\ n \in Nat /\ n >= 1 /\ n + 1 <= MaxChain
      /\ DOMAIN chain = 1 .. n /\ IsList(chain) /\ n \in DOMAIN chain
  BY ListFacts, ChainBounds DEF ChainInv, TypeOK
<1>2. /\ IsList(chain') /\ Len(chain') = n + 1
      /\ DOMAIN chain' = 1 .. n + 1
      /\ \A i \in 1 .. n : chain'[i] = chain[i]
      /\ chain'[n + 1] = g
  BY <1>1, AppendIsList
<1>3. WellFormed(parent)
  BY <1>1 DEF ChainInv
<1>4. Delegated(parent, g)
  BY <1>3, ValidateImpliesDelegated DEF Last, WellFormed
<1> HIDE DEF n, parent
<1>5. \A i \in DOMAIN chain' : WellFormed(chain'[i])
  BY <1>1, <1>2, <1>4 DEF ChainInv, Delegated
<1>6. TypeOK'
  BY <1>1, <1>2, <1>5 DEF ChainInv, TypeOK, WellFormed
<1>7. AuthorityNeverWidens'
  <2>1. ASSUME NEW i \in 1 .. n, NEW uri \in Uris, NEW scope \in OperationScopes,
               MayCall(g, uri, scope)
        PROVE  MayCall(chain[i], uri, scope)
    <3>1. MayCall(parent, uri, scope)
      BY <1>4, <2>1, DelegatedCalls DEF MayCall, OperationScopes
    <3> QED BY <1>1, <3>1 DEF ChainInv, AuthorityNeverWidens, parent
  <2>2. ASSUME NEW i \in 1 .. n, NEW namespace \in Namespaces, NEW mode \in Modes,
               MayAccess(g, namespace, mode)
        PROVE  MayAccess(chain[i], namespace, mode)
    <3>1. MayAccess(parent, namespace, mode)
      BY <1>4, <2>2, DelegatedAccess DEF MayAccess
    <3> QED BY <1>1, <3>1 DEF ChainInv, AuthorityNeverWidens, parent
  <2>3. ASSUME NEW i \in DOMAIN chain', NEW j \in DOMAIN chain', i < j
        PROVE  /\ \A uri \in Uris, scope \in OperationScopes :
                      MayCall(chain'[j], uri, scope) => MayCall(chain'[i], uri, scope)
               /\ \A namespace \in Namespaces, mode \in Modes :
                      MayAccess(chain'[j], namespace, mode)
                          => MayAccess(chain'[i], namespace, mode)
    <3>1. CASE j = n + 1
      BY <1>1, <1>2, <2>1, <2>2, <2>3, <3>1
    <3>2. CASE j \in 1 .. n
      BY <1>1, <1>2, <2>3, <3>2 DEF ChainInv, AuthorityNeverWidens
    <3> QED BY <1>1, <1>2, <3>1, <3>2
  <2> QED BY <2>3 DEF AuthorityNeverWidens
<1>8. DepthBudget'
  <2> DEFINE Pays(up, down, hops) ==
                 \A b \in DOMAIN down.tool_authority :
                     \E a \in DOMAIN up.tool_authority :
                         /\ up.tool_authority[a].tool_uri
                              = down.tool_authority[b].tool_uri
                         /\ down.tool_authority[b].max_depth + hops
                              <= up.tool_authority[a].max_depth
  <2>1. ASSUME NEW i \in 1 .. n PROVE Pays(chain[i], g, n + 1 - i)
    <3>1. SUFFICES ASSUME NEW b \in DOMAIN g.tool_authority
                   PROVE  \E a \in DOMAIN chain[i].tool_authority :
                              /\ chain[i].tool_authority[a].tool_uri
                                   = g.tool_authority[b].tool_uri
                              /\ g.tool_authority[b].max_depth + (n + 1 - i)
                                   <= chain[i].tool_authority[a].max_depth
      OBVIOUS
    <3>2. PICK c \in DOMAIN parent.tool_authority :
              /\ parent.tool_authority[c].tool_uri = g.tool_authority[b].tool_uri
              /\ g.tool_authority[b].max_depth + 1
                   <= parent.tool_authority[c].max_depth
      BY <1>4 DEF Delegated, ToolsWithin
    <3>3. PICK a \in DOMAIN chain[i].tool_authority :
              /\ chain[i].tool_authority[a].tool_uri
                   = parent.tool_authority[c].tool_uri
              /\ parent.tool_authority[c].max_depth + (n - i)
                   <= chain[i].tool_authority[a].max_depth
      <4>1. CASE i = n
        <5>1. parent.tool_authority[c] \in ToolAuthority
          BY <1>3 DEF WellFormed, IsGCO
        <5>2. parent.tool_authority[c].max_depth \in Nat
          BY <5>1 DEF ToolAuthority
        <5> QED BY <1>1, <4>1, <5>2 DEF parent
      <4>2. CASE i < n
        BY <1>1, <4>2 DEF ChainInv, DepthBudget, parent
      <4> QED BY <1>1, <4>1, <4>2
    <3>4. /\ g.tool_authority[b] \in ToolAuthority
          /\ parent.tool_authority[c] \in ToolAuthority
          /\ chain[i].tool_authority[a] \in ToolAuthority
      BY <1>1, <1>3, <1>4 DEF WellFormed, IsGCO, Delegated, ChainInv
    <3>5. /\ g.tool_authority[b].max_depth \in Nat
          /\ parent.tool_authority[c].max_depth \in Nat
          /\ chain[i].tool_authority[a].max_depth \in Nat
      BY <3>4 DEF ToolAuthority
    <3>6. g.tool_authority[b].max_depth + (n + 1 - i)
            <= chain[i].tool_authority[a].max_depth
      <4>1. i \in Int /\ n \in Int
        BY <1>1
      <4> DEFINE x == g.tool_authority[b].max_depth
                 y == parent.tool_authority[c].max_depth
                 z == chain[i].tool_authority[a].max_depth
      <4>2. x \in Nat /\ y \in Nat /\ z \in Nat /\ x + 1 <= y /\ y + (n - i) <= z
        BY <3>2, <3>3, <3>5
      <4> HIDE DEF x, y, z
      <4>3. x + (n + 1 - i) <= z
        BY <4>1, <4>2
      <4> QED BY <4>3 DEF x, z
    <3> QED BY <3>2, <3>3, <3>6
  <2>2. ASSUME NEW i \in DOMAIN chain', NEW j \in DOMAIN chain', i < j
        PROVE  Pays(chain'[i], chain'[j], j - i)
    <3>1. CASE j = n + 1
      <4> HIDE DEF Pays
      <4> QED BY <1>1, <1>2, <2>1, <2>2, <3>1
    <3>2. CASE j \in 1 .. n
      <4>1. chain'[i] = chain[i] /\ chain'[j] = chain[j] /\ i \in DOMAIN chain
        BY <1>1, <1>2, <2>2, <3>2
      <4> QED BY <1>1, <2>2, <3>2, <4>1 DEF ChainInv, DepthBudget
    <3> QED BY <1>1, <1>2, <3>1, <3>2
  <2> QED BY <2>2 DEF DepthBudget
<1>9. LineageIsAncestry'
  <2>1. /\ Len(parent.lineage) = n - 1
        /\ \A i \in 1 .. n - 1 : parent.lineage[i] = canonical_gco_hash(chain[i])
    BY <1>1 DEF ChainInv, LineageIsAncestry, parent
  <2>2. /\ Len(g.lineage) = n /\ n <= MaxLineage
        /\ \A i \in 1 .. n - 1 : g.lineage[i] = parent.lineage[i]
        /\ g.lineage[n] = canonical_gco_hash(parent)
        /\ g.parent_span_id = parent.span_id
    BY <1>1, <1>4, <2>1 DEF Delegated
  <2>3. \A i \in 1 .. n : g.lineage[i] = canonical_gco_hash(chain[i])
    BY <1>1, <2>1, <2>2 DEF parent
  <2>4. ASSUME NEW j \in DOMAIN chain'
        PROVE  /\ Len(chain'[j].lineage) = j - 1
               /\ j > 1 => /\ j - 1 <= MaxLineage
                           /\ chain'[j].parent_span_id = chain'[j - 1].span_id
               /\ \A i \in 1 .. j - 1 :
                      chain'[j].lineage[i] = canonical_gco_hash(chain'[i])
    <3>1. CASE j = n + 1
      BY <1>1, <1>2, <2>2, <2>3, <3>1 DEF parent
    <3>2. CASE j \in 1 .. n
      BY <1>1, <1>2, <3>2 DEF ChainInv, LineageIsAncestry
    <3> QED BY <1>1, <1>2, <3>1, <3>2
  <2> QED BY <2>4 DEF LineageIsAncestry
<1> DEFINE Keeps(up, down) ==
               /\ down.gco_version.major = up.gco_version.major
               /\ down.trace_id = up.trace_id
               /\ down.policy_id = up.policy_id
               /\ down.model_identity = up.model_identity
               /\ down.intervention_version = up.intervention_version
               /\ down.expires_at <= up.expires_at
               /\ \A b \in DOMAIN down.state_access_permissions :
                      \E a \in DOMAIN up.state_access_permissions :
                          LET low  == up.state_access_permissions[a]
                              high == down.state_access_permissions[b]
                          IN  /\ low.namespace = high.namespace
                              /\ TAINT_RANK[low.taint_policy]
                                   <= TAINT_RANK[high.taint_policy]
<1>10. ContextPreserved'
  <2>1. Keeps(parent, g)
    BY <1>4 DEF Delegated, PermissionsWithin
  <2>2. ASSUME NEW i \in 1 .. n PROVE Keeps(chain[i], g)
    <3>1. CASE i = n
      BY <2>1, <3>1 DEF parent
    <3>2. CASE i < n
      <4>1. Keeps(chain[i], parent)
        BY <1>1, <3>2 DEF ChainInv, ContextPreserved, parent
      <4>2. /\ \A a \in DOMAIN chain[i].state_access_permissions :
                   TAINT_RANK[chain[i].state_access_permissions[a].taint_policy] \in Nat
            /\ \A a \in DOMAIN parent.state_access_permissions :
                   TAINT_RANK[parent.state_access_permissions[a].taint_policy] \in Nat
            /\ \A a \in DOMAIN g.state_access_permissions :
                   TAINT_RANK[g.state_access_permissions[a].taint_policy] \in Nat
        BY <1>1, <1>3, <1>4, RankIsNat DEF Delegated, WellFormed, ChainInv
      <4>3. /\ g.expires_at \in Int /\ parent.expires_at \in Int
            /\ chain[i].expires_at \in Int
        BY <1>1, <1>3, <1>4 DEF Delegated, WellFormed, ChainInv, IsGCO
      <4>4. g.expires_at <= chain[i].expires_at
        BY <2>1, <4>1, <4>3
      <4>5. ASSUME NEW b \in DOMAIN g.state_access_permissions
            PROVE  \E a \in DOMAIN chain[i].state_access_permissions :
                       LET low  == chain[i].state_access_permissions[a]
                           high == g.state_access_permissions[b]
                       IN  /\ low.namespace = high.namespace
                           /\ TAINT_RANK[low.taint_policy]
                                <= TAINT_RANK[high.taint_policy]
        <5>1. PICK c \in DOMAIN parent.state_access_permissions :
                  /\ parent.state_access_permissions[c].namespace
                       = g.state_access_permissions[b].namespace
                  /\ TAINT_RANK[parent.state_access_permissions[c].taint_policy]
                       <= TAINT_RANK[g.state_access_permissions[b].taint_policy]
          BY <2>1
        <5>2. PICK a \in DOMAIN chain[i].state_access_permissions :
                  /\ chain[i].state_access_permissions[a].namespace
                       = parent.state_access_permissions[c].namespace
                  /\ TAINT_RANK[chain[i].state_access_permissions[a].taint_policy]
                       <= TAINT_RANK[parent.state_access_permissions[c].taint_policy]
          BY <4>1
        <5> QED BY <4>2, <5>1, <5>2
      <4> QED BY <2>1, <4>1, <4>4, <4>5
    <3> QED BY <1>1, <3>1, <3>2
  <2>3. ASSUME NEW i \in DOMAIN chain', NEW j \in DOMAIN chain', i < j
        PROVE  Keeps(chain'[i], chain'[j])
    <3>1. CASE j = n + 1
      <4> HIDE DEF Keeps
      <4> QED BY <1>1, <1>2, <2>2, <2>3, <3>1
    <3>2. CASE j \in 1 .. n
      <4>1. chain'[i] = chain[i] /\ chain'[j] = chain[j] /\ i \in DOMAIN chain
        BY <1>1, <1>2, <2>3, <3>2
      <4>2. j \in DOMAIN chain
        BY <1>1, <3>2
      <4>3. Keeps(chain[i], chain[j])
        BY <2>3, <4>1, <4>2 DEF ChainInv, ContextPreserved
      <4> HIDE DEF Keeps
      <4> QED BY <4>1, <4>3
    <3> QED BY <1>1, <1>2, <3>1, <3>2
  <2> QED BY <2>3 DEF ContextPreserved
<1> QED BY <1>5, <1>6, <1>7, <1>8, <1>9, <1>10 DEF ChainInv

LEMMA StepChain == ChainInv /\ [Next]_vars => ChainInv'
<1> SUFFICES ASSUME ChainInv, [Next]_vars PROVE ChainInv'
  OBVIOUS
<1>1. CASE AcceptRoot
  BY <1>1, RootStep
<1>2. CASE AcceptChild
  <2>1. PICK child \in Children(chain) :
            /\ CoerceFault(child) = "OK" => IsGCO(child)
            /\ ValidateFault(Last(chain), child, clock) = "OK"
            /\ chain' = Append(chain, child) /\ UNCHANGED clock
    BY <1>2 DEF AcceptChild
  <2>2. IsGCO(child)
    <3>1. FirstFault(<<CoerceFault(Last(chain)), CoerceFault(child)>>) = "OK"
      BY <2>1, ValidateChecks
    <3> QED BY <2>1, <3>1, PairPasses
  <2> QED BY <1>2, <2>1, <2>2, HopStep DEF AcceptChild
<1>3. CASE DeriveChild
  <2> DEFINE minted(request, span, attestation) ==
                 WithAttestation(DerivedChild(Last(chain), request, span), attestation)
  <2>1. PICK request \in Requests, span \in FreshSpan, attestation \in Attestations :
            /\ IsRequest(request)
            /\ DeriveFault(Last(chain), request) = "OK"
            /\ ValidateFault(Last(chain), minted(request, span, attestation), clock)
                 = "OK"
            /\ chain' = Append(chain, minted(request, span, attestation))
            /\ UNCHANGED clock
    BY <1>3 DEF DeriveChild
  <2>2. Len(chain) \in 1 .. MaxChain - 1 /\ Len(chain) \in DOMAIN chain
    BY <1>3, ListFacts DEF DeriveChild, ChainInv, TypeOK
  <2>3. IsGCO(minted(request, span, attestation))
    BY <2>1, <2>2, MintedIsGCO DEF ChainInv, WellFormed, Last
  <2> HIDE DEF minted
  <2> QED BY <2>1, <2>2, <2>3, HopStep
<1>4. CASE Tick \/ UNCHANGED vars
  <2>1. chain' = chain /\ clock' \in 0 .. MaxClock
    BY <1>4, ChainBounds DEF Tick, vars, ChainInv, TypeOK
  <2> QED BY <2>1 DEF ChainInv, TypeOK, AuthorityNeverWidens, DepthBudget,
                      LineageIsAncestry, ContextPreserved
<1> QED BY <1>1, <1>2, <1>3, <1>4 DEF Next

(***************************************************************************)
(* Chains hold GCOs only.                                                  *)
(***************************************************************************)
THEOREM ChainTypes == Spec => []TypeOK
<1>1. ChainInv => TypeOK
  BY DEF ChainInv
<1> QED BY InitChain, StepChain, <1>1, PTL DEF Spec

(***************************************************************************)
(* Delegation never widens what the runtime allows, for chains of any      *)
(* length over any tools, operations, namespaces and inputs.               *)
(***************************************************************************)
THEOREM DelegationNeverWidens == Spec => []AuthorityNeverWidens
<1>1. ChainInv => AuthorityNeverWidens
  BY DEF ChainInv
<1> QED BY InitChain, StepChain, <1>1, PTL DEF Spec

(***************************************************************************)
(* Each hop of a chain costs a unit of every tool's depth.                 *)
(***************************************************************************)
THEOREM DepthIsSpent == Spec => []DepthBudget
<1>1. ChainInv => DepthBudget
  BY DEF ChainInv
<1> QED BY InitChain, StepChain, <1>1, PTL DEF Spec

(***************************************************************************)
(* The lineage a member carries is its true ancestry.                      *)
(***************************************************************************)
THEOREM LineageIsTrue == Spec => []LineageIsAncestry
<1>1. ChainInv => LineageIsAncestry
  BY DEF ChainInv
<1> QED BY InitChain, StepChain, <1>1, PTL DEF Spec

(***************************************************************************)
(* The governance context is inherited along a chain.                      *)
(***************************************************************************)
THEOREM ContextIsInherited == Spec => []ContextPreserved
<1>1. ChainInv => ContextPreserved
  BY DEF ChainInv
<1> QED BY InitChain, StepChain, <1>1, PTL DEF Spec

-----------------------------------------------------------------------------
(* derive() and validate() *)

\* A list of checks made one per entry of a list passes if each does.
LEMMA EachPasses ==
    ASSUME NEW T, NEW list \in Seq(T), NEW checks,
           checks = [i \in DOMAIN list |-> checks[i]]
    PROVE  FirstFault(checks) = "OK" <=> \A i \in DOMAIN list : checks[i] = "OK"
<1>1. DOMAIN checks = 1 .. Len(list) /\ Len(list) \in Nat
  OBVIOUS
<1>2. Len(checks) = Len(list)
  BY <1>1
<1> QED BY <1>1, <1>2, FirstFaultOK

\* A list of checks of which only one gives a fault, and those after it pass.
OnlyAt(checks, k, fault) ==
    /\ DOMAIN checks = 1 .. Len(checks) /\ Len(checks) \in Nat
    /\ k \in DOMAIN checks
    /\ \A i \in DOMAIN checks : i < k => checks[i] # fault
    /\ \A i \in DOMAIN checks : i > k => checks[i] = "OK"

PassBefore(checks, k) == \A i \in DOMAIN checks : i < k => checks[i] = "OK"

LEMMA Tolerated ==
    ASSUME NEW checks, NEW k, NEW fault, fault # "OK", OnlyAt(checks, k, fault)
    PROVE  FirstFault(checks) \in {"OK", fault} <=>
               PassBefore(checks, k) /\ checks[k] \in {"OK", fault}
<1> USE DEF OnlyAt, PassBefore
<1> DEFINE I == {i \in 1 .. Len(checks) : checks[i] # "OK"}
<1>1. CASE I = {}
  BY <1>1 DEF FirstFault, SelectInSeq
<1>2. CASE I # {}
  <2>1. PICK m : m = Min(I)
    OBVIOUS
  <2>2. m \in I /\ \A i \in I : m <= i
    <3>1. I \subseteq Nat
      OBVIOUS
    <3> HIDE DEF I
    <3> QED BY <1>2, <2>1, <3>1, MinInSet
  <2>3. SelectInSeq(checks, LAMBDA c : c # "OK") = m
    BY <1>2, <2>1 DEF SelectInSeq
  <2>4. FirstFault(checks) = checks[m]
    BY <2>2, <2>3 DEF FirstFault
  <2>5. m <= k
    BY <2>2
  <2>6. CASE m = k
    BY <2>2, <2>4, <2>6
  <2>7. CASE m < k
    BY <2>2, <2>4, <2>7
  <2> QED BY <2>2, <2>5, <2>6, <2>7
<1> QED BY <1>1, <1>2

\* No check but that of the expiry says EXPIRED.
Unexpired(fault) == fault # "EXPIRED"

LEMMA ToolsUnexpired ==
    ASSUME NEW parent, NEW child, IsGCO(child)
    PROVE  /\ Unexpired(ToolAuthorityFault(parent, child))
           /\ Unexpired(StatePermissionsFault(parent, child))
<1>1. Unexpired(ToolAuthorityFault(parent, child))
  <2> DEFINE checks == [i \in DOMAIN child.tool_authority |->
                 ToolFault(DictGet(parent.tool_authority, "tool_uri",
                                   child.tool_authority[i].tool_uri),
                           child.tool_authority[i])]
  <2>1. \A a, b : Unexpired(ToolFault(a, b))
    BY FirstOfTwo DEF ToolFault, Check, Unexpired
  <2>2. \A i \in DOMAIN checks : checks[i] # "EXPIRED"
    BY <2>1 DEF Unexpired
  <2>3. DOMAIN checks = 1 .. Len(checks) /\ Len(checks) \in Nat
    BY DEF IsGCO
  <2>4. FirstFault(checks) # "EXPIRED"
    <3> HIDE DEF checks
    <3> QED BY <2>2, <2>3, FirstFaultAmong
  <2> QED BY <2>4 DEF ToolAuthorityFault, Unexpired
<1>2. Unexpired(StatePermissionsFault(parent, child))
  <2> DEFINE checks == [i \in DOMAIN child.state_access_permissions |->
                 PermissionFault(DictGet(parent.state_access_permissions, "namespace",
                                         child.state_access_permissions[i].namespace),
                                 child.state_access_permissions[i])]
  <2>1. \A a, b : Unexpired(PermissionFault(a, b))
    BY FirstOfTwo DEF PermissionFault, Check, Unexpired
  <2>2. \A i \in DOMAIN checks : checks[i] # "EXPIRED"
    BY <2>1 DEF Unexpired
  <2>3. DOMAIN checks = 1 .. Len(checks) /\ Len(checks) \in Nat
    BY DEF IsGCO
  <2>4. FirstFault(checks) # "EXPIRED"
    <3> HIDE DEF checks
    <3> QED BY <2>2, <2>3, FirstFaultAmong
  <2> QED BY <2>4 DEF StatePermissionsFault, Unexpired
<1> QED BY <1>1, <1>2

\* A child as derive() builds it for its own validation, but for its grants.
Inherits(parent, child) ==
    /\ child.gco_version = parent.gco_version
    /\ child.trace_id = parent.trace_id
    /\ child.policy_id = parent.policy_id
    /\ child.model_identity = parent.model_identity
    /\ child.intervention_version = parent.intervention_version
    /\ child.parent_span_id = parent.span_id
    /\ child.expires_at <= parent.expires_at
    /\ child.lineage = Append(parent.lineage, canonical_gco_hash(parent))
    /\ child.attestation = [format |-> "JWT_SVID", value |-> PLACEHOLDER]

\* What the grants and the lineage of such a child must pass.
GrantsPass(parent, child) ==
    /\ ~(Len(parent.lineage) + 1 > MaxLineage)
    /\ NamespacesFault(parent.state_access_permissions) = "OK"
    /\ NamespacesFault(child.state_access_permissions) = "OK"
    /\ ToolUrisFault(parent.tool_authority) = "OK"
    /\ ToolUrisFault(child.tool_authority) = "OK"
    /\ ToolAuthorityFault(parent, child) = "OK"
    /\ StatePermissionsFault(parent, child) = "OK"

LEMMA InheritsPasses ==
    ASSUME NEW parent, NEW child, IsGCO(parent), IsGCO(child),
           CoerceFault(parent) = "OK", CoerceFault(child) = "OK",
           Inherits(parent, child), NEW now
    PROVE  ValidateFault(parent, child, now) \in {"OK", "EXPIRED"} <=>
               GrantsPass(parent, child)
<1> DEFINE checks == <<
            NamespacesFault(parent.state_access_permissions),
            NamespacesFault(child.state_access_permissions),
            ToolUrisFault(parent.tool_authority),
            ToolUrisFault(child.tool_authority),
            VersionFault(parent, child),
            ImmutablesFault(parent, child),
            LinkageFault(parent, child),
            LineageFault(parent, child),
            ToolAuthorityFault(parent, child),
            StatePermissionsFault(parent, child),
            ExpiryFault(parent, child, now),
            AttestationFault(child)>>
<1>1. ValidateFault(parent, child, now) = FirstFault(checks)
  BY FirstOfTwo DEF ValidateFault
<1>2. Len(checks) = 12 /\ DOMAIN checks = 1 .. Len(checks)
  OBVIOUS
<1>3. checks[5] = "OK" /\ checks[7] = "OK" /\ checks[12] = "OK"
  BY RequestsAssumption, SentinelAssumption
     DEF VersionFault, LinkageFault, AttestationFault, HasAttestation, Check, Inherits
<1>4. checks[6] = "OK"
  <2> DEFINE kept == <<
          Check(child.trace_id = parent.trace_id, "TRACE_ID_CHANGED"),
          Check(child.policy_id = parent.policy_id, "POLICY_ID_CHANGED"),
          Check(child.model_identity = parent.model_identity,
                "MODEL_IDENTITY_CHANGED"),
          Check(child.intervention_version = parent.intervention_version,
                "INTERVENTION_CHANGED")>>
  <2>1. Len(kept) = 4 /\ DOMAIN kept = 1 .. Len(kept)
    OBVIOUS
  <2>2. \A i \in DOMAIN kept : kept[i] = "OK"
    BY DEF Check, Inherits
  <2>3. FirstFault(kept) = "OK"
    <3> HIDE DEF kept
    <3> QED BY <2>1, <2>2, FirstFaultOK
  <2> QED BY <2>3 DEF ImmutablesFault
<1>5. checks[8] = "OK" <=> ~(Len(parent.lineage) + 1 > MaxLineage)
  <2>1. PICK own : own = parent.lineage
    OBVIOUS
  <2>2. PICK hash : hash = canonical_gco_hash(parent)
    OBVIOUS
  <2>3. IsList(own) /\ child.lineage = Append(own, hash)
    BY <2>1, <2>2 DEF IsGCO, Inherits
  <2>4. Len(child.lineage) = Len(own) + 1 /\ Len(own) \in Nat
    BY <2>3 DEF IsList
  <2>5. Front(child.lineage) = own /\ Last(child.lineage) = hash
    BY <2>3, <2>4 DEF IsList, Front, Last
  <2> QED BY <2>1, <2>2, <2>4, <2>5 DEF LineageFault, Check
<1>6. checks[8] # "EXPIRED"
  BY DEF LineageFault, Check
<1>7. /\ checks[1] # "EXPIRED" /\ checks[2] # "EXPIRED" /\ checks[3] # "EXPIRED"
      /\ checks[4] # "EXPIRED"
  BY DEF NamespacesFault, ToolUrisFault, Check
<1>8. checks[9] # "EXPIRED" /\ checks[10] # "EXPIRED"
  BY ToolsUnexpired DEF Unexpired
<1>9. checks[11] \in {"OK", "EXPIRED"}
  BY FirstOfTwo DEF ExpiryFault, Check, Inherits
<1>10. /\ checks[1] = NamespacesFault(parent.state_access_permissions)
       /\ checks[2] = NamespacesFault(child.state_access_permissions)
       /\ checks[3] = ToolUrisFault(parent.tool_authority)
       /\ checks[4] = ToolUrisFault(child.tool_authority)
       /\ checks[9] = ToolAuthorityFault(parent, child)
       /\ checks[10] = StatePermissionsFault(parent, child)
  OBVIOUS
<1> HIDE DEF checks
<1>11. FirstFault(checks) \in {"OK", "EXPIRED"} <=>
           PassBefore(checks, 11) /\ checks[11] \in {"OK", "EXPIRED"}
  <2>1. \A i \in DOMAIN checks : i < 11 => checks[i] # "EXPIRED"
    BY <1>2, <1>3, <1>4, <1>6, <1>7, <1>8
  <2>2. \A i \in DOMAIN checks : i > 11 => checks[i] = "OK"
    BY <1>2, <1>3
  <2>3. 11 \in DOMAIN checks
    BY <1>2
  <2>4. OnlyAt(checks, 11, "EXPIRED")
    BY <1>2, <2>1, <2>2, <2>3 DEF OnlyAt
  <2> QED BY <2>4, Tolerated
<1>12. PassBefore(checks, 11) <=>
           /\ checks[1] = "OK" /\ checks[2] = "OK" /\ checks[3] = "OK"
           /\ checks[4] = "OK" /\ checks[8] = "OK" /\ checks[9] = "OK"
           /\ checks[10] = "OK"
  BY <1>2, <1>3, <1>4 DEF PassBefore
<1> QED BY <1>1, <1>5, <1>9, <1>10, <1>11, <1>12 DEF GrantsPass

\* The two comparisons of a tool agree, at no depth and at the capped one.
LEMMA ToolChecksAgree ==
    ASSUME NEW p \in ToolAuthority \cup {NONE}, NEW t \in ToolAuthority
    PROVE  /\ DeriveToolFault(p, t) = "OK" <=>
                  ToolFault(p, [t EXCEPT !.max_depth = 0]) = "OK"
           /\ DeriveToolFault(p, t) = "OK" =>
                  ToolFault(p, [tool_uri |-> p.tool_uri, scope |-> t.scope,
                                max_depth |-> IF t.max_depth <= p.max_depth - 1
                                              THEN t.max_depth
                                              ELSE p.max_depth - 1]) = "OK"
<1>1. CASE p = NONE
  BY <1>1 DEF DeriveToolFault, ToolFault
<1>2. CASE p # NONE
  <2>1. p \in ToolAuthority /\ p.max_depth \in Nat /\ t.max_depth \in Nat
    BY <1>2 DEF ToolAuthority
  <2>2. \A a : ToolFault(p, a) = "OK" <=>
            /\ p.max_depth # 0 /\ a.max_depth <= p.max_depth - 1
            /\ ScopeIsSubset(a.scope, p.scope)
    BY <1>2, FirstOfTwo DEF ToolFault, Check
  <2>3. DeriveToolFault(p, t) = "OK" <=>
            p.max_depth - 1 >= 0 /\ ScopeIsSubset(t.scope, p.scope)
    BY <1>2, FirstOfTwo DEF DeriveToolFault, Check
  <2>4. /\ [t EXCEPT !.max_depth = 0].max_depth = 0
        /\ [t EXCEPT !.max_depth = 0].scope = t.scope
    BY DEF ToolAuthority
  <2>5. 0 <= p.max_depth - 1 <=> p.max_depth # 0
    BY <2>1
  <2>6. p.max_depth - 1 >= 0 <=> p.max_depth # 0
    BY <2>1
  <2>7. PICK least : least = [t EXCEPT !.max_depth = 0]
    OBVIOUS
  <2>8. DeriveToolFault(p, t) = "OK" <=> ToolFault(p, least) = "OK"
    BY <2>2, <2>3, <2>4, <2>5, <2>6, <2>7
  <2>9. PICK depth : depth = IF t.max_depth <= p.max_depth - 1
                             THEN t.max_depth ELSE p.max_depth - 1
    OBVIOUS
  <2>10. depth <= p.max_depth - 1
    BY <2>1, <2>9
  <2>11. PICK capped : capped = [tool_uri |-> p.tool_uri, scope |-> t.scope,
                                 max_depth |-> depth]
    OBVIOUS
  <2>12. DeriveToolFault(p, t) = "OK" => ToolFault(p, capped) = "OK"
    BY <2>2, <2>3, <2>6, <2>10, <2>11
  <2> QED BY <2>7, <2>8, <2>9, <2>11, <2>12
<1> QED BY <1>1, <1>2

\* What coercion refuses is not a GCO.
RefusedAreNoGCOs == ~IsGCO(MALFORMED) /\ ~IsGCO(BADFORMAT)

LEMMA InstancesPass ==
    ASSUME RefusedAreNoGCOs, NEW g, IsGCO(g) PROVE CoerceFault(g) = "OK"
BY DEF RefusedAreNoGCOs, CoerceFault

\* derive() refuses a request as validate() refuses the least child.
Agrees(parent, request, now, least, child) ==
    /\ DeriveFault(parent, request) = "OK" <=>
           ValidateFault(parent, least, now) \in {"OK", "EXPIRED"}
    /\ DeriveFault(parent, request) = "OK" =>
           ValidateFault(parent, child, now) \in {"OK", "EXPIRED"}

LEMMA DeriveGrants ==
    ASSUME NEW parent, NEW request, IsGCO(parent), IsRequest(request),
           NEW least, NEW child, IsGCO(least),
           least.state_access_permissions = request.state_access_permissions,
           least.tool_authority = [i \in DOMAIN request.tool_authority |->
               [request.tool_authority[i] EXCEPT !.max_depth = 0]],
           child.state_access_permissions = request.state_access_permissions,
           child.tool_authority = DerivedTools(parent, request)
    PROVE  /\ DeriveFault(parent, request) = "OK" <=> GrantsPass(parent, least)
           /\ DeriveFault(parent, request) = "OK" => GrantsPass(parent, child)
<1> DEFINE asked == request.tool_authority
           owned == parent.tool_authority
           found(i) == DictGet(owned, "tool_uri", asked[i].tool_uri)
           lows == least.tool_authority
           caps == child.tool_authority
<1>1. asked \in Seq(ToolAuthority) /\ owned \in Seq(ToolAuthority)
  BY DEF IsRequest, IsGCO
<1>2. \A i \in DOMAIN asked : asked[i] \in ToolAuthority /\ found(i) \in ToolAuthority \cup {NONE}
  <2> SUFFICES ASSUME NEW i \in DOMAIN asked
               PROVE  asked[i] \in ToolAuthority /\ found(i) \in ToolAuthority \cup {NONE}
    OBVIOUS
  <2>1. asked[i] \in ToolAuthority
    <3> HIDE DEF asked
    <3> QED BY <1>1
  <2>2. found(i) # NONE => \E a \in DOMAIN owned : found(i) = owned[a]
    <3> HIDE DEF owned
    <3> QED BY <1>1, DictGetFinds
  <2>3. \A a \in DOMAIN owned : owned[a] \in ToolAuthority
    <3> HIDE DEF owned
    <3> QED BY <1>1
  <2> HIDE DEF owned, asked, found
  <2> QED BY <2>1, <2>2, <2>3
<1>3. /\ DOMAIN lows = DOMAIN asked /\ DOMAIN caps = DOMAIN asked
      /\ \A i \in DOMAIN asked : lows[i] = [asked[i] EXCEPT !.max_depth = 0]
      /\ \A i \in DOMAIN asked : caps[i] =
             [tool_uri |-> found(i).tool_uri, scope |-> asked[i].scope,
              max_depth |-> IF asked[i].max_depth <= found(i).max_depth - 1
                            THEN asked[i].max_depth ELSE found(i).max_depth - 1]
  BY DEF DerivedTools
<1>4. \A i \in DOMAIN asked : lows[i].tool_uri = asked[i].tool_uri
  <2> HIDE DEF asked, lows
  <2> QED BY <1>2, <1>3 DEF ToolAuthority
<1>5. \A i \in DOMAIN asked : found(i) # NONE => caps[i].tool_uri = asked[i].tool_uri
  <2> SUFFICES ASSUME NEW i \in DOMAIN asked, found(i) # NONE
               PROVE  caps[i].tool_uri = asked[i].tool_uri
    OBVIOUS
  <2>1. PICK a \in DOMAIN owned :
            owned[a]["tool_uri"] = asked[i].tool_uri /\ found(i) = owned[a]
    <3> HIDE DEF owned
    <3> QED BY <1>1, DictGetFinds
  <2> HIDE DEF owned, asked, caps, found
  <2> QED BY <1>3, <2>1
<1>6. DeriveToolsFault(parent, request) = "OK" <=>
          \A i \in DOMAIN asked : DeriveToolFault(found(i), asked[i]) = "OK"
  <2> DEFINE checks == [i \in DOMAIN asked |-> DeriveToolFault(found(i), asked[i])]
  <2>1. FirstFault(checks) = "OK" <=> \A i \in DOMAIN asked : checks[i] = "OK"
    <3>1. checks = [i \in DOMAIN asked |-> checks[i]]
      OBVIOUS
    <3> HIDE DEF asked, checks
    <3> QED BY <1>1, <3>1, EachPasses
  <2> QED BY <2>1 DEF DeriveToolsFault
<1> DEFINE Fits(g) == \A i \in DOMAIN g.tool_authority :
               ToolFault(DictGet(owned, "tool_uri", g.tool_authority[i].tool_uri),
                         g.tool_authority[i]) = "OK"
<1>7. ASSUME NEW g, DOMAIN g.tool_authority = DOMAIN asked
      PROVE  ToolAuthorityFault(parent, g) = "OK" <=> Fits(g)
  <2> DEFINE checks == [i \in DOMAIN g.tool_authority |->
                 ToolFault(DictGet(owned, "tool_uri", g.tool_authority[i].tool_uri),
                           g.tool_authority[i])]
  <2>1. FirstFault(checks) = "OK" <=> \A i \in DOMAIN checks : checks[i] = "OK"
    <3>1. DOMAIN checks = 1 .. Len(asked) /\ Len(asked) \in Nat
      BY <1>1, <1>7
    <3>2. Len(checks) = Len(asked)
      BY <3>1
    <3> HIDE DEF checks, asked
    <3> QED BY <3>1, <3>2, FirstFaultOK
  <2> QED BY <2>1 DEF ToolAuthorityFault
<1>8. ToolAuthorityFault(parent, least) = "OK" <=> DeriveToolsFault(parent, request) = "OK"
  <2>1. \A i \in DOMAIN asked :
            ToolFault(found(i), lows[i]) = "OK" <=> DeriveToolFault(found(i), asked[i]) = "OK"
    <3> HIDE DEF asked, found, lows
    <3> QED BY <1>2, <1>3, ToolChecksAgree
  <2>2. Fits(least) <=> \A i \in DOMAIN asked : ToolFault(found(i), lows[i]) = "OK"
    BY <1>3, <1>4
  <2> HIDE DEF asked, found, lows, owned, Fits
  <2>3. ToolAuthorityFault(parent, least) = "OK" <=> Fits(least)
    BY <1>3, <1>7 DEF lows
  <2> QED BY <1>6, <2>1, <2>2, <2>3
<1>9. ASSUME DeriveToolsFault(parent, request) = "OK"
      PROVE  /\ ToolAuthorityFault(parent, child) = "OK"
             /\ \A i \in DOMAIN asked : caps[i].tool_uri = asked[i].tool_uri
  <2>1. \A i \in DOMAIN asked : DeriveToolFault(found(i), asked[i]) = "OK"
    BY <1>6, <1>9
  <2>2. \A i \in DOMAIN asked : found(i) # NONE
    <3> HIDE DEF asked, found
    <3> QED BY <2>1 DEF DeriveToolFault
  <2>3. \A i \in DOMAIN asked : caps[i].tool_uri = asked[i].tool_uri
    <3> HIDE DEF asked, found, caps
    <3> QED BY <1>5, <2>2
  <2>4. \A i \in DOMAIN asked : ToolFault(found(i), caps[i]) = "OK"
    <3> SUFFICES ASSUME NEW i \in DOMAIN asked
                 PROVE  ToolFault(found(i), caps[i]) = "OK"
      OBVIOUS
    <3>1. PICK p : p = found(i)
      OBVIOUS
    <3>2. PICK t : t = asked[i]
      OBVIOUS
    <3> HIDE DEF asked, found, caps
    <3>3. /\ p \in ToolAuthority \cup {NONE} /\ t \in ToolAuthority
          /\ DeriveToolFault(p, t) = "OK"
      BY <1>2, <2>1, <3>1, <3>2
    <3>4. ToolFault(p, [tool_uri |-> p.tool_uri, scope |-> t.scope,
                        max_depth |-> IF t.max_depth <= p.max_depth - 1
                                      THEN t.max_depth ELSE p.max_depth - 1]) = "OK"
      BY <3>3, ToolChecksAgree
    <3>5. caps[i] = [tool_uri |-> p.tool_uri, scope |-> t.scope,
                     max_depth |-> IF t.max_depth <= p.max_depth - 1
                                   THEN t.max_depth ELSE p.max_depth - 1]
      BY <1>3, <3>1, <3>2
    <3> QED BY <3>1, <3>4, <3>5
  <2>5. Fits(child)
    BY <1>3, <2>3, <2>4
  <2> HIDE DEF asked, owned, Fits
  <2> QED BY <1>3, <1>7, <2>3, <2>5
<1>10. ASSUME NEW g, DOMAIN g.tool_authority = DOMAIN asked,
              \A i \in DOMAIN asked : g.tool_authority[i].tool_uri = asked[i].tool_uri
       PROVE  ToolUrisFault(g.tool_authority) = ToolUrisFault(asked)
  <2> HIDE DEF asked
  <2>1. NoDuplicates(g.tool_authority, "tool_uri") <=> NoDuplicates(asked, "tool_uri")
    BY <1>10 DEF NoDuplicates
  <2> QED BY <2>1 DEF ToolUrisFault, Check
<1>11. ASSUME NEW g, g.state_access_permissions = request.state_access_permissions
       PROVE  StatePermissionsFault(parent, g) = DerivePermissionsFault(parent, request)
  BY <1>11 DEF StatePermissionsFault, DerivePermissionsFault
<1>12. DeriveFault(parent, request) = "OK" <=>
           /\ ~(Len(parent.lineage) + 1 > MaxLineage)
           /\ NamespacesFault(parent.state_access_permissions) = "OK"
           /\ NamespacesFault(request.state_access_permissions) = "OK"
           /\ ToolUrisFault(owned) = "OK" /\ ToolUrisFault(asked) = "OK"
           /\ DeriveToolsFault(parent, request) = "OK"
           /\ DerivePermissionsFault(parent, request) = "OK"
  <2> DEFINE checks == <<
        NamespacesFault(parent.state_access_permissions),
        NamespacesFault(request.state_access_permissions),
        ToolUrisFault(parent.tool_authority),
        ToolUrisFault(request.tool_authority),
        DeriveToolsFault(parent, request),
        DerivePermissionsFault(parent, request)>>
  <2>1. Len(checks) = 6 /\ DOMAIN checks = 1 .. Len(checks)
    OBVIOUS
  <2>2. FirstFault(checks) = "OK" <=>
            /\ checks[1] = "OK" /\ checks[2] = "OK" /\ checks[3] = "OK"
            /\ checks[4] = "OK" /\ checks[5] = "OK" /\ checks[6] = "OK"
    <3> HIDE DEF checks
    <3>1. PICK list : list = checks
      OBVIOUS
    <3>2. DOMAIN list = 1 .. Len(list) /\ Len(list) \in Nat
      <4>1. Len(list) = 6 /\ DOMAIN list = 1 .. Len(list)
        BY <2>1, <3>1
      <4> QED BY <4>1
    <3>3. FirstFault(list) = "OK" <=> \A i \in DOMAIN list : list[i] = "OK"
      BY <3>2, FirstFaultOK
    <3> QED BY <2>1, <3>1, <3>3
  <2> QED BY <2>2 DEF DeriveFault
<1>13. /\ ToolUrisFault(lows) = ToolUrisFault(asked)
       /\ DeriveToolsFault(parent, request) = "OK" =>
              ToolUrisFault(caps) = ToolUrisFault(asked)
  <2> HIDE DEF asked
  <2> QED BY <1>3, <1>4, <1>9, <1>10
<1>14. /\ StatePermissionsFault(parent, least) = DerivePermissionsFault(parent, request)
       /\ StatePermissionsFault(parent, child) = DerivePermissionsFault(parent, request)
  BY <1>11
<1> HIDE DEF Fits
<1> QED BY <1>8, <1>9, <1>12, <1>13, <1>14 DEF GrantsPass

LEMMA DeriveAgrees ==
    ASSUME RefusedAreNoGCOs, NEW parent, IsGCO(parent), NEW request \in Requests, NEW now
    PROVE  Agrees(parent, request, now, LeastChild(parent, request),
                  ForValidation(DerivedChild(parent, request,
                                             CHOOSE s \in SpanIds : TRUE)))
<1>1. PICK span : span = CHOOSE s \in SpanIds : TRUE
  OBVIOUS
<1>2. PICK bare : bare = [request EXCEPT !.tool_authority = <<>>]
  OBVIOUS
<1>3. /\ IsRequest(request)
      /\ bare.state_access_permissions = request.state_access_permissions
      /\ bare.requested_expiry = request.requested_expiry
      /\ bare.tool_authority = <<>>
  <2>1. /\ IsRequest(request)
        /\ request = [tool_authority |-> request.tool_authority,
                      state_access_permissions |-> request.state_access_permissions,
                      requested_expiry |-> request.requested_expiry]
    BY RequestsAssumption
  <2>2. DOMAIN request = {"tool_authority", "state_access_permissions", "requested_expiry"}
    BY <2>1
  <2> QED BY <1>2, <2>1, <2>2
<1>4. PICK placeholder : placeholder = [format |-> "JWT_SVID", value |-> PLACEHOLDER]
  OBVIOUS
<1>5. PICK lows : lows = [i \in DOMAIN request.tool_authority |->
                             [request.tool_authority[i] EXCEPT !.max_depth = 0]]
  OBVIOUS
<1>6. PICK least : least = LeastChild(parent, request)
  OBVIOUS
<1>7. PICK child : child = ForValidation(DerivedChild(parent, request, span))
  OBVIOUS
<1>8. /\ Inherits(parent, child)
      /\ child.state_access_permissions = request.state_access_permissions
      /\ child.tool_authority = DerivedTools(parent, request)
  <2>1. DerivedExpiry(parent, request) <= parent.expires_at
    BY <1>3 DEF IsRequest, IsGCO, DerivedExpiry
  <2> QED BY <1>7, <2>1 DEF Inherits, ForValidation, WithAttestation, DerivedChild
<1>9. /\ Inherits(parent, least)
      /\ least.state_access_permissions = request.state_access_permissions
      /\ least.tool_authority = lows
      /\ least.expires_at = DerivedExpiry(parent, request)
  <2>1. DerivedExpiry(parent, bare) = DerivedExpiry(parent, request)
    BY <1>3 DEF DerivedExpiry
  <2>2. DerivedExpiry(parent, request) <= parent.expires_at
    BY <1>3 DEF IsRequest, IsGCO, DerivedExpiry
  <2>3. least = [ForValidation(DerivedChild(parent, bare, span))
                 EXCEPT !.tool_authority = lows]
    BY <1>1, <1>2, <1>5, <1>6 DEF LeastChild
  <2> QED BY <1>3, <2>1, <2>2, <2>3
          DEF Inherits, ForValidation, WithAttestation, DerivedChild
<1>10. IsGCO(least)
  <2>1. lows \in Seq(ToolAuthority)
    <3>1. PICK asked \in Seq(ToolAuthority) : asked = request.tool_authority
      BY <1>3 DEF IsRequest
    <3>2. \A i \in DOMAIN asked : asked[i] \in ToolAuthority
      BY <3>1
    <3>3. \A i \in DOMAIN asked : [asked[i] EXCEPT !.max_depth = 0] \in ToolAuthority
      BY <3>2 DEF ToolAuthority
    <3>4. lows = [i \in DOMAIN asked |-> [asked[i] EXCEPT !.max_depth = 0]]
      BY <1>5, <3>1
    <3>5. PICK n \in Nat : n = Len(asked) /\ DOMAIN asked = 1 .. n
      BY <3>1
    <3>6. DOMAIN lows = 1 .. n /\ \A i \in 1 .. n : lows[i] \in ToolAuthority
      BY <3>3, <3>4, <3>5
    <3>7. lows = [i \in 1 .. n |-> lows[i]]
      BY <3>4, <3>5
    <3> HIDE DEF ToolAuthority
    <3> QED BY <3>6, <3>7
  <2>2. IsList(least.lineage)
    BY <1>9, AppendIsList DEF IsGCO, Inherits
  <2>3. least.expires_at \in Int
    BY <1>3, <1>9 DEF IsRequest, IsGCO, DerivedExpiry
  <2> QED BY <1>3, <1>9, <2>1, <2>2, <2>3 DEF IsGCO, IsRequest
<1>11. /\ DeriveFault(parent, request) = "OK" <=> GrantsPass(parent, least)
       /\ DeriveFault(parent, request) = "OK" => GrantsPass(parent, child)
  BY <1>3, <1>5, <1>8, <1>9, <1>10, DeriveGrants
<1>12. ValidateFault(parent, least, now) \in {"OK", "EXPIRED"} <=> GrantsPass(parent, least)
  BY <1>9, <1>10, InstancesPass, InheritsPasses
<1>13. DeriveFault(parent, request) = "OK" => IsGCO(child)
  BY <1>3, <1>7, MintedIsGCO DEF ForValidation
<1>14. DeriveFault(parent, request) = "OK" =>
           (ValidateFault(parent, child, now) \in {"OK", "EXPIRED"} <=> GrantsPass(parent, child))
  BY <1>8, <1>13, InstancesPass, InheritsPasses
<1> QED BY <1>1, <1>6, <1>7, <1>11, <1>12, <1>14 DEF Agrees

(***************************************************************************)
(* The two implementations of the delegation rules, GCODerivationRuntime.  *)
(* derive and GCOValidator.validate, agree on every request against every  *)
(* member of a chain, given only that what coercion refuses is no GCO.     *)
(***************************************************************************)
THEOREM DeriveAgreesWithValidate ==
    ASSUME RefusedAreNoGCOs PROVE Spec => []DeriveMatchesValidate
<1>1. ChainInv => DeriveMatchesValidate
  <2> SUFFICES ASSUME ChainInv, NEW request \in Requests, chain # <<>>
               PROVE  Agrees(Last(chain), request, clock,
                             LeastChild(Last(chain), request),
                             ForValidation(DerivedChild(Last(chain), request,
                                                        CHOOSE s \in SpanIds : TRUE)))
    BY DEF DeriveMatchesValidate, Agrees
  <2>1. Len(chain) \in DOMAIN chain
    <3>1. IsList(chain)
      BY DEF ChainInv, TypeOK
    <3>2. Listed(chain)
      BY <3>1, ListIsListed
    <3>3. Len(chain) # 0 /\ Len(chain) \in Nat /\ DOMAIN chain = 1 .. Len(chain)
      BY <3>2, ListedFacts
    <3> QED BY <3>3
  <2>2. PICK parent : parent = Last(chain) /\ IsGCO(parent)
    BY <2>1 DEF ChainInv, TypeOK, Last
  <2> QED BY <2>2, DeriveAgrees
<1> QED BY InitChain, StepChain, <1>1, PTL DEF Spec
=============================================================================
