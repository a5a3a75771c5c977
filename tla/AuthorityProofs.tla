-------------------------- MODULE AuthorityProofs --------------------------
(***************************************************************************)
(* Lemmas about the operators of Authority and Attestation, for every      *)
(* value of the constants.                                                 *)
(***************************************************************************)
EXTENDS Attestation, ListProofs, FiniteSetTheorems

(***************************************************************************)
(* A list of checks passes exactly when each check passes.                 *)
(***************************************************************************)
LEMMA FirstFaultOK ==
    ASSUME NEW checks, DOMAIN checks = 1 .. Len(checks), Len(checks) \in Nat
    PROVE  FirstFault(checks) = "OK" <=> \A i \in DOMAIN checks : checks[i] = "OK"
<1> DEFINE I == {i \in 1 .. Len(checks) : checks[i] # "OK"}
<1>1. CASE I = {}
  BY <1>1 DEF FirstFault, SelectInSeq
<1>2. CASE I # {}
  <2>1. Min(I) \in I
    BY <1>2, MinInSet
  <2>2. SelectInSeq(checks, LAMBDA c : c # "OK") = Min(I)
    BY <1>2 DEF SelectInSeq
  <2> QED BY <2>1, <2>2 DEF FirstFault
<1> QED BY <1>1, <1>2

\* The first fault of two checks.
LEMMA FirstOfTwo ==
    ASSUME NEW a, NEW b
    PROVE  FirstFault(<<a, b>>) = IF a # "OK" THEN a ELSE b
<1> DEFINE checks == <<a, b>>
           I == {i \in 1 .. Len(checks) : checks[i] # "OK"}
<1>1. Len(checks) = 2 /\ checks[1] = a /\ checks[2] = b
  OBVIOUS
<1> HIDE DEF checks
<1>2. I \subseteq Nat /\ (\A i \in I : i = 1 \/ i = 2)
  BY <1>1
<1>3. (1 \in I <=> a # "OK") /\ (2 \in I <=> b # "OK")
  BY <1>1
<1>4. SelectInSeq(checks, LAMBDA c : c # "OK") = IF I # {} THEN Min(I) ELSE 0
  BY DEF SelectInSeq
<1> HIDE DEF I
<1>5. CASE I = {}
  BY <1>3, <1>4, <1>5 DEF FirstFault, checks
<1>6. CASE I # {}
  <2>1. Min(I) \in I /\ \A y \in I : Min(I) <= y
    BY <1>2, <1>6, MinInSet
  <2>2. PICK m : m = Min(I)
    OBVIOUS
  <2>3. m \in I /\ \A y \in I : m <= y
    BY <2>1, <2>2
  <2>4. m = 1 \/ m = 2
    BY <1>2, <2>3
  <2>5. FirstFault(checks) = checks[m]
    BY <1>4, <1>6, <2>2, <2>4 DEF FirstFault
  <2>6. CASE m = 1
    BY <1>1, <1>3, <2>3, <2>5, <2>6 DEF checks
  <2>7. CASE m = 2
    <3>1. 1 \notin I
      BY <2>3, <2>7
    <3> QED BY <1>1, <1>3, <2>5, <2>7, <3>1 DEF checks
  <2> QED BY <2>4, <2>6, <2>7
<1> QED BY <1>5, <1>6

\* What it takes, and what it means, to be a list; appending keeps lists.
LEMMA ListFacts ==
    ASSUME NEW s, IsList(s)
    PROVE  Len(s) \in Nat /\ DOMAIN s = 1 .. Len(s)
BY DEF IsList

LEMMA ListIsListed ==
    ASSUME NEW s
    PROVE  IsList(s) <=> Listed(s)
BY DEF IsList, Listed, Range

LEMMA SeqIsList ==
    ASSUME NEW T, NEW s \in Seq(T)
    PROVE  IsList(s)
BY SeqListed, ListIsListed

LEMMA AppendIsList ==
    ASSUME NEW s, NEW e, IsList(s)
    PROVE  /\ IsList(Append(s, e))
           /\ Len(Append(s, e)) = Len(s) + 1
           /\ DOMAIN Append(s, e) = 1 .. Len(s) + 1
           /\ \A i \in 1 .. Len(s) : Append(s, e)[i] = s[i]
           /\ Append(s, e)[Len(s) + 1] = e
BY ListedAppend, ListIsListed

(***************************************************************************)
(* What a dict lookup over a list finds is an entry of the list.           *)
(***************************************************************************)
LEMMA DictGetFinds ==
    ASSUME NEW T, NEW list \in Seq(T), NEW field, NEW k,
           DictGet(list, field, k) # NONE
    PROVE  \E i \in DOMAIN list :
               list[i][field] = k /\ DictGet(list, field, k) = list[i]
<1> DEFINE I == {i \in 1 .. Len(list) : list[i][field] = k}
           n == SelectLastInSeq(list, LAMBDA x : x[field] = k)
<1>1. I # {}
  BY DEF DictGet, SelectLastInSeq
<1>2. Max(I) \in I
  BY <1>1, MaxInSet, Len(list) \in Nat
<1>3. n = Max(I)
  BY <1>1 DEF SelectLastInSeq
<1>4. DictGet(list, field, k) = list[n] /\ n \in DOMAIN list
  BY <1>2, <1>3 DEF DictGet
<1> QED BY <1>2, <1>3, <1>4

\* The first match of a list is an entry with the key, and there is one
\* whenever an entry has the key.
LEMMA FirstMatchFinds ==
    ASSUME NEW T, NEW list \in Seq(T), NEW field, NEW k
    PROVE  /\ FirstMatch(list, field, k) # NONE =>
                  \E i \in DOMAIN list :
                      list[i][field] = k /\ FirstMatch(list, field, k) = list[i]
           /\ (\E i \in DOMAIN list : list[i][field] = k) =>
                  \E i \in DOMAIN list :
                      list[i][field] = k /\ FirstMatch(list, field, k) = list[i]
<1> DEFINE I == {i \in 1 .. Len(list) : list[i][field] = k}
           n == SelectInSeq(list, LAMBDA x : x[field] = k)
<1>1. CASE I = {}
  <2>1. FirstMatch(list, field, k) = NONE
    BY <1>1 DEF FirstMatch, SelectInSeq
  <2> QED BY <1>1, <2>1
<1>2. CASE I # {}
  <2>1. Min(I) \in I
    <3>1. I \subseteq Nat
      OBVIOUS
    <3> HIDE DEF I
    <3> QED BY <1>2, <3>1, MinInSet
  <2>2. n = Min(I)
    BY <1>2 DEF SelectInSeq
  <2>3. FirstMatch(list, field, k) = list[n] /\ n \in DOMAIN list
    BY <2>1, <2>2 DEF FirstMatch
  <2> QED BY <2>1, <2>2, <2>3
<1> QED BY <1>1, <1>2

-----------------------------------------------------------------------------
(* The meaning of the decisions of GovernanceRuntime *)

(***************************************************************************)
(* An allowed tool call has a usable entry that covers it; without         *)
(* duplicate URIs, any usable entry that covers it is enough.              *)
(***************************************************************************)
LEMMA ToolCallMeaning ==
    ASSUME NEW g, IsGCO(g), NEW uri, NEW requested
    PROVE  LET Covers(i) == /\ Usable(g.tool_authority[i], uri)
                            /\ \/ requested = NONE
                               \/ ScopeIsSubset(requested,
                                                g.tool_authority[i].scope)
           IN  /\ ToolCallFault(g, uri, requested) = "OK" =>
                      \E i \in DOMAIN g.tool_authority : Covers(i)
               /\ /\ NoDuplicates(g.tool_authority, "tool_uri")
                  /\ \E i \in DOMAIN g.tool_authority : Covers(i)
                  => ToolCallFault(g, uri, requested) = "OK"
<1> DEFINE list == g.tool_authority
           I == {i \in 1 .. Len(list) : Usable(list[i], uri)}
           n == SelectInSeq(list, LAMBDA tool : Usable(tool, uri))
           Covers(i) == /\ Usable(list[i], uri)
                        /\ \/ requested = NONE
                           \/ ScopeIsSubset(requested, list[i].scope)
<1>1. list \in Seq(ToolAuthority) /\ DOMAIN list = 1 .. Len(list) /\ Len(list) \in Nat
  BY DEF IsGCO
<1>2. ToolCallFault(g, uri, requested) = "OK" <=>
          n # 0 /\ (requested = NONE \/ ScopeIsSubset(requested, list[n].scope))
  BY DEF ToolCallFault, Check
<1>3. CASE I = {}
  <2>1. n = 0
    BY <1>3 DEF SelectInSeq
  <2> QED BY <1>1, <1>2, <1>3, <2>1
<1>4. CASE I # {}
  <2>1. Min(I) \in I
    <3>1. I \subseteq Nat
      OBVIOUS
    <3> HIDE DEF I
    <3> QED BY <1>4, <3>1, MinInSet
  <2>2. n = Min(I)
    BY <1>4 DEF SelectInSeq
  <2>3. n \in DOMAIN list /\ n # 0 /\ Usable(list[n], uri)
    <3>1. Min(I) \in 1 .. Len(list) /\ Usable(list[Min(I)], uri)
      BY <2>1
    <3> HIDE DEF list, n, I
    <3> QED BY <1>1, <2>2, <3>1
  <2>4. ToolCallFault(g, uri, requested) = "OK" => Covers(n)
    BY <1>2, <2>3
  <2>5. ASSUME NoDuplicates(list, "tool_uri"), NEW i \in DOMAIN list, Covers(i)
        PROVE  i = n
    BY <2>3, <2>5 DEF NoDuplicates, Usable
  <2> HIDE DEF n, list
  <2> QED BY <1>2, <2>3, <2>4, <2>5 DEF list
<1> QED BY <1>3, <1>4

(***************************************************************************)
(* The same for a state access and its namespace.                          *)
(***************************************************************************)
LEMMA StateAccessMeaning ==
    ASSUME NEW g, IsGCO(g), NEW namespace, NEW mode
    PROVE  LET perms == g.state_access_permissions
               Covers(i) == /\ perms[i].namespace = namespace
                            /\ mode \in Modes \ {"none"}
                            /\ AccessAllows(perms[i].access_mode, mode)
           IN  /\ StateAccessFault(g, namespace, mode) = "OK" =>
                      \E i \in DOMAIN perms : Covers(i)
               /\ /\ NoDuplicates(perms, "namespace")
                  /\ \E i \in DOMAIN perms : Covers(i)
                  => StateAccessFault(g, namespace, mode) = "OK"
<1> DEFINE perms == g.state_access_permissions
           m == FirstMatch(perms, "namespace", namespace)
           Covers(i) == /\ perms[i].namespace = namespace
                        /\ mode \in Modes \ {"none"}
                        /\ AccessAllows(perms[i].access_mode, mode)
<1>1. perms \in Seq(StatePermission)
  BY DEF IsGCO
<1>2. StateAccessFault(g, namespace, mode) = "OK" <=>
          /\ m # NONE /\ mode \in Modes \ {"none"}
          /\ AccessAllows(m.access_mode, mode)
  BY DEF StateAccessFault, Check
<1>3. /\ m # NONE => \E i \in DOMAIN perms :
                         perms[i].namespace = namespace /\ m = perms[i]
      /\ (\E i \in DOMAIN perms : perms[i].namespace = namespace) =>
             \E i \in DOMAIN perms : perms[i].namespace = namespace /\ m = perms[i]
  <2> HIDE DEF perms
  <2> QED BY <1>1, FirstMatchFinds
<1>4. \A i \in DOMAIN perms : perms[i] # NONE
  <2> HIDE DEF perms
  <2> QED BY <1>1, SentinelAssumption
<1>5. ASSUME StateAccessFault(g, namespace, mode) = "OK"
      PROVE  \E i \in DOMAIN perms : Covers(i)
  <2> HIDE DEF m, perms
  <2> QED BY <1>2, <1>3, <1>5
<1>6. ASSUME NoDuplicates(perms, "namespace"), NEW i \in DOMAIN perms, Covers(i)
      PROVE  StateAccessFault(g, namespace, mode) = "OK"
  <2>1. PICK k \in DOMAIN perms : perms[k].namespace = namespace /\ m = perms[k]
    BY <1>3, <1>6
  <2>2. k = i
    BY <1>6, <2>1 DEF NoDuplicates
  <2> HIDE DEF m, perms
  <2> QED BY <1>2, <1>4, <1>6, <2>1, <2>2
<1> QED BY <1>5, <1>6

-----------------------------------------------------------------------------
(* One validated delegation *)

WellFormed(g) ==
    /\ IsGCO(g)
    /\ NoDuplicates(g.tool_authority, "tool_uri")
    /\ NoDuplicates(g.state_access_permissions, "namespace")

ToolsWithin(parent, child) ==
    \A b \in DOMAIN child.tool_authority :
        \E a \in DOMAIN parent.tool_authority :
            /\ parent.tool_authority[a].tool_uri = child.tool_authority[b].tool_uri
            /\ child.tool_authority[b].max_depth + 1
                 <= parent.tool_authority[a].max_depth
            /\ ScopeIsSubset(child.tool_authority[b].scope,
                             parent.tool_authority[a].scope)

PermissionsWithin(parent, child) ==
    \A b \in DOMAIN child.state_access_permissions :
        \E a \in DOMAIN parent.state_access_permissions :
            LET low  == parent.state_access_permissions[a]
                high == child.state_access_permissions[b]
            IN  /\ low.namespace = high.namespace
                /\ AccessAllows(low.access_mode, high.access_mode)
                /\ TAINT_RANK[low.taint_policy] <= TAINT_RANK[high.taint_policy]

\* Every check of a validation that returns OK passed.
LEMMA ValidateChecks ==
    ASSUME NEW parent, NEW child, NEW now,
           ValidateFault(parent, child, now) = "OK"
    PROVE  /\ NamespacesFault(parent.state_access_permissions) = "OK"
           /\ NamespacesFault(child.state_access_permissions) = "OK"
           /\ ToolUrisFault(parent.tool_authority) = "OK"
           /\ ToolUrisFault(child.tool_authority) = "OK"
           /\ VersionFault(parent, child) = "OK"
           /\ ImmutablesFault(parent, child) = "OK"
           /\ LinkageFault(parent, child) = "OK"
           /\ LineageFault(parent, child) = "OK"
           /\ ToolAuthorityFault(parent, child) = "OK"
           /\ StatePermissionsFault(parent, child) = "OK"
           /\ ExpiryFault(parent, child, now) = "OK"
           /\ FirstFault(<<CoerceFault(parent), CoerceFault(child)>>) = "OK"
<1> DEFINE checks == <<
            NamespacesFault(parent.state_access_permissions),
            NamespacesFault(child.state_access_permissions),
            ToolUrisFault(parent.tool_authority),
            ToolUrisFault(child.tool_authority),
            VersionFault(parent, child),
            ImmutablesFault(parent, child),
            LinkageFault(parent, child),
            LineageFault(parent, child),
            ToolAuthorityFault(parent, child),
            StatePermissionsFault(parent, child),
            ExpiryFault(parent, child, now),
            AttestationFault(child)>>
<1>1. /\ FirstFault(checks) = "OK"
      /\ FirstFault(<<CoerceFault(parent), CoerceFault(child)>>) = "OK"
  BY DEF ValidateFault
<1>2. Len(checks) = 12 /\ DOMAIN checks = 1 .. Len(checks)
  OBVIOUS
<1>3. \A i \in DOMAIN checks : checks[i] = "OK"
  <2> HIDE DEF checks
  <2> QED BY <1>1, <1>2, FirstFaultOK
<1>4. /\ checks[1] = "OK" /\ checks[2] = "OK" /\ checks[3] = "OK"
      /\ checks[4] = "OK" /\ checks[5] = "OK" /\ checks[6] = "OK"
      /\ checks[7] = "OK" /\ checks[8] = "OK" /\ checks[9] = "OK"
      /\ checks[10] = "OK" /\ checks[11] = "OK"
  <2> HIDE DEF checks
  <2> QED BY <1>2, <1>3
<1> QED BY <1>1, <1>4

\* A list of checks made one per entry of a list.
LEMMA EachChecked ==
    ASSUME NEW T, NEW list \in Seq(T), NEW checks,
           checks = [i \in DOMAIN list |-> checks[i]], FirstFault(checks) = "OK"
    PROVE  \A i \in DOMAIN list : checks[i] = "OK"
<1>1. DOMAIN checks = 1 .. Len(list) /\ Len(list) \in Nat
  OBVIOUS
<1>2. Len(checks) = Len(list)
  BY <1>1
<1> QED BY <1>1, <1>2, FirstFaultOK

LEMMA PairPasses ==
    ASSUME NEW a, NEW b, FirstFault(<<a, b>>) = "OK"
    PROVE  a = "OK" /\ b = "OK"
<1> DEFINE checks == <<a, b>>
<1>1. Len(checks) = 2 /\ DOMAIN checks = 1 .. Len(checks)
  OBVIOUS
<1>2. \A i \in DOMAIN checks : checks[i] = "OK"
  <2>1. FirstFault(checks) = "OK"
    OBVIOUS
  <2> HIDE DEF checks
  <2> QED BY <1>1, <2>1, FirstFaultOK
<1>3. checks[1] = "OK" /\ checks[2] = "OK"
  BY <1>1, <1>2
<1> QED BY <1>3

LEMMA ValidatedTools ==
    ASSUME NEW parent, NEW child, IsGCO(parent), IsGCO(child),
           ToolAuthorityFault(parent, child) = "OK"
    PROVE  ToolsWithin(parent, child)
<1> DEFINE tools == child.tool_authority
           found(b) == DictGet(parent.tool_authority, "tool_uri", tools[b].tool_uri)
<1>1. tools \in Seq(ToolAuthority) /\ parent.tool_authority \in Seq(ToolAuthority)
  BY DEF IsGCO
<1>2. \A b \in DOMAIN tools : ToolFault(found(b), tools[b]) = "OK"
  <2> DEFINE checks == [b \in DOMAIN tools |-> ToolFault(found(b), tools[b])]
  <2>1. FirstFault(checks) = "OK"
    BY DEF ToolAuthorityFault
  <2>2. checks = [b \in DOMAIN tools |-> checks[b]]
    OBVIOUS
  <2>3. \A b \in DOMAIN tools : checks[b] = "OK"
    <3> HIDE DEF tools, checks
    <3> QED BY <1>1, <2>1, <2>2, EachChecked
  <2> HIDE DEF tools, found
  <2> QED BY <2>3
<1> SUFFICES ASSUME NEW b \in DOMAIN tools
             PROVE  \E a \in DOMAIN parent.tool_authority :
                        /\ parent.tool_authority[a].tool_uri = tools[b].tool_uri
                        /\ tools[b].max_depth + 1 <= parent.tool_authority[a].max_depth
                        /\ ScopeIsSubset(tools[b].scope, parent.tool_authority[a].scope)
  BY DEF ToolsWithin
<1>3. found(b) # NONE
  BY <1>2 DEF ToolFault
<1>4. PICK a \in DOMAIN parent.tool_authority :
          /\ parent.tool_authority[a]["tool_uri"] = tools[b].tool_uri
          /\ found(b) = parent.tool_authority[a]
  BY <1>1, <1>3, DictGetFinds
<1>5. /\ Check(/\ found(b).max_depth # 0
               /\ tools[b].max_depth <= found(b).max_depth - 1,
               "MAX_DEPTH_INCREASED") = "OK"
      /\ Check(ScopeIsSubset(tools[b].scope, found(b).scope),
               "TOOL_AUTHORITY_EXPANDED") = "OK"
  BY <1>2, <1>3, PairPasses DEF ToolFault
<1>6. tools[b] \in ToolAuthority /\ parent.tool_authority[a] \in ToolAuthority
  <2> HIDE DEF tools
  <2> QED BY <1>1
<1>7. tools[b].max_depth \in Nat /\ parent.tool_authority[a].max_depth \in Nat
  BY <1>6 DEF ToolAuthority
<1> HIDE DEF tools, found
<1> QED BY <1>4, <1>5, <1>7 DEF Check

LEMMA ValidatedPermissions ==
    ASSUME NEW parent, NEW child, IsGCO(parent), IsGCO(child),
           StatePermissionsFault(parent, child) = "OK"
    PROVE  PermissionsWithin(parent, child)
<1> DEFINE perms == child.state_access_permissions
           owned == parent.state_access_permissions
           found(b) == DictGet(owned, "namespace", perms[b].namespace)
<1>1. perms \in Seq(StatePermission) /\ owned \in Seq(StatePermission)
  BY DEF IsGCO
<1>2. \A b \in DOMAIN perms : PermissionFault(found(b), perms[b]) = "OK"
  <2> DEFINE checks == [b \in DOMAIN perms |-> PermissionFault(found(b), perms[b])]
  <2>1. FirstFault(checks) = "OK"
    BY DEF StatePermissionsFault
  <2>2. checks = [b \in DOMAIN perms |-> checks[b]]
    OBVIOUS
  <2>3. \A b \in DOMAIN perms : checks[b] = "OK"
    <3> HIDE DEF perms, checks
    <3> QED BY <1>1, <2>1, <2>2, EachChecked
  <2> HIDE DEF perms, owned, found
  <2> QED BY <2>3
<1> SUFFICES ASSUME NEW b \in DOMAIN perms
             PROVE  \E a \in DOMAIN owned :
                        /\ owned[a].namespace = perms[b].namespace
                        /\ AccessAllows(owned[a].access_mode, perms[b].access_mode)
                        /\ TAINT_RANK[owned[a].taint_policy]
                             <= TAINT_RANK[perms[b].taint_policy]
  BY DEF PermissionsWithin
<1>3. found(b) # NONE
  BY <1>2 DEF PermissionFault
<1>4. PICK a \in DOMAIN owned :
          owned[a]["namespace"] = perms[b].namespace /\ found(b) = owned[a]
  <2> HIDE DEF owned
  <2> QED BY <1>1, <1>3, DictGetFinds
<1>5. /\ Check(AccessAllows(found(b).access_mode, perms[b].access_mode),
               "STATE_PERMISSION_EXPANDED") = "OK"
      /\ Check(TAINT_RANK[perms[b].taint_policy]
                 >= TAINT_RANK[found(b).taint_policy], "TAINT_DOWNGRADED") = "OK"
  <2> HIDE DEF perms, owned, found
  <2> QED BY <1>2, <1>3, PairPasses DEF PermissionFault
<1> HIDE DEF perms, owned, found
<1>6. perms[b] \in StatePermission /\ owned[a] \in StatePermission
  BY <1>1
<1>7. /\ perms[b].taint_policy \in Taints /\ owned[a].taint_policy \in Taints
      /\ \A p \in Taints : TAINT_RANK[p] \in Nat
  BY <1>6 DEF StatePermission, Taints, TAINT_RANK
<1>8. TAINT_RANK[owned[a].taint_policy] <= TAINT_RANK[perms[b].taint_policy]
  BY <1>4, <1>5, <1>7 DEF Check
<1> QED BY <1>4, <1>5, <1>8 DEF Check

\* All that one validated delegation establishes.
Delegated(parent, child) ==
    /\ WellFormed(parent) /\ WellFormed(child)
    /\ ToolsWithin(parent, child)
    /\ PermissionsWithin(parent, child)
    /\ child.gco_version.major = parent.gco_version.major
    /\ child.trace_id = parent.trace_id
    /\ child.policy_id = parent.policy_id
    /\ child.model_identity = parent.model_identity
    /\ child.intervention_version = parent.intervention_version
    /\ child.parent_span_id = parent.span_id
    /\ child.expires_at <= parent.expires_at
    /\ Len(child.lineage) <= MaxLineage
    /\ Len(child.lineage) = Len(parent.lineage) + 1
    /\ \A i \in 1 .. Len(parent.lineage) : child.lineage[i] = parent.lineage[i]
    /\ child.lineage[Len(child.lineage)] = canonical_gco_hash(parent)

LEMMA ImmutablesKept ==
    ASSUME NEW parent, NEW child, ImmutablesFault(parent, child) = "OK"
    PROVE  /\ child.trace_id = parent.trace_id
           /\ child.policy_id = parent.policy_id
           /\ child.model_identity = parent.model_identity
           /\ child.intervention_version = parent.intervention_version
<1> DEFINE checks == <<
        Check(child.trace_id = parent.trace_id, "TRACE_ID_CHANGED"),
        Check(child.policy_id = parent.policy_id, "POLICY_ID_CHANGED"),
        Check(child.model_identity = parent.model_identity,
              "MODEL_IDENTITY_CHANGED"),
        Check(child.intervention_version = parent.intervention_version,
              "INTERVENTION_CHANGED")>>
<1>1. FirstFault(checks) = "OK"
  BY DEF ImmutablesFault
<1>2. Len(checks) = 4 /\ DOMAIN checks = 1 .. Len(checks)
  OBVIOUS
<1>3. \A i \in DOMAIN checks : checks[i] = "OK"
  <2> HIDE DEF checks
  <2> QED BY <1>1, <1>2, FirstFaultOK
<1>4. checks[1] = "OK" /\ checks[2] = "OK" /\ checks[3] = "OK" /\ checks[4] = "OK"
  <2> HIDE DEF checks
  <2> QED BY <1>2, <1>3
<1> QED BY <1>4 DEF Check

LEMMA LineageAppends ==
    ASSUME NEW parent, NEW child, IsGCO(parent), IsGCO(child),
           LineageFault(parent, child) = "OK"
    PROVE  /\ Len(child.lineage) <= MaxLineage
           /\ Len(child.lineage) = Len(parent.lineage) + 1
           /\ \A i \in 1 .. Len(parent.lineage) :
                  child.lineage[i] = parent.lineage[i]
           /\ child.lineage[Len(child.lineage)] = canonical_gco_hash(parent)
<1>1. Len(child.lineage) \in Nat /\ Len(parent.lineage) \in Nat
  BY ListFacts DEF IsGCO
<1>2. /\ ~(Len(child.lineage) > MaxLineage)
      /\ Len(child.lineage) = Len(parent.lineage) + 1
      /\ SubSeq(child.lineage, 1, Len(child.lineage) - 1) = parent.lineage
      /\ child.lineage[Len(child.lineage)] = canonical_gco_hash(parent)
  BY DEF LineageFault, Check, Front, Last
<1>3. \A i \in 1 .. Len(parent.lineage) : child.lineage[i] = parent.lineage[i]
  BY <1>1, <1>2
<1> QED BY <1>1, <1>2, <1>3, MaxLineageAssumption

(***************************************************************************)
(* A child that GCOValidator.validate accepts is within its parent.        *)
(***************************************************************************)
THEOREM ValidateImpliesDelegated ==
    ASSUME NEW parent, NEW child, NEW now, IsGCO(parent), IsGCO(child),
           ValidateFault(parent, child, now) = "OK"
    PROVE  Delegated(parent, child)
<1>1. WellFormed(parent) /\ WellFormed(child)
  BY ValidateChecks DEF WellFormed, NamespacesFault, ToolUrisFault, Check
<1>2. ToolsWithin(parent, child) /\ PermissionsWithin(parent, child)
  BY ValidateChecks, ValidatedTools, ValidatedPermissions
<1>3. /\ child.gco_version.major = parent.gco_version.major
      /\ child.parent_span_id = parent.span_id
  BY ValidateChecks DEF VersionFault, LinkageFault, Check
<1>4. child.expires_at <= parent.expires_at
  BY ValidateChecks, PairPasses DEF ExpiryFault, Check
<1>5. ImmutablesFault(parent, child) = "OK" /\ LineageFault(parent, child) = "OK"
  BY ValidateChecks
<1>6. /\ child.trace_id = parent.trace_id
      /\ child.policy_id = parent.policy_id
      /\ child.model_identity = parent.model_identity
      /\ child.intervention_version = parent.intervention_version
  BY <1>5, ImmutablesKept
<1>7. /\ Len(child.lineage) <= MaxLineage
      /\ Len(child.lineage) = Len(parent.lineage) + 1
      /\ \A i \in 1 .. Len(parent.lineage) :
             child.lineage[i] = parent.lineage[i]
      /\ child.lineage[Len(child.lineage)] = canonical_gco_hash(parent)
  BY <1>5, LineageAppends
<1> QED BY <1>1, <1>2, <1>3, <1>4, <1>6, <1>7 DEF Delegated

\* One hop does not widen what the runtime allows.
LEMMA DelegatedCalls ==
    ASSUME NEW parent, NEW child, Delegated(parent, child), NEW uri \in Uris,
           NEW scope \in Scope, scope.tokens # {},
           ToolCallFault(child, uri, scope) = "OK"
    PROVE  ToolCallFault(parent, uri, scope) = "OK"
<1>1. IsGCO(parent) /\ IsGCO(child) /\ NoDuplicates(parent.tool_authority, "tool_uri")
  BY DEF Delegated, WellFormed
<1>2. scope \in Scope /\ scope.tokens # {} /\ scope # NONE
  BY SentinelAssumption
<1>3. PICK b \in DOMAIN child.tool_authority :
          /\ Usable(child.tool_authority[b], uri)
          /\ ScopeIsSubset(scope, child.tool_authority[b].scope)
  BY <1>1, <1>2, ToolCallMeaning
<1>4. PICK a \in DOMAIN parent.tool_authority :
          /\ parent.tool_authority[a].tool_uri = child.tool_authority[b].tool_uri
          /\ child.tool_authority[b].max_depth + 1
               <= parent.tool_authority[a].max_depth
          /\ ScopeIsSubset(child.tool_authority[b].scope,
                           parent.tool_authority[a].scope)
  BY DEF Delegated, ToolsWithin
<1>5. /\ child.tool_authority[b] \in ToolAuthority
      /\ parent.tool_authority[a] \in ToolAuthority
  BY <1>1 DEF IsGCO
<1>6. /\ child.tool_authority[b].max_depth \in Nat
      /\ parent.tool_authority[a].max_depth \in Nat
      /\ parent.tool_authority[a].scope \in Scope
  BY <1>5 DEF ToolAuthority
<1>7. ScopeIsSubset(scope, parent.tool_authority[a].scope)
  BY <1>3, <1>4 DEF ScopeIsSubset
\* A scope that covers an operation is not blank.
<1>8. ~parent.tool_authority[a].scope.blank
  BY <1>2, <1>6, <1>7 DEF Scope, ScopeIsSubset
<1>9. Usable(parent.tool_authority[a], uri)
  BY <1>3, <1>4, <1>6, <1>8 DEF Usable
<1> QED BY <1>1, <1>7, <1>9, ToolCallMeaning

LEMMA DelegatedAccess ==
    ASSUME NEW parent, NEW child, Delegated(parent, child),
           NEW namespace \in Namespaces, NEW mode \in Modes,
           StateAccessFault(child, namespace, mode) = "OK"
    PROVE  StateAccessFault(parent, namespace, mode) = "OK"
<1> DEFINE perms == child.state_access_permissions
           owned == parent.state_access_permissions
<1>1. /\ IsGCO(parent) /\ IsGCO(child)
      /\ NoDuplicates(owned, "namespace")
  BY DEF Delegated, WellFormed
<1>2. PICK b \in DOMAIN perms :
          /\ perms[b].namespace = namespace /\ mode \in Modes \ {"none"}
          /\ AccessAllows(perms[b].access_mode, mode)
  BY <1>1, StateAccessMeaning
<1>3. PICK a \in DOMAIN owned :
          /\ owned[a].namespace = perms[b].namespace
          /\ AccessAllows(owned[a].access_mode, perms[b].access_mode)
  BY DEF Delegated, PermissionsWithin
<1>4. owned[a] \in StatePermission /\ perms[b] \in StatePermission
  BY <1>1 DEF IsGCO
<1>5. owned[a].access_mode \in Modes /\ perms[b].access_mode \in Modes
  BY <1>4 DEF StatePermission
\* The allowances are transitive; write to append to read would not be.
<1>6. \A x, y, z \in Modes : AccessAllows(x, y) /\ AccessAllows(y, z) => AccessAllows(x, z)
  BY DEF AccessAllows, ACCESS_ALLOWANCES, Modes
<1>7. AccessAllows(owned[a].access_mode, mode)
  BY <1>2, <1>3, <1>5, <1>6
<1> QED BY <1>1, <1>2, <1>3, <1>7, StateAccessMeaning

-----------------------------------------------------------------------------
(* What derive() mints is a GCO *)

LEMMA DerivedToolsTyped ==
    ASSUME NEW parent, NEW request, IsGCO(parent), IsRequest(request),
           DeriveToolsFault(parent, request) = "OK"
    PROVE  DerivedTools(parent, request) \in Seq(ToolAuthority)
<1> DEFINE asked == request.tool_authority
           owned == parent.tool_authority
           found(i) == DictGet(owned, "tool_uri", asked[i].tool_uri)
           remaining(i) == found(i).max_depth - 1
           granted(i) == [tool_uri |-> found(i).tool_uri, scope |-> asked[i].scope,
                          max_depth |-> IF asked[i].max_depth <= remaining(i)
                                        THEN asked[i].max_depth ELSE remaining(i)]
<1>1. asked \in Seq(ToolAuthority) /\ owned \in Seq(ToolAuthority)
  BY DEF IsRequest, IsGCO
<1>2. \A i \in DOMAIN asked : DeriveToolFault(found(i), asked[i]) = "OK"
  <2> DEFINE checks == [i \in DOMAIN asked |-> DeriveToolFault(found(i), asked[i])]
  <2>1. FirstFault(checks) = "OK"
    BY DEF DeriveToolsFault
  <2>2. checks = [i \in DOMAIN asked |-> checks[i]]
    OBVIOUS
  <2>3. \A i \in DOMAIN asked : checks[i] = "OK"
    <3> HIDE DEF asked, checks
    <3> QED BY <1>1, <2>1, <2>2, EachChecked
  <2> HIDE DEF asked, found
  <2> QED BY <2>3
<1>3. ASSUME NEW i \in DOMAIN asked PROVE granted(i) \in ToolAuthority
  <2>1. found(i) # NONE
    BY <1>2, <1>3 DEF DeriveToolFault
  <2>2. PICK a \in DOMAIN owned : found(i) = owned[a]
    <3> HIDE DEF owned
    <3> QED BY <1>1, <2>1, DictGetFinds
  <2>3. Check(found(i).max_depth - 1 >= 0, "MAX_DEPTH_INCREASED") = "OK"
    <3> HIDE DEF asked, found
    <3> QED BY <1>2, <1>3, <2>1, PairPasses DEF DeriveToolFault
  <2>4. found(i) \in ToolAuthority /\ asked[i] \in ToolAuthority
    <3> HIDE DEF owned, asked, found
    <3> QED BY <1>1, <1>3, <2>2
  <2> HIDE DEF owned, asked, found
  <2> QED BY <2>3, <2>4 DEF Check, ToolAuthority
<1>4. DerivedTools(parent, request) = [i \in DOMAIN asked |-> granted(i)]
  BY DEF DerivedTools
<1> HIDE DEF granted, asked
<1> QED BY <1>1, <1>3, <1>4

LEMMA DeriveChecks ==
    ASSUME NEW parent, NEW request, DeriveFault(parent, request) = "OK"
    PROVE  DeriveToolsFault(parent, request) = "OK"
<1> DEFINE checks == <<
        NamespacesFault(parent.state_access_permissions),
        NamespacesFault(request.state_access_permissions),
        ToolUrisFault(parent.tool_authority),
        ToolUrisFault(request.tool_authority),
        DeriveToolsFault(parent, request),
        DerivePermissionsFault(parent, request)>>
<1>1. FirstFault(checks) = "OK"
  BY DEF DeriveFault
<1>2. Len(checks) = 6 /\ DOMAIN checks = 1 .. Len(checks)
  OBVIOUS
<1>3. checks[5] = "OK"
  <2> HIDE DEF checks
  <2> QED BY <1>1, <1>2, FirstFaultOK
<1> QED BY <1>3

LEMMA MintedIsGCO ==
    ASSUME NEW parent, NEW request, NEW span, NEW attestation,
           IsGCO(parent), IsRequest(request), DeriveFault(parent, request) = "OK"
    PROVE  IsGCO(WithAttestation(DerivedChild(parent, request, span), attestation))
<1> DEFINE g == WithAttestation(DerivedChild(parent, request, span), attestation)
<1>1. DerivedTools(parent, request) \in Seq(ToolAuthority)
  BY DeriveChecks, DerivedToolsTyped
<1>2. /\ g.tool_authority = DerivedTools(parent, request)
      /\ g.state_access_permissions = request.state_access_permissions
      /\ g.expires_at = IF request.requested_expiry <= parent.expires_at
                        THEN request.requested_expiry ELSE parent.expires_at
      /\ g.lineage = Append(parent.lineage, canonical_gco_hash(parent))
  BY DEF WithAttestation, DerivedChild, DerivedExpiry
<1>3. IsList(g.lineage)
  BY <1>2, AppendIsList DEF IsGCO
<1> HIDE DEF g
<1>4. g.expires_at \in Int
  BY <1>2 DEF IsGCO, IsRequest
<1>5. g.tool_authority \in Seq(ToolAuthority)
  BY <1>1, <1>2
<1>6. g.state_access_permissions \in Seq(StatePermission)
  BY <1>2 DEF IsRequest
<1>7. IsGCO(g)
  BY <1>3, <1>4, <1>5, <1>6 DEF IsGCO
<1> QED BY <1>7 DEF g

-----------------------------------------------------------------------------
(* Verification *)

(***************************************************************************)
(* What passes verify()'s checks has an expiry after the sampled time, and *)
(* names the GCO it came with.                                             *)
(***************************************************************************)
LEMMA BindingsFresh ==
    ASSUME NEW trust, NEW payload, NEW g, NEW now,
           BindingsFault(trust, payload, g, now) = "OK"
    PROVE  /\ payload.exp \notin {NONE, BAD} /\ payload.exp > now
           /\ payload.gco_hash = canonical_gco_hash(g)
<1> DEFINE checks == <<
        Check(payload.sub = g.model_identity, "SPIFFE_ID_MISMATCH"),
        Check(payload.gco_hash = canonical_gco_hash(g), "GCO_DIGEST_MISMATCH"),
        Check(AudienceMatches(trust, payload.aud), "AUDIENCE_MISMATCH"),
        Check(IsNumericDate(payload.exp), "MALFORMED_ATTESTATION"),
        Check(IsNumericDate(payload.exp) => payload.exp > now,
              "EXPIRED_ATTESTATION"),
        Check(payload.nbf # BAD, "MALFORMED_ATTESTATION"),
        Check(IsNumericDate(payload.nbf) => payload.nbf <= now,
              "MALFORMED_ATTESTATION"),
        Check(payload.iat # BAD, "MALFORMED_ATTESTATION"),
        Check(IsNumericDate(payload.iat) => payload.iat <= now,
              "MALFORMED_ATTESTATION")>>
<1>1. FirstFault(checks) = "OK"
  BY DEF BindingsFault
<1>2. Len(checks) = 9 /\ DOMAIN checks = 1 .. Len(checks)
  OBVIOUS
<1>3. \A i \in DOMAIN checks : checks[i] = "OK"
  <2> HIDE DEF checks
  <2> QED BY <1>1, <1>2, FirstFaultOK
<1>4. checks[2] = "OK" /\ checks[4] = "OK" /\ checks[5] = "OK"
  BY <1>2, <1>3
<1> QED BY <1>4 DEF Check, IsNumericDate

LEMMA VerifiedFresh ==
    ASSUME NEW trust, NEW a, NEW g, NEW now, VerifyFault(trust, a, g, now) = "OK"
    PROVE  /\ a # NONE /\ a.value # NONE
           /\ a.value.payload.exp \notin {NONE, BAD}
           /\ a.value.payload.exp > now
           /\ a.value.payload.gco_hash = canonical_gco_hash(g)
<1>1. a # NONE /\ a.value # NONE
  BY DEF VerifyFault
<1>2. BindingsFault(trust, a.value.payload, g, now) = "OK"
  <2>1. CASE a.format = "JWT_SVID"
    <3>1. JwtFault(trust, a.value, g, now) = "OK"
      BY <2>1, <1>1 DEF VerifyFault
    <3> QED BY <3>1, FirstOfTwo DEF JwtFault
  <2>2. CASE a.format = "X509_SVID"
    <3>1. X509Fault(trust, a.value, g, now) = "OK"
      BY <2>2, <1>1 DEF VerifyFault
    <3> QED BY <3>1 DEF X509Fault
  <2> QED BY <1>1, <2>1, <2>2 DEF VerifyFault
<1> QED BY <1>1, <1>2, BindingsFresh

\* What _decode_with_key accepts was signed with the key.
LEMMA DecodedSigned ==
    ASSUME NEW token, NEW key, DecodeFault(token, key) = "OK"
    PROVE  token.signer = key
<1> DEFINE checks == <<
        Check(token.header.alg \in ALGORITHMS[key.kty], "MALFORMED_ATTESTATION"),
        Check(token.signer = key, "UNVERIFIED_SIGNATURE"),
        Check(token.shape # "bad_payload", "MALFORMED_ATTESTATION")>>
<1>1. FirstFault(checks) = "OK"
  BY DEF DecodeFault
<1>2. Len(checks) = 3 /\ DOMAIN checks = 1 .. Len(checks)
  OBVIOUS
<1>3. \A i \in DOMAIN checks : checks[i] = "OK"
  <2> HIDE DEF checks
  <2> QED BY <1>1, <1>2, FirstFaultOK
<1>4. checks[2] = "OK"
  BY <1>2, <1>3
<1> QED BY <1>4 DEF Check

\* A list of checks none of which gives a fault does not give it.
LEMMA FirstFaultAmong ==
    ASSUME NEW checks, DOMAIN checks = 1 .. Len(checks), Len(checks) \in Nat,
           NEW fault, fault # "OK", \A i \in DOMAIN checks : checks[i] # fault
    PROVE  FirstFault(checks) # fault
<1> DEFINE I == {i \in 1 .. Len(checks) : checks[i] # "OK"}
<1>1. CASE I = {}
  BY <1>1 DEF FirstFault, SelectInSeq
<1>2. CASE I # {}
  <2>1. Min(I) \in I
    BY <1>2, MinInSet
  <2>2. SelectInSeq(checks, LAMBDA c : c # "OK") = Min(I)
    BY <1>2 DEF SelectInSeq
  <2> QED BY <2>1, <2>2 DEF FirstFault
<1> QED BY <1>1, <1>2

\* REPLAY_DETECTED is the replay check's own: no check before it says so.
LEMMA NoReplayBeforeCache ==
    ASSUME NEW trust, NEW a, NEW g, NEW now
    PROVE  VerifyFault(trust, a, g, now) # "REPLAY_DETECTED"
<1> DEFINE Other(fault) == fault # "REPLAY_DETECTED"
<1>1. ASSUME NEW token, NEW key
      PROVE  Other(DecodeFault(token, key))
  <2> DEFINE checks == <<
          Check(token.header.alg \in ALGORITHMS[key.kty], "MALFORMED_ATTESTATION"),
          Check(token.signer = key, "UNVERIFIED_SIGNATURE"),
          Check(token.shape # "bad_payload", "MALFORMED_ATTESTATION")>>
  <2>1. Len(checks) = 3 /\ DOMAIN checks = 1 .. Len(checks)
    OBVIOUS
  <2>2. \A i \in DOMAIN checks : Other(checks[i])
    BY DEF Check
  <2>3. Other(FirstFault(checks))
    <3> HIDE DEF checks
    <3> QED BY <2>1, <2>2, FirstFaultAmong
  <2> QED BY <2>3 DEF DecodeFault
<1>2. ASSUME NEW payload
      PROVE  Other(BindingsFault(trust, payload, g, now))
  <2> DEFINE checks == <<
          Check(payload.sub = g.model_identity, "SPIFFE_ID_MISMATCH"),
          Check(payload.gco_hash = canonical_gco_hash(g), "GCO_DIGEST_MISMATCH"),
          Check(AudienceMatches(trust, payload.aud), "AUDIENCE_MISMATCH"),
          Check(IsNumericDate(payload.exp), "MALFORMED_ATTESTATION"),
          Check(IsNumericDate(payload.exp) => payload.exp > now,
                "EXPIRED_ATTESTATION"),
          Check(payload.nbf # BAD, "MALFORMED_ATTESTATION"),
          Check(IsNumericDate(payload.nbf) => payload.nbf <= now,
                "MALFORMED_ATTESTATION"),
          Check(payload.iat # BAD, "MALFORMED_ATTESTATION"),
          Check(IsNumericDate(payload.iat) => payload.iat <= now,
                "MALFORMED_ATTESTATION")>>
  <2>1. Len(checks) = 9 /\ DOMAIN checks = 1 .. Len(checks)
    OBVIOUS
  <2>2. \A i \in DOMAIN checks : Other(checks[i])
    BY DEF Check
  <2>3. Other(FirstFault(checks))
    <3> HIDE DEF checks
    <3> QED BY <2>1, <2>2, FirstFaultAmong
  <2> QED BY <2>3 DEF BindingsFault
<1>3. ASSUME NEW token PROVE Other(JwtFault(trust, token, g, now))
  BY <1>1, <1>2, FirstOfTwo DEF JwtFault
<1>4. ASSUME NEW token PROVE Other(X509Fault(trust, token, g, now))
  <2>1. Other(ChainFault(trust, token.header.x5c, now))
    BY DEF ChainFault, Check
  <2> QED BY <1>1, <1>2, <2>1 DEF X509Fault
<1> QED BY <1>3, <1>4 DEF VerifyFault

\* Eviction drops only what has expired at the time it was given.
LEMMA EvictKeeps ==
    ASSUME NEW entries, entries \in [DOMAIN entries -> Int],
           IsFiniteSet(DOMAIN entries), NEW bound \in Nat,
           Cardinality(DOMAIN entries) <= bound, NEW now \in Int
    PROVE  LET live == Evict(entries, now)
           IN  /\ DOMAIN live \subseteq DOMAIN entries
               /\ live \in [DOMAIN live -> Int]
               /\ IsFiniteSet(DOMAIN live)
               /\ Cardinality(DOMAIN live) <= bound
               /\ Cardinality(DOMAIN live) \in Nat
               /\ \A j \in DOMAIN entries :
                      entries[j] > now => j \in DOMAIN live /\ live[j] = entries[j]
<1> DEFINE live == Evict(entries, now)
<1>1. DOMAIN live = {k \in DOMAIN entries : entries[k] > now}
  BY DEF Evict
<1>2. IsFiniteSet(DOMAIN live) /\ Cardinality(DOMAIN live) <= Cardinality(DOMAIN entries)
  BY <1>1, FS_Subset
<1>3. Cardinality(DOMAIN live) \in Nat /\ Cardinality(DOMAIN entries) \in Nat
  BY <1>2, FS_CardinalityType
<1>4. live \in [DOMAIN live -> Int]
  BY <1>1 DEF Evict
<1>5. \A j \in DOMAIN entries :
          entries[j] > now => j \in DOMAIN live /\ live[j] = entries[j]
  BY <1>1 DEF Evict
<1>6. Cardinality(DOMAIN live) <= bound
  BY <1>2, <1>3
<1> QED BY <1>1, <1>2, <1>3, <1>4, <1>5, <1>6

-----------------------------------------------------------------------------
(* What time does to a verdict *)

\* A list of checks of which one may fail.
LEMMA OneMayFail ==
    ASSUME NEW checks, DOMAIN checks = 1 .. Len(checks), Len(checks) \in Nat,
           NEW k \in DOMAIN checks, \A i \in DOMAIN checks \ {k} : checks[i] = "OK"
    PROVE  FirstFault(checks) = checks[k]
<1>1. CASE checks[k] = "OK"
  <2>1. FirstFault(checks) = "OK"
    BY <1>1, FirstFaultOK
  <2> QED BY <1>1, <2>1
<1>2. CASE checks[k] # "OK"
  <2>1. PICK fault : fault = FirstFault(checks)
    OBVIOUS
  <2>2. fault # "OK"
    BY <1>2, <2>1, FirstFaultOK
  <2>3. \E i \in DOMAIN checks : checks[i] = fault
    BY <2>1, <2>2, FirstFaultAmong
  <2> QED BY <2>1, <2>2, <2>3
<1> QED BY <1>1, <1>2

(***************************************************************************)
(* A delegation that was valid is refused later only as expired.           *)
(***************************************************************************)
LEMMA ValidateLater ==
    ASSUME NEW parent, NEW child, NEW before, NEW now, child.expires_at \in Int,
           now \in Int, ValidateFault(parent, child, before) = "OK"
    PROVE  \/ ValidateFault(parent, child, now) = "OK"
           \/ ValidateFault(parent, child, now) = "EXPIRED" /\ child.expires_at <= now
<1> DEFINE checks(time) == <<
            NamespacesFault(parent.state_access_permissions),
            NamespacesFault(child.state_access_permissions),
            ToolUrisFault(parent.tool_authority),
            ToolUrisFault(child.tool_authority),
            VersionFault(parent, child),
            ImmutablesFault(parent, child),
            LinkageFault(parent, child),
            LineageFault(parent, child),
            ToolAuthorityFault(parent, child),
            StatePermissionsFault(parent, child),
            ExpiryFault(parent, child, time),
            AttestationFault(child)>>
<1>1. /\ FirstFault(<<CoerceFault(parent), CoerceFault(child)>>) = "OK"
      /\ FirstFault(checks(before)) = "OK"
      /\ ValidateFault(parent, child, now) = FirstFault(checks(now))
  BY DEF ValidateFault
<1>2. /\ Len(checks(now)) = 12 /\ DOMAIN checks(now) = 1 .. Len(checks(now))
      /\ Len(checks(before)) = 12 /\ DOMAIN checks(before) = 1 .. Len(checks(before))
      /\ checks(now)[11] = ExpiryFault(parent, child, now)
      /\ checks(before)[11] = ExpiryFault(parent, child, before)
  OBVIOUS
<1>3. \A i \in 1 .. 12 \ {11} : checks(now)[i] = checks(before)[i]
  OBVIOUS
<1> HIDE DEF checks
<1>4. \A i \in DOMAIN checks(before) : checks(before)[i] = "OK"
  BY <1>1, <1>2, FirstFaultOK
<1>5. FirstFault(checks(now)) = ExpiryFault(parent, child, now)
  <2>1. \A i \in DOMAIN checks(now) \ {11} : checks(now)[i] = "OK"
    BY <1>2, <1>3, <1>4
  <2>2. 11 \in DOMAIN checks(now) /\ Len(checks(now)) \in Nat
    BY <1>2
  <2> QED BY <1>2, <2>1, <2>2, OneMayFail
<1>6. ExpiryFault(parent, child, before) = "OK"
  BY <1>2, <1>4
<1>7. Check(child.expires_at <= parent.expires_at, "EXPIRY_EXTENDED") = "OK"
  BY <1>6, FirstOfTwo DEF ExpiryFault
<1>8. ExpiryFault(parent, child, now) = Check(child.expires_at > now, "EXPIRED")
  BY <1>7, FirstOfTwo DEF ExpiryFault
<1> QED BY <1>1, <1>5, <1>8 DEF Check

\* A check that fails is one of the list.
LEMMA FirstFaultIs ==
    ASSUME NEW checks, DOMAIN checks = 1 .. Len(checks), Len(checks) \in Nat
    PROVE  \/ FirstFault(checks) = "OK"
           \/ \E i \in DOMAIN checks : FirstFault(checks) = checks[i]
<1>1. PICK fault : fault = FirstFault(checks)
  OBVIOUS
<1> QED BY <1>1, FirstFaultAmong

\* What _decode_with_key can say.
LEMMA DecodeFaults ==
    ASSUME NEW token, NEW key
    PROVE  DecodeFault(token, key) \in {"OK", "UNTRUSTED_KEY", "MALFORMED_ATTESTATION",
                                       "UNVERIFIED_SIGNATURE"}
<1> DEFINE checks == <<
        Check(token.header.alg \in ALGORITHMS[key.kty], "MALFORMED_ATTESTATION"),
        Check(token.signer = key, "UNVERIFIED_SIGNATURE"),
        Check(token.shape # "bad_payload", "MALFORMED_ATTESTATION")>>
<1>1. Len(checks) = 3 /\ DOMAIN checks = 1 .. Len(checks)
  OBVIOUS
<1>2. \A i \in DOMAIN checks :
          checks[i] \in {"OK", "MALFORMED_ATTESTATION", "UNVERIFIED_SIGNATURE"}
  BY DEF Check
<1>3. FirstFault(checks) \in {"OK", "MALFORMED_ATTESTATION", "UNVERIFIED_SIGNATURE"}
  <2> HIDE DEF checks
  <2> QED BY <1>1, <1>2, FirstFaultIs
<1> QED BY <1>3 DEF DecodeFault

\* So are the claims of an attestation, but for the audience another expects.
LEMMA BindingsElsewhere ==
    ASSUME NEW trust, NEW other, NEW payload, NEW g,
           NEW before \in Int, NEW now \in Int, before <= now,
           IsDate(payload.exp), IsDate(payload.nbf), IsDate(payload.iat),
           BindingsFault(trust, payload, g, before) = "OK"
    PROVE  \/ BindingsFault(other, payload, g, now) = "OK"
           \/ /\ BindingsFault(other, payload, g, now) = "EXPIRED_ATTESTATION"
              /\ payload.exp \in Int /\ payload.exp <= now
           \/ /\ BindingsFault(other, payload, g, now) = "AUDIENCE_MISMATCH"
              /\ other.expected_audience # trust.expected_audience
<1> DEFINE checks(bundle, time) == <<
        Check(payload.sub = g.model_identity, "SPIFFE_ID_MISMATCH"),
        Check(payload.gco_hash = canonical_gco_hash(g), "GCO_DIGEST_MISMATCH"),
        Check(AudienceMatches(bundle, payload.aud), "AUDIENCE_MISMATCH"),
        Check(IsNumericDate(payload.exp), "MALFORMED_ATTESTATION"),
        Check(IsNumericDate(payload.exp) => payload.exp > time,
              "EXPIRED_ATTESTATION"),
        Check(payload.nbf # BAD, "MALFORMED_ATTESTATION"),
        Check(IsNumericDate(payload.nbf) => payload.nbf <= time,
              "MALFORMED_ATTESTATION"),
        Check(payload.iat # BAD, "MALFORMED_ATTESTATION"),
        Check(IsNumericDate(payload.iat) => payload.iat <= time,
              "MALFORMED_ATTESTATION")>>
<1>1. PICK first, later : first = checks(trust, before) /\ later = checks(other, now)
  <2> HIDE DEF checks
  <2> QED OBVIOUS
<1>2. /\ FirstFault(first) = "OK"
      /\ BindingsFault(other, payload, g, now) = FirstFault(later)
  BY <1>1 DEF BindingsFault
<1>3. /\ Len(first) = 9 /\ DOMAIN first = 1 .. 9
      /\ Len(later) = 9 /\ DOMAIN later = 1 .. 9
  BY <1>1
<1>4. /\ first[3] = Check(AudienceMatches(trust, payload.aud), "AUDIENCE_MISMATCH")
      /\ first[4] = Check(IsNumericDate(payload.exp), "MALFORMED_ATTESTATION")
      /\ first[7] = Check(IsNumericDate(payload.nbf) => payload.nbf <= before,
                          "MALFORMED_ATTESTATION")
      /\ first[9] = Check(IsNumericDate(payload.iat) => payload.iat <= before,
                          "MALFORMED_ATTESTATION")
      /\ later[3] = Check(AudienceMatches(other, payload.aud), "AUDIENCE_MISMATCH")
      /\ later[5] = Check(IsNumericDate(payload.exp) => payload.exp > now,
                          "EXPIRED_ATTESTATION")
      /\ later[7] = Check(IsNumericDate(payload.nbf) => payload.nbf <= now,
                          "MALFORMED_ATTESTATION")
      /\ later[9] = Check(IsNumericDate(payload.iat) => payload.iat <= now,
                          "MALFORMED_ATTESTATION")
  BY <1>1
<1>5. \A i \in 1 .. 9 \ {3, 5, 7, 9} : later[i] = first[i]
  BY <1>1
<1>6. \A i \in 1 .. 9 : first[i] = "OK"
  BY <1>2, <1>3, FirstFaultOK
<1>7. /\ AudienceMatches(trust, payload.aud) /\ IsNumericDate(payload.exp)
      /\ IsNumericDate(payload.nbf) => payload.nbf <= before
      /\ IsNumericDate(payload.iat) => payload.iat <= before
  <2>1. first[3] = "OK" /\ first[4] = "OK" /\ first[7] = "OK" /\ first[9] = "OK"
    BY <1>6
  <2> QED BY <1>4, <2>1 DEF Check
<1>8. /\ IsNumericDate(payload.nbf) => payload.nbf <= now
      /\ IsNumericDate(payload.iat) => payload.iat <= now
  BY <1>7 DEF IsNumericDate, IsDate
<1>9. payload.exp \in Int
  BY <1>7 DEF IsNumericDate, IsDate
<1>10. \A i \in 1 .. 9 \ {3, 5} : later[i] = "OK"
  <2>1. later[7] = "OK" /\ later[9] = "OK"
    BY <1>4, <1>8 DEF Check
  <2> QED BY <1>5, <1>6, <2>1
<1>11. FirstFault(later) \in {"OK", later[3], later[5]}
  <2>1. \/ FirstFault(later) = "OK"
        \/ \E i \in 1 .. 9 : FirstFault(later) = later[i]
    <3>1. DOMAIN later = 1 .. Len(later) /\ Len(later) \in Nat /\ DOMAIN later = 1 .. 9
      BY <1>3
    <3> HIDE DEF checks
    <3> QED BY <3>1, FirstFaultIs
  <2> QED BY <1>10, <2>1
<1>12. \/ later[3] = "OK"
       \/ /\ later[3] = "AUDIENCE_MISMATCH"
          /\ other.expected_audience # trust.expected_audience
  BY <1>4, <1>7 DEF Check, AudienceMatches
<1>13. later[5] = "OK" \/ (later[5] = "EXPIRED_ATTESTATION" /\ payload.exp <= now)
  BY <1>4, <1>9 DEF Check
<1> QED BY <1>2, <1>9, <1>11, <1>12, <1>13

\* A certificate that was trusted is not when it has run out, or elsewhere.
LEMMA ChainElsewhere ==
    ASSUME NEW trust, NEW other, NEW x5c,
           NEW before \in Int, NEW now \in Int, before <= now,
           x5c \notin {NONE, BAD} =>
               x5c.not_before \in Int /\ x5c.not_after \in Int,
           ChainFault(trust, x5c, before) = "OK"
    PROVE  \/ ChainFault(other, x5c, now) = "OK"
           \/ /\ ChainFault(other, x5c, now) = "UNTRUSTED_KEY"
              /\ \/ other.domains # trust.domains
                 \/ x5c.not_after \in Int /\ x5c.not_after < now
<1>1. PICK domain : domain = TrustDomain(x5c.spiffe)
  OBVIOUS
<1>2. PICK bundle, bundle2 : /\ bundle = DomainBundle(trust, domain)
                            /\ bundle2 = DomainBundle(other, domain)
  OBVIOUS
<1>3. /\ x5c \notin {NONE, BAD} /\ x5c.spiffe # NONE /\ x5c.issuer # BAD
      /\ bundle # NONE /\ bundle.ca_store # NONE
      /\ x5c.issuer \in bundle.ca_store
      /\ before \in x5c.not_before .. x5c.not_after
  BY <1>1, <1>2 DEF ChainFault, Check
<1>4. x5c.not_before \in Int /\ x5c.not_after \in Int
  BY <1>3
<1>5. ChainFault(other, x5c, now) =
          IF bundle2 = NONE \/ bundle2.ca_store = NONE THEN "UNTRUSTED_KEY"
          ELSE Check(x5c.issuer \in bundle2.ca_store /\ now \in x5c.not_before .. x5c.not_after,
                     "UNTRUSTED_KEY")
  BY <1>1, <1>2, <1>3 DEF ChainFault
<1>6. now \in x5c.not_before .. x5c.not_after \/ x5c.not_after < now
  BY <1>3, <1>4
<1>7. other.domains # trust.domains \/ bundle2 = bundle
  BY <1>2 DEF DomainBundle
<1> QED BY <1>3, <1>4, <1>5, <1>6, <1>7 DEF Check

\* Why a host may refuse an attestation that another, or it itself, took before.
ElsewhereFault(trust, other, a, now, fault) ==
    \/ fault = "OK"
    \/ /\ fault = "EXPIRED_ATTESTATION"
       /\ a.value.payload.exp \in Int /\ a.value.payload.exp <= now
    \/ /\ fault = "AUDIENCE_MISMATCH"
       /\ other.expected_audience # trust.expected_audience
    \/ /\ fault \in {"UNTRUSTED_KEY", "UNVERIFIED_SIGNATURE", "MALFORMED_ATTESTATION"}
       /\ other.domains # trust.domains
    \/ /\ fault = "UNTRUSTED_KEY" /\ a.format = "X509_SVID"
       /\ a.value.header.x5c.not_after \in Int
       /\ a.value.header.x5c.not_after < now

(***************************************************************************)
(* An attestation that passed verification is refused later, by the same   *)
(* host or by another, only because it, or the certificate it was signed   *)
(* with, has run out, or because the other expects another audience or     *)
(* trusts other domains.                                                   *)
(***************************************************************************)
LEMMA VerifyElsewhere ==
    ASSUME NEW trust, NEW other, NEW a, NEW g,
           NEW before \in Int, NEW now \in Int, before <= now,
           IsAttestation(a), VerifyFault(trust, a, g, before) = "OK"
    PROVE  ElsewhereFault(trust, other, a, now, VerifyFault(other, a, g, now))
<1>1. PICK token : token = a.value
  OBVIOUS
<1>2. a # NONE /\ token # NONE /\ a.format \in {"JWT_SVID", "X509_SVID"}
  BY <1>1 DEF VerifyFault
<1>3. IsDate(token.payload.exp)
  BY <1>1, <1>2 DEF IsAttestation
<1>4. CASE a.format = "JWT_SVID"
  <2>1. \A bundle, time : VerifyFault(bundle, a, g, time) = JwtFault(bundle, token, g, time)
    BY <1>1, <1>2, <1>4 DEF VerifyFault
  <2>2. PICK bundle, bundle2 :
            /\ bundle = DomainBundle(trust, TrustDomain(token.payload.sub))
            /\ bundle2 = DomainBundle(other, TrustDomain(token.payload.sub))
    OBVIOUS
  <2>3. PICK key, key2 : /\ key = TrustedKey(bundle, token.header.kid)
                        /\ key2 = TrustedKey(bundle2, token.header.kid)
    OBVIOUS
  <2>4. JwtFault(trust, token, g, before) = "OK"
    BY <2>1
  <2>5. /\ token.shape = "ok" /\ bundle # NONE /\ token.header.kid # NONE /\ key # NONE
        /\ FirstFault(<<DecodeFault(token, key),
                        BindingsFault(trust, token.payload, g, before)>>) = "OK"
    BY <2>2, <2>3, <2>4 DEF JwtFault
  <2>6. /\ DecodeFault(token, key) = "OK"
        /\ BindingsFault(trust, token.payload, g, before) = "OK"
    BY <2>5, PairPasses
  <2>7. PICK decode, bindings : /\ decode = DecodeFault(token, key2)
                               /\ bindings = BindingsFault(other, token.payload, g, now)
    OBVIOUS
  <2>8. JwtFault(other, token, g, now) =
            IF bundle2 = NONE \/ key2 = NONE THEN "UNTRUSTED_KEY"
            ELSE FirstFault(<<decode, bindings>>)
    BY <2>2, <2>3, <2>5, <2>7 DEF JwtFault
  <2>9. \/ bindings = "OK"
        \/ bindings = "EXPIRED_ATTESTATION" /\ token.payload.exp \in Int /\ token.payload.exp <= now
        \/ bindings = "AUDIENCE_MISMATCH" /\ other.expected_audience # trust.expected_audience
    <3>1. IsDate(token.payload.nbf) /\ IsDate(token.payload.iat)
      BY <1>1, <1>2, <2>5 DEF IsAttestation
    <3> QED BY <1>3, <2>6, <2>7, <3>1, BindingsElsewhere
  <2>10. decode \in {"OK", "UNTRUSTED_KEY", "MALFORMED_ATTESTATION", "UNVERIFIED_SIGNATURE"}
    BY <2>7, DecodeFaults
  <2>11. JwtFault(other, token, g, now) \in {"UNTRUSTED_KEY", decode, bindings}
    <3>1. FirstFault(<<decode, bindings>>) \in {decode, bindings}
      BY FirstOfTwo
    <3> QED BY <2>8, <3>1
  <2>12. CASE other.domains = trust.domains
    <3>1. bundle2 = bundle /\ key2 = key
      BY <2>2, <2>3, <2>12 DEF DomainBundle
    <3>2. decode = "OK" /\ bundle2 # NONE /\ key2 # NONE
      BY <2>5, <2>6, <2>7, <3>1
    <3>3. JwtFault(other, token, g, now) = bindings
      BY <2>8, <3>2, FirstOfTwo
    <3> QED BY <1>1, <2>1, <2>9, <3>3 DEF ElsewhereFault
  <2>13. CASE other.domains # trust.domains
    BY <1>1, <2>1, <2>9, <2>10, <2>11, <2>13 DEF ElsewhereFault
  <2> QED BY <2>12, <2>13
<1>5. CASE a.format = "X509_SVID"
  <2>1. \A bundle, time : VerifyFault(bundle, a, g, time) = X509Fault(bundle, token, g, time)
    BY <1>1, <1>2, <1>5 DEF VerifyFault
  <2>2. PICK x5c : x5c = token.header.x5c
    OBVIOUS
  <2>3. X509Fault(trust, token, g, before) = "OK"
    BY <2>1
  <2>4. /\ token.shape # "bad_header" /\ ChainFault(trust, x5c, before) = "OK"
        /\ x5c.spiffe = g.model_identity /\ x5c.key.kty \in DOMAIN ALGORITHMS
        /\ DecodeFault(token, x5c.key) = "OK"
        /\ BindingsFault(trust, token.payload, g, before) = "OK"
    BY <2>2, <2>3 DEF X509Fault
  <2>5. /\ IsDate(token.payload.nbf) /\ IsDate(token.payload.iat)
        /\ x5c \notin {NONE, BAD} => x5c.not_before \in Int /\ x5c.not_after \in Int
    BY <1>1, <1>2, <2>2, <2>4 DEF IsAttestation
  <2>6. PICK chain, bindings : /\ chain = ChainFault(other, x5c, now)
                              /\ bindings = BindingsFault(other, token.payload, g, now)
    OBVIOUS
  <2>7. VerifyFault(other, a, g, now) = IF chain # "OK" THEN chain ELSE bindings
    <3>1. X509Fault(other, token, g, now) = IF chain # "OK" THEN chain ELSE bindings
      BY <2>2, <2>4, <2>6 DEF X509Fault
    <3> QED BY <2>1, <3>1
  <2>8. \/ chain = "OK"
        \/ /\ chain = "UNTRUSTED_KEY"
           /\ \/ other.domains # trust.domains
              \/ x5c.not_after \in Int /\ x5c.not_after < now
    BY <2>4, <2>5, <2>6, ChainElsewhere
  <2>9. \/ bindings = "OK"
        \/ bindings = "EXPIRED_ATTESTATION" /\ token.payload.exp \in Int /\ token.payload.exp <= now
        \/ bindings = "AUDIENCE_MISMATCH" /\ other.expected_audience # trust.expected_audience
    BY <1>3, <2>4, <2>5, <2>6, BindingsElsewhere
  <2> QED BY <1>1, <1>5, <2>2, <2>7, <2>8, <2>9 DEF ElsewhereFault
<1> QED BY <1>2, <1>4, <1>5
=============================================================================
