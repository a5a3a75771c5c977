----------------------------- MODULE Authority -----------------------------
(***************************************************************************)
(* The Governance Context Object (GCO) and the pure rules over it:         *)
(*                                                                         *)
(*   gco/models.py      the data a GCO carries,                            *)
(*   gco/validator.py   GCOValidator.validate and validate_root,           *)
(*   gco/derivation.py  GCODerivationRuntime.derive up to its validation,  *)
(*   gco/runtime.py     the tool and state decisions taken on a GCO whose  *)
(*                      attestation has been verified.                     *)
(*                                                                         *)
(* Every rule returns "OK" or the name of the error the code raises.  The  *)
(* validator raises the error of the FIRST check that fails, so a list of  *)
(* checks is a sequence of faults and FirstFault takes the verdict.        *)
(***************************************************************************)
EXTENDS Integers, SequencesExt

CONSTANTS
    Uris,         \* tool URIs
    Namespaces,   \* state namespaces
    Operations,   \* the tokens a scope string can hold
    MaxLineage,   \* the lineage bound; 128 in the code
    NONE,         \* Python's None, and the empty attestation value
    PLACEHOLDER,  \* the attestation value derive() validates with
    MALFORMED,    \* an input that is not a GCO (pydantic refuses it)
    BADFORMAT     \* an input whose attestation.format is not in the enum

ASSUME MaxLineageAssumption == MaxLineage \in Nat
Modes == {"none", "read", "append", "write"}
Taints == {"clean", "sanitized", "tainted", "isolated"}

(***************************************************************************)
(* A scope is a string.  The code looks at it in two ways: its tokens,     *)
(* separated by spaces and commas, and whether strip() leaves anything.    *)
(* The two differ: "," has no token and is not blank.                      *)
(***************************************************************************)
Scope == {s \in [tokens : SUBSET Operations, blank : BOOLEAN] :
             s.blank => s.tokens = {}}

ToolAuthority == [tool_uri : Uris, scope : Scope, max_depth : Nat]
StatePermission ==
    [namespace : Namespaces, access_mode : Modes, taint_policy : Taints]

\* The sentinels stand for no value of the types they are used beside.
ASSUME SentinelAssumption ==
    /\ NONE \notin Scope \cup ToolAuthority \cup StatePermission \cup Taints
    /\ NONE # PLACEHOLDER /\ MALFORMED # BADFORMAT

IsList(s) == s \in Seq({s[i] : i \in DOMAIN s})

\* What pydantic guarantees of a GCO instance, as far as the rules below use it.
IsGCO(g) ==
    /\ g.tool_authority \in Seq(ToolAuthority)
    /\ g.state_access_permissions \in Seq(StatePermission)
    /\ g.expires_at \in Int
    /\ IsList(g.lineage)

\* DelegationRequest, as far as pydantic types it.
IsRequest(r) ==
    /\ r.tool_authority \in Seq(ToolAuthority)
    /\ r.state_access_permissions \in Seq(StatePermission)
    /\ r.requested_expiry \in Int

(***************************************************************************)
(* The hash covers every field but the attestation and is taken to be      *)
(* injective: a digest IS the body it was computed from.                   *)
(***************************************************************************)
canonical_gco_hash(g) == [f \in DOMAIN g \ {"attestation"} |-> g[f]]

TAINT_RANK == [clean |-> 0, sanitized |-> 1, tainted |-> 2, isolated |-> 3]

ACCESS_ALLOWANCES ==
    [none   |-> {"none"},
     read   |-> {"none", "read"},
     append |-> {"none", "append"},
     write  |-> Modes]

AccessAllows(granted, requested) == requested \in ACCESS_ALLOWANCES[granted]

ScopeIsSubset(child, parent) == child.tokens \subseteq parent.tokens

(***************************************************************************)
(* First error of a list of checks, "OK" when none fails.                  *)
(***************************************************************************)
FirstFault(checks) ==
    LET i == SelectInSeq(checks, LAMBDA c : c # "OK")
    IN  IF i = 0 THEN "OK" ELSE checks[i]

Check(holds, error) == IF holds THEN "OK" ELSE error

\* {x.key : x for x in list}.get(k): the last entry with the key, or NONE.
DictGet(list, field, k) ==
    LET i == SelectLastInSeq(list, LAMBDA x : x[field] = k)
    IN  IF i = 0 THEN NONE ELSE list[i]

\* next(x for x in list if x.key == k): the first entry, or NONE.
FirstMatch(list, field, k) ==
    LET i == SelectInSeq(list, LAMBDA x : x[field] = k)
    IN  IF i = 0 THEN NONE ELSE list[i]

NoDuplicates(list, field) ==
    \A i, j \in DOMAIN list : list[i][field] = list[j][field] => i = j

-----------------------------------------------------------------------------
(* GCOValidator *)

NamespacesFault(perms) ==
    Check(NoDuplicates(perms, "namespace"), "STATE_PERMISSION_EXPANDED")

ToolUrisFault(tools) ==
    Check(NoDuplicates(tools, "tool_uri"), "TOOL_AUTHORITY_EXPANDED")

VersionFault(parent, child) ==
    Check(child.gco_version.major = parent.gco_version.major, "VERSION_MISMATCH")

ImmutablesFault(parent, child) ==
    FirstFault(<<
        Check(child.trace_id = parent.trace_id, "TRACE_ID_CHANGED"),
        Check(child.policy_id = parent.policy_id, "POLICY_ID_CHANGED"),
        Check(child.model_identity = parent.model_identity,
              "MODEL_IDENTITY_CHANGED"),
        Check(child.intervention_version = parent.intervention_version,
              "INTERVENTION_CHANGED")>>)

LinkageFault(parent, child) ==
    Check(child.parent_span_id = parent.span_id, "PARENT_LINKAGE_INVALID")

\* Mutant: only the length and the last digest of the lineage are compared.
LineageFaultNoPrefix(parent, child) ==
    IF Len(child.lineage) > MaxLineage THEN "LINEAGE_FLOODED"
    ELSE IF Len(child.lineage) # Len(parent.lineage) + 1
         THEN "LINEAGE_APPEND_FAILED"
         ELSE Check(Last(child.lineage) = canonical_gco_hash(parent),
                    "CANONICAL_HASH_MISMATCH")

LineageFault(parent, child) ==
    IF Len(child.lineage) > MaxLineage THEN "LINEAGE_FLOODED"
    ELSE IF \/ Len(child.lineage) # Len(parent.lineage) + 1
            \/ Front(child.lineage) # parent.lineage
         THEN "LINEAGE_APPEND_FAILED"
         ELSE Check(Last(child.lineage) = canonical_gco_hash(parent),
                    "CANONICAL_HASH_MISMATCH")

\* Mutant: a child may keep its parent's depth.
ToolFaultKeepsDepth(parentTool, tool) ==
    IF parentTool = NONE THEN "TOOL_AUTHORITY_EXPANDED"
    ELSE FirstFault(<<
        Check(tool.max_depth <= parentTool.max_depth, "MAX_DEPTH_INCREASED"),
        Check(ScopeIsSubset(tool.scope, parentTool.scope),
              "TOOL_AUTHORITY_EXPANDED")>>)

ToolFault(parentTool, tool) ==
    IF parentTool = NONE THEN "TOOL_AUTHORITY_EXPANDED"
    ELSE FirstFault(<<
        Check(/\ parentTool.max_depth # 0
              /\ tool.max_depth <= parentTool.max_depth - 1,
              "MAX_DEPTH_INCREASED"),
        Check(ScopeIsSubset(tool.scope, parentTool.scope),
              "TOOL_AUTHORITY_EXPANDED")>>)

ToolAuthorityFault(parent, child) ==
    FirstFault([i \in DOMAIN child.tool_authority |->
        LET tool == child.tool_authority[i]
        IN  ToolFault(DictGet(parent.tool_authority, "tool_uri", tool.tool_uri),
                      tool)])

\* Mutant: comparing the modes by a rank makes append include read.
PermissionFaultByRank(parentPerm, perm) ==
    LET rank == [none |-> 0, read |-> 1, append |-> 2, write |-> 3]
    IN  IF parentPerm = NONE THEN "STATE_PERMISSION_EXPANDED"
        ELSE FirstFault(<<
            Check(rank[perm.access_mode] <= rank[parentPerm.access_mode],
                  "STATE_PERMISSION_EXPANDED"),
            Check(TAINT_RANK[perm.taint_policy]
                    >= TAINT_RANK[parentPerm.taint_policy], "TAINT_DOWNGRADED")>>)

\* Mutant: the taint comparison is the wrong way round.
PermissionFaultTaintSwapped(parentPerm, perm) ==
    IF parentPerm = NONE THEN "STATE_PERMISSION_EXPANDED"
    ELSE FirstFault(<<
        Check(AccessAllows(parentPerm.access_mode, perm.access_mode),
              "STATE_PERMISSION_EXPANDED"),
        Check(TAINT_RANK[perm.taint_policy] <= TAINT_RANK[parentPerm.taint_policy],
              "TAINT_DOWNGRADED")>>)

PermissionFault(parentPerm, perm) ==
    IF parentPerm = NONE THEN "STATE_PERMISSION_EXPANDED"
    ELSE FirstFault(<<
        Check(AccessAllows(parentPerm.access_mode, perm.access_mode),
              "STATE_PERMISSION_EXPANDED"),
        Check(TAINT_RANK[perm.taint_policy] >= TAINT_RANK[parentPerm.taint_policy],
              "TAINT_DOWNGRADED")>>)

StatePermissionsFault(parent, child) ==
    FirstFault([i \in DOMAIN child.state_access_permissions |->
        LET perm == child.state_access_permissions[i]
        IN  PermissionFault(
                DictGet(parent.state_access_permissions, "namespace",
                        perm.namespace),
                perm)])

ExpiryFault(parent, child, now) ==
    FirstFault(<<Check(child.expires_at <= parent.expires_at, "EXPIRY_EXTENDED"),
                 Check(child.expires_at > now, "EXPIRED")>>)

HasAttestation(g) == g.attestation # NONE /\ g.attestation.value # NONE

AttestationFault(child) == Check(HasAttestation(child), "ATTESTATION_MISSING")

\* _coerce_gco: a mapping that is not a GCO, or whose attestation has an
\* unknown format; GCO instances pass.
CoerceFault(input) ==
    CASE input = MALFORMED -> "GCO_MALFORMED"
      [] input = BADFORMAT -> "ATTESTATION_FORMAT_INVALID"
      [] OTHER             -> "OK"

\* GCOValidator.validate, as the error validate_result reports.
ValidateFault(parent, child, now) ==
    LET coerced == FirstFault(<<CoerceFault(parent), CoerceFault(child)>>)
    IN  IF coerced # "OK" THEN coerced
        ELSE FirstFault(<<
            NamespacesFault(parent.state_access_permissions),
            NamespacesFault(child.state_access_permissions),
            ToolUrisFault(parent.tool_authority),
            ToolUrisFault(child.tool_authority),
            VersionFault(parent, child),
            ImmutablesFault(parent, child),
            LinkageFault(parent, child),
            LineageFault(parent, child),
            ToolAuthorityFault(parent, child),
            StatePermissionsFault(parent, child),
            ExpiryFault(parent, child, now),
            AttestationFault(child)>>)

\* GCOValidator.validate_root.
ValidateRootFault(root, now) ==
    IF CoerceFault(root) # "OK" THEN CoerceFault(root)
    ELSE FirstFault(<<
        Check(root.parent_span_id = NONE, "PARENT_LINKAGE_INVALID"),
        Check(root.lineage = <<>>, "LINEAGE_APPEND_FAILED"),
        NamespacesFault(root.state_access_permissions),
        ToolUrisFault(root.tool_authority),
        ExpiryFault(root, root, now),
        AttestationFault(root)>>)

-----------------------------------------------------------------------------
(* GCODerivationRuntime.derive *)

\* One requested tool against the parent's: note the order (depth, then
\* scope) and that the depth is capped, not refused.
DeriveToolFault(parentTool, requested) ==
    IF parentTool = NONE THEN "TOOL_AUTHORITY_EXPANDED"
    ELSE FirstFault(<<
        Check(parentTool.max_depth - 1 >= 0, "MAX_DEPTH_INCREASED"),
        Check(ScopeIsSubset(requested.scope, parentTool.scope),
              "TOOL_AUTHORITY_EXPANDED")>>)

DeriveToolsFault(parent, request) ==
    FirstFault([i \in DOMAIN request.tool_authority |->
        LET tool == request.tool_authority[i]
        IN  DeriveToolFault(
                DictGet(parent.tool_authority, "tool_uri", tool.tool_uri), tool)])

\* Mutant: the requested depth is granted as asked.
DerivedToolsUncapped(parent, request) == request.tool_authority

\* Mutant: a hop is charged twice, below zero.
DerivedToolsTwice(parent, request) ==
    [i \in DOMAIN request.tool_authority |->
        LET tool       == request.tool_authority[i]
            parentTool == DictGet(parent.tool_authority, "tool_uri", tool.tool_uri)
        IN  [parentTool EXCEPT !.scope = tool.scope, !.max_depth = @ - 2]]

DerivedTools(parent, request) ==
    [i \in DOMAIN request.tool_authority |->
        LET tool       == request.tool_authority[i]
            parentTool == DictGet(parent.tool_authority, "tool_uri", tool.tool_uri)
            remaining  == parentTool.max_depth - 1
        IN  [tool_uri  |-> parentTool.tool_uri,
             scope     |-> tool.scope,
             max_depth |-> IF tool.max_depth <= remaining
                           THEN tool.max_depth ELSE remaining]]

DerivePermissionsFault(parent, request) ==
    FirstFault([i \in DOMAIN request.state_access_permissions |->
        LET perm == request.state_access_permissions[i]
        IN  PermissionFault(
                DictGet(parent.state_access_permissions, "namespace",
                        perm.namespace),
                perm)])

\* Everything derive() refuses before it builds the child.
DeriveFault(parent, request) ==
    IF Len(parent.lineage) + 1 > MaxLineage THEN "LINEAGE_FLOODED"
    ELSE FirstFault(<<
        NamespacesFault(parent.state_access_permissions),
        NamespacesFault(request.state_access_permissions),
        ToolUrisFault(parent.tool_authority),
        ToolUrisFault(request.tool_authority),
        DeriveToolsFault(parent, request),
        DerivePermissionsFault(parent, request)>>)

DerivedExpiry(parent, request) ==
    IF request.requested_expiry <= parent.expires_at
    THEN request.requested_expiry ELSE parent.expires_at

\* child_without_attestation; span is the fresh uuid4().
DerivedChild(parent, request, span) ==
    [gco_version          |-> parent.gco_version,
     trace_id             |-> parent.trace_id,
     policy_id            |-> parent.policy_id,
     model_identity       |-> parent.model_identity,
     intervention_version |-> parent.intervention_version,
     span_id              |-> span,
     parent_span_id       |-> parent.span_id,
     tool_authority       |-> DerivedTools(parent, request),
     state_access_permissions |-> request.state_access_permissions,
     expires_at           |-> DerivedExpiry(parent, request),
     lineage              |-> Append(parent.lineage, canonical_gco_hash(parent)),
     attestation          |-> NONE]

WithAttestation(g, attestation) == [g EXCEPT !.attestation = attestation]

\* child_for_validation: a non-empty attestation that is never issued.
ForValidation(child) ==
    WithAttestation(child, [format |-> "JWT_SVID", value |-> PLACEHOLDER])

-----------------------------------------------------------------------------
(* GovernanceRuntime: decisions on a verified, unexpired subject *)

\* The entries authorize_tool_call's loop does not skip.
Usable(tool, uri) ==
    tool.tool_uri = uri /\ tool.max_depth > 0 /\ ~tool.scope.blank

\* requested is a scope, or NONE when the caller names no operation.  The
\* first usable entry decides.
ToolCallFault(g, uri, requested) ==
    LET i == SelectInSeq(g.tool_authority, LAMBDA tool : Usable(tool, uri))
    IN  Check(/\ i # 0
              /\ \/ requested = NONE
                 \/ ScopeIsSubset(requested, g.tool_authority[i].scope),
              "TOOL_AUTHORITY_EXPANDED")

\* _authorize_verified_state_access; a mode outside Modes is a string that is
\* no AccessMode.
StateAccessFault(g, namespace, mode) ==
    LET perm == FirstMatch(g.state_access_permissions, "namespace", namespace)
    IN  IF perm = NONE \/ mode \notin Modes \ {"none"} THEN "NamespaceAccessDenied"
        ELSE Check(AccessAllows(perm.access_mode, mode), "NamespaceAccessDenied")

-----------------------------------------------------------------------------
(* GovernedStateStore: the decision of read() on a key that is present *)

\* Quarantine (nothing above sanitized is ever returned), then alignment with
\* the taint of the reader's own grant.
TaintedReadFault(stored, policy) ==
    FirstFault(<<
        Check(TAINT_RANK[stored] <= TAINT_RANK["sanitized"], "TaintedStateRead"),
        Check(TAINT_RANK[stored] <= TAINT_RANK[policy], "TaintedStateRead")>>)

\* Mutant: the quarantine alone, without the reader's own taint.
StoreReadFaultUnaligned(g, namespace, stored) ==
    LET perm == FirstMatch(g.state_access_permissions, "namespace", namespace)
    IN  IF perm = NONE \/ perm.access_mode \notin {"read", "write"}
        THEN "NamespaceAccessDenied"
        ELSE TaintedReadFault(stored, "isolated")

StoreReadFault(g, namespace, stored) ==
    LET perm == FirstMatch(g.state_access_permissions, "namespace", namespace)
    IN  IF perm = NONE \/ perm.access_mode \notin {"read", "write"}
        THEN "NamespaceAccessDenied"
        ELSE TaintedReadFault(stored, perm.taint_policy)
=============================================================================
