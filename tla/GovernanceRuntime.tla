-------------------------- MODULE GovernanceRuntime --------------------------
(***************************************************************************)
(* GovernanceRuntime (gco/runtime.py): the host-facing methods as programs *)
(* of stages, composing AttestationVerifier and its replay cache,          *)
(* GCOValidator, GCODerivationRuntime and the attestation authority.       *)
(* Several threads of a host call one runtime.  A stage reads the clock at *)
(* most once; other threads, and time, move between stages.  read_state    *)
(* and write_state run the stages of authorize_state_access and then the   *)
(* store, which is StateStore's subject.                                   *)
(*                                                                         *)
(* Each host has a trust bundle and an audience of its own.  Only the root *)
(* signer and the runtimes' attestation authorities hold keys that one of  *)
(* them trusts: what hosts present is a root, a child a derivation         *)
(* returned, or a forgery made of them with other keys.                    *)
(***************************************************************************)
EXTENDS Attestation

CONSTANTS
    Threads,
    Hosts,           \* each has a runtime, with a verifier of its own
    Trust,           \* per host: what its verifier trusts
    Protected,       \* the hosts whose verifier has a replay cache
    Roots,           \* attested root GCOs
    Forgeries(_),    \* what can be made of a set of GCOs
    Asks,            \* <<"tool", uri, scope>> and <<"state", namespace, mode>>
    Requests,        \* delegation requests; MALFORMED is none
    SpanIds,         \* what uuid4() can return
    Issue(_, _),     \* attestations issue() can return for a body (external)
    MaxEntries,      \* max_entries of the caches
    MaxClock,        \* bound: the last instant
    MaxCalls         \* bound: calls begun

ASSUME RuntimeBounds ==
    /\ Protected \subseteq Hosts /\ MaxEntries \in Nat \ {0}
    /\ MaxClock \in Nat /\ MaxCalls \in Nat

ASSUME TrustAssumption == \A h \in Hosts : IsTrust(Trust[h])

\* A GCO and its attestation, as far as pydantic types them.
IsAttested(g) ==
    /\ IsGCO(g) /\ IsAttestation(g.attestation)
    /\ {"tool_authority", "state_access_permissions", "expires_at",
        "attestation"} \subseteq DOMAIN g

Claims(g) == g.attestation.value.payload

\* The root signer attests what it signs.
ASSUME RootsAssumption ==
    \A r \in Roots : IsAttested(r) /\ Claims(r).gco_hash = canonical_gco_hash(r)
ASSUME RequestsAssumption == \A r \in Requests \ {MALFORMED} : IsRequest(r)

VARIABLES
    clock,      \* what now() returns
    entries,    \* per host: the replay cache
    call,       \* per thread: the call in progress or last denied
    decisions,  \* history: the allowed decisions
    issued,     \* history: every GCO the authority attested
    presented,  \* history: the derived children hosts have passed to a call
    begun       \* calls begun so far

vars == <<clock, entries, call, decisions, issued, presented, begun>>
history == <<decisions, issued, presented, begun>>

Idle == [host |-> NONE, op |-> NONE, ask |-> NONE, request |-> NONE,
         meta |-> NONE, gcos |-> <<>>, todo |-> <<>>, now |-> 0, began |-> 0,
         child |-> NONE, fresh |-> {}, fault |-> NONE]

\* verify() of the i-th GCO: coerce it and sample the clock, then check it.
Verify(i) == <<<<"sample", i>>, <<"check", i>>>>

SubcallProgram ==
    <<<<"sample", 1>>, <<"check", 1>>, <<"sample", 2>>, <<"check", 2>>,
      <<"validate", 2>>>>

\* Mutant: authorize_tool_call and authorize_state_access do not look at
\* expires_at.
AuthorizeProgramNoExpiry(i) == Verify(i) \o <<<<"decide", i>>>>

\* Mutant: they coerce the GCO and do not check its attestation.
AuthorizeProgramTrusts(i) ==
    <<<<"sample", i>>, <<"expiry", i>>, <<"decide", i>>>>

\* authorize_tool_call and authorize_state_access of the i-th GCO.
AuthorizeProgram(i) ==
    <<<<"sample", i>>, <<"check", i>>, <<"expiry", i>>, <<"decide", i>>>>

\* Mutant: derive_for_subcall coerces the parent and does not check its
\* attestation.
DeriveProgramTrustsParent(issue) ==
    <<<<"sample", 1>>, <<"request", 1>>, <<issue, 1>>, <<"validate", 2>>>>
      \o Verify(2) \o <<<<"validate", 2>>>>

\* derive() is the stages from request to the first validate; issue names the
\* authority's.
DeriveProgram(issue) ==
    <<<<"sample", 1>>, <<"check", 1>>, <<"request", 1>>, <<issue, 1>>,
      <<"validate", 2>>, <<"sample", 2>>, <<"check", 2>>, <<"validate", 2>>>>

Init ==
    /\ clock = 0 /\ entries = [h \in Hosts |-> <<>>]
    /\ call = [t \in Threads |-> Idle]
    /\ decisions = <<>> /\ issued = {} /\ presented = {}
    /\ begun = 0

\* The children of the decisions that hosts were given.
Returned == {decisions[i].child : i \in DOMAIN decisions} \ {NONE}
Pool == Roots \cup Returned

\* Whether an attestation has the signature of a key that a host trusts, or of
\* the key of a certificate of a CA that one does.
Signed(a) ==
    /\ a # NONE /\ a.value # NONE
    /\ \E h \in Hosts : \E domain \in DOMAIN Trust[h].domains :
           LET bundle == Trust[h].domains[domain]
               x5c    == a.value.header.x5c
           IN  \/ \E entry \in Range(bundle.jwks) : entry.key = a.value.signer
               \/ /\ a.format = "X509_SVID" /\ x5c \notin {NONE, BAD}
                  /\ bundle.ca_store # NONE /\ x5c.issuer \in bundle.ca_store
                  /\ x5c.key = a.value.signer

\* What can be made without such a key: attestations are taken over, or have
\* other signatures.
Forged ==
    {f \in Forgeries(Pool) :
        /\ IsAttested(f)
        /\ \/ \E g \in Pool : f.attestation = g.attestation
           \/ ~Signed(f.attestation)}

Offered == Pool \cup Forged \cup {MALFORMED}

Tick ==
    /\ clock < MaxClock /\ clock' = clock + 1
    /\ UNCHANGED <<entries, call, history>>

-----------------------------------------------------------------------------
At(t, stage) == call[t].todo # <<>> /\ Head(call[t].todo) = stage

\* A host passes GCOs to a call.
Fresh(gcos) == (Range(gcos) \cap Returned) \ presented
Present(gcos) == presented' = presented \cup (Range(gcos) \cap Returned)

CanBegin(t) == call[t].todo = <<>> /\ begun < MaxCalls

\* A call starts with the fields of c.
Begin(t, c) ==
    /\ CanBegin(t) /\ begun' = begun + 1
    /\ LET started == [Idle EXCEPT !.began = clock, !.fresh = Fresh(c.gcos)]
       IN  call' = [call EXCEPT ![t] = [f \in DOMAIN Idle |->
                        IF f \in DOMAIN c THEN c[f] ELSE started[f]]]
    /\ Present(c.gcos)
    /\ UNCHANGED <<clock, entries, decisions, issued>>

AuthorizeSubcall(t) ==
    \E host \in Hosts, parent, child \in Offered :
        Begin(t, [host |-> host, op |-> "authorize_subcall",
                  gcos |-> <<parent, child>>, todo |-> SubcallProgram])

\* authorize_tool_call and authorize_state_access
Authorize(t) ==
    \E host \in Hosts, g \in Offered, ask \in Asks :
        Begin(t, [host |-> host, op |-> "authorize", ask |-> ask,
                  gcos |-> <<g>>, todo |-> AuthorizeProgram(1)])

DeriveForSubcall(t) ==
    \E host \in Hosts, parent \in Offered, request \in Requests :
        Begin(t, [host |-> host, op |-> "derive_for_subcall",
                  request |-> request, gcos |-> <<parent>>,
                  todo |-> DeriveProgram("issue")])

\* A denial, about one of the GCOs of the call.
Deny(t, fault, of) ==
    /\ call' = [call EXCEPT ![t] =
                  [Idle EXCEPT !.fault = fault,
                               !.fresh = call[t].fresh \cap {of}]]
    /\ UNCHANGED history

\* The stage is passed; after the last one the decision is to allow.
Pass(t, now, gcos) ==
    /\ UNCHANGED <<issued, presented, begun>>
    /\ IF Len(call[t].todo) > 1
       THEN /\ call' = [call EXCEPT ![t].todo = Tail(@), ![t].now = now,
                                    ![t].gcos = gcos]
            /\ UNCHANGED decisions
       ELSE /\ call' = [call EXCEPT ![t] = Idle]
            /\ decisions' = Append(decisions,
                  [host |-> call[t].host, gcos |-> gcos,
                   child |-> call[t].child, began |-> call[t].began,
                   at |-> clock])

Outcome(t, fault, of) ==
    IF fault = "OK" THEN Pass(t, call[t].now, call[t].gcos)
    ELSE Deny(t, fault, of)

-----------------------------------------------------------------------------
Sample(t, i) ==
    LET g == call[t].gcos[i]
    IN  /\ At(t, <<"sample", i>>)
        /\ IF g = MALFORMED THEN Deny(t, "GCO_MALFORMED", g)
           ELSE Pass(t, clock, call[t].gcos)
        /\ UNCHANGED <<clock, entries>>

\* The checks of verify(), then _verify_replay when a cache is configured.
CheckAttestation(t, i) ==
    LET g     == call[t].gcos[i]
        host  == call[t].host
        fault == VerifyFault(Trust[host], g.attestation, g, call[t].now)
        live  == Evict(entries[host], call[t].now)
    IN  /\ At(t, <<"check", i>>)
        /\ UNCHANGED clock
        /\ IF fault # "OK" \/ host \notin Protected
           THEN Outcome(t, fault, g) /\ UNCHANGED entries
           ELSE IF Claims(g).jti = NONE
           THEN Deny(t, "JTI_MISSING", g) /\ UNCHANGED entries
           ELSE IF CanRecord(live, Claims(g).jti, MaxEntries)
           THEN /\ Outcome(t, "OK", g)
                /\ entries' = [entries EXCEPT ![host] =
                                  Recorded(live, Claims(g).jti, Claims(g).exp)]
           ELSE /\ Deny(t, "REPLAY_DETECTED", g)
                /\ entries' = [entries EXCEPT ![host] = live]

\* _verify_subject_not_expired
Expiry(t, i) ==
    LET g == call[t].gcos[i]
    IN  /\ At(t, <<"expiry", i>>)
        /\ Outcome(t, Check(g.expires_at > clock, "EXPIRED"), g)
        /\ UNCHANGED <<clock, entries>>

DecideFault(g, ask) ==
    IF ask[1] = "tool" THEN ToolCallFault(g, ask[2], ask[3])
    ELSE StateAccessFault(g, ask[2], ask[3])

Decide(t, i) ==
    LET g == call[t].gcos[i]
    IN  /\ At(t, <<"decide", i>>)
        /\ Outcome(t, DecideFault(g, call[t].ask), g)
        /\ UNCHANGED <<clock, entries>>

\* uuid4() returns no span that is in use.
FreshSpan ==
    LET inUse == Pool \cup issued
                   \cup UNION {Range(call[t].gcos) : t \in Threads}
    IN  {s \in SpanIds : \A g \in inUse \ {MALFORMED} : g.span_id # s}

\* derive() up to its first validation, which has a placeholder attestation.
Request(t) ==
    LET parent  == call[t].gcos[1]
        request == call[t].request
    IN  /\ At(t, <<"request", 1>>)
        /\ UNCHANGED <<clock, entries>>
        /\ IF request = MALFORMED THEN Deny(t, "GCO_MALFORMED", parent)
           ELSE IF DeriveFault(parent, request) # "OK"
           THEN Deny(t, DeriveFault(parent, request), parent)
           ELSE \E span \in FreshSpan :
                  LET child == DerivedChild(parent, request, span)
                      fault == ValidateFault(parent, ForValidation(child), clock)
                  IN  IF fault = "OK"
                      THEN Pass(t, call[t].now, <<parent, child>>)
                      ELSE Deny(t, fault, child)

\* The child of the call, as its authority attested it.
Attested(t, a) == WithAttestation(call[t].gcos[2], a)

Mint(t, a) ==
    /\ call' = [call EXCEPT ![t].todo = Tail(@), ![t].child = Attested(t, a),
                            ![t].gcos = <<call[t].gcos[1], Attested(t, a)>>]
    /\ UNCHANGED <<decisions, presented, begun>>

\* authority.issue(): it attests the body, with whatever key and claims it
\* has, or raises.
IssueAttestation(t) ==
    /\ At(t, <<"issue", 1>>)
    /\ UNCHANGED <<clock, entries>>
    /\ LET child == call[t].gcos[2]
       IN  \E a \in Issue(call[t].gcos[1].model_identity, child) :
               IF a = MALFORMED THEN Deny(t, "GCO_MALFORMED", child)
               ELSE /\ IsAttestation(a)
                    /\ Mint(t, a) /\ issued' = issued \cup {Attested(t, a)}

Validate(t) ==
    LET parent == call[t].gcos[1]
        child  == call[t].gcos[2]
    IN  /\ At(t, <<"validate", 2>>)
        /\ Outcome(t, ValidateFault(parent, child, clock), child)
        /\ UNCHANGED <<clock, entries>>

\* A call in progress passes one stage, or ends there.
Stage(t) ==
    \/ \E i \in 1 .. 2 : \/ Sample(t, i) \/ CheckAttestation(t, i)
                         \/ Expiry(t, i) \/ Decide(t, i)
    \/ Request(t) \/ IssueAttestation(t) \/ Validate(t)

Next ==
    \/ Tick
    \/ \E t \in Threads :
        \/ CanBegin(t) /\ (AuthorizeSubcall(t) \/ Authorize(t) \/ DeriveForSubcall(t))
        \/ Stage(t)

Spec == Init /\ [][Next]_vars

-----------------------------------------------------------------------------
(* Type invariant. *)
TypeOK ==
    /\ clock \in 0 .. MaxClock
    /\ begun \in 0 .. MaxCalls
    /\ DOMAIN call = Threads
    /\ \A t \in Threads : call[t].todo # <<>> =>
           /\ call[t].host \in Hosts
           /\ call[t].began \in 0 .. clock /\ call[t].now \in 0 .. clock
           \* The GCO the next stage works on is there.
           /\ Head(call[t].todo)[2] <= Len(call[t].gcos)
    /\ \A i \in DOMAIN decisions :
           /\ decisions[i].began <= decisions[i].at
           /\ MALFORMED \notin Range(decisions[i].gcos)
    /\ \A h \in Hosts : Cardinality(DOMAIN entries[h]) <= MaxEntries

\* Whatever operation or access g is allowed, r is.
Within(g, r) ==
    /\ \A uri \in Uris, scope \in {s \in Scope : s.tokens # {}} :
           ToolCallFault(g, uri, scope) = "OK"
               => ToolCallFault(r, uri, scope) = "OK"
    /\ \A namespace \in Namespaces, mode \in Modes :
           StateAccessFault(g, namespace, mode) = "OK"
               => StateAccessFault(r, namespace, mode) = "OK"

(***************************************************************************)
(* Every GCO of an allowed decision holds at most the authority of a root: *)
(* through forgeries, concurrent calls and any number of derivations,      *)
(* though each call looks one hop up and authorize looks at none.          *)
(***************************************************************************)
RootedAuthority ==
    \A i \in DOMAIN decisions :
        \A g \in Range(decisions[i].gcos) : \E r \in Roots : Within(g, r)

(***************************************************************************)
(* No allowed decision rests on a GCO or an attestation that had expired   *)
(* when the host called, the parent of a sub-call included, whose own      *)
(* expiry no method compares with the clock.                               *)
(***************************************************************************)
NothingExpiredAllowed ==
    \A i \in DOMAIN decisions :
        \A g \in Range(decisions[i].gcos) :
            decisions[i].began < g.expires_at /\ decisions[i].began < Claims(g).exp

(***************************************************************************)
(* At a host with a replay cache an attestation backs one allowed decision *)
(* while it is live, in whatever role and on whatever thread it comes back. *)
(***************************************************************************)
OneDecisionPerAttestation ==
    \A i, j \in DOMAIN decisions :
        i # j /\ decisions[i].host = decisions[j].host
              /\ decisions[i].host \in Protected =>
            \A g \in Range(decisions[i].gcos) \cap Range(decisions[j].gcos) :
                \/ Claims(g).exp <= decisions[i].at
                \/ Claims(g).exp <= decisions[j].at

(***************************************************************************)
(* The authority is only asked to attest children of a parent that was     *)
(* verified: its own attestation is trusted, and the child is within it.   *)
(***************************************************************************)
IssuedIsRooted ==
    \A g \in issued : \E r \in Roots :
        Within(g, r) /\ g.expires_at <= r.expires_at

-----------------------------------------------------------------------------
(* Statement of the documentation that the code does not keep *)

(***************************************************************************)
(* README: the quickstart derives a child, and authorize_subcall and       *)
(* authorize_tool_call are expected to allow it; a ReplayCache is part of  *)
(* the production posture and refuses "reuse of a seen jti".  A child      *)
(* derive_for_subcall returned is not refused as a replay when a host      *)
(* presents it for the first time.                                         *)
(***************************************************************************)
ReturnedChildIsNoReplay ==
    \A t \in Threads : call[t].fault = "REPLAY_DETECTED" => call[t].fresh = {}
=============================================================================
