----------------------------- MODULE Boundaries -----------------------------
(***************************************************************************)
(* What is built from the runtime's methods: the MCP boundaries            *)
(* (gco_mcp/client.py, server.py, wire.py) and the commands verify and     *)
(* derive of gco/cli.py.  They add programs to GovernanceRuntime, and what *)
(* they send each other.                                                   *)
(*                                                                         *)
(* A message is the _meta of a tools/call: whether the client capability   *)
(* is advertised, the GCO, its parent and a handle, NONE where absent.     *)
(* What was once sent can arrive never, late, repeatedly and altered.      *)
(***************************************************************************)
EXTENDS GovernanceRuntime

CONSTANTS
    Requiring,      \* the hosts whose server boundary has require=True
    BaseMetas,      \* _meta that applications start from, NONE is none; one
                    \* that carries GCOs was sent before
    Size(_),        \* of the dump of a GCO, in bytes
    MaxGcoBytes,    \* per host: the max_gco_bytes of its codec
    PemKeys,        \* keys given to gco derive --sign-key
    PemKid,         \* its --kid
    Second          \* instants in a second, the unit of PemSigningAuthority

VARIABLE wire       \* every _meta that was sent

bvars == <<vars, wire>>

EmptyMeta == [capable |-> FALSE, gco |-> NONE, parent |-> NONE, handle |-> NONE]

ASSUME BoundaryBounds ==
    /\ Requiring \subseteq Hosts /\ Second \in Nat \ {0}
    /\ MaxGcoBytes \in [Hosts -> Nat]
ASSUME BaseMetasAssumption ==
    \A m \in BaseMetas \ {NONE} :
        DOMAIN m = DOMAIN EmptyMeta /\ m.gco = NONE /\ m.parent = NONE

-----------------------------------------------------------------------------
(* gco_mcp/wire.py *)

\* Mutant: a parent in the base _meta stays there.
AttachedKeepsParent(base, child, parent) ==
    [(IF base = NONE THEN EmptyMeta ELSE base)
        EXCEPT !.gco = child, !.parent = IF parent = NONE THEN @ ELSE parent]

\* attach(): the rest of the base is kept, its handle included.
Attached(base, child, parent) ==
    [(IF base = NONE THEN EmptyMeta ELSE base)
        EXCEPT !.gco = child, !.parent = parent]

Oversize(host, g) == Size(g) > MaxGcoBytes[host]

\* Mutant: the size is looked at by the receiver only.
AttachFaultUnsized(host, child, parent) == "OK"

AttachFault(host, child, parent) ==
    FirstFault(<<Check(~Oversize(host, child), "OVERSIZE_GCO"),
                 Check(parent # NONE => ~Oversize(host, parent), "OVERSIZE_GCO")>>)

\* _load_gco: the size first, then what it parses to.
LoadFault(host, g) ==
    FirstFault(<<Check(~Oversize(host, g), "OVERSIZE_GCO"),
                 Check(g # MALFORMED, "MALFORMED_GCO")>>)

ExtractFault(host, meta) ==
    IF meta.gco = NONE THEN "MISSING_GCO"
    ELSE FirstFault(<<
        LoadFault(host, meta.gco),
        IF meta.parent = NONE THEN "OK" ELSE LoadFault(host, meta.parent),
        Check(meta.handle # MALFORMED, "MALFORMED_GCO")>>)

\* _client_advertised_gco
Advertised(meta) == meta # NONE /\ meta.capable

-----------------------------------------------------------------------------
(* The calls *)

ToolAsks == {ask \in Asks : ask[1] = "tool"}

Prepare(t, attach) ==
    \E host \in Hosts, parent \in Offered, ask \in ToolAsks,
       request \in Requests, base \in BaseMetas \cup wire :
        Begin(t, [host |-> host, op |-> "prepare", ask |-> ask,
                  request |-> request, meta |-> base, gcos |-> <<parent>>,
                  todo |-> AuthorizeProgram(1) \o DeriveProgram("issue")
                           \o <<<<attach, 1>>>>])

PrepareToolCall(t) == Prepare(t, "attach")

PrepareSubcall(t) ==
    \E attach \in {"attach", "attach_parent"} : Prepare(t, attach)

\* What may arrive: what was sent, also with the capability lost or a broken
\* handle, a _meta put together from what circulates, and one without a GCO.
Arriving ==
    wire \cup BaseMetas
      \cup {[m EXCEPT !.capable = FALSE] : m \in wire}
      \cup {[m EXCEPT !.handle = MALFORMED] : m \in wire}
      \cup {[EmptyMeta EXCEPT !.capable = TRUE, !.gco = both[1], !.parent = both[2]] :
               both \in (Offered \X (Pool \cup {NONE}))
                           \cup ({m.gco : m \in wire} \X Offered)}

AuthorizeIncoming(t) ==
    \E host \in Hosts, ask \in ToolAsks, meta \in Arriving :
        Begin(t, [host |-> host, op |-> "authorize_incoming", ask |-> ask,
                  meta |-> meta, gcos |-> <<>>, todo |-> <<<<"extract", 0>>>>])

\* gco derive, on a machine without a replay cache; it loads no malformed
\* request.
DeriveCommand(t, issue, program) ==
    \E host \in Hosts \ Protected, parent \in Offered,
       request \in Requests \ {MALFORMED} :
        Begin(t, [host |-> host, op |-> issue, request |-> request,
                  gcos |-> <<parent>>, todo |-> program])

DeriveSigned(t) == DeriveCommand(t, "sign_pem", DeriveProgram("sign_pem"))

DerivePreview(t) ==
    DeriveCommand(t, "preview",
        <<<<"sample", 1>>, <<"check", 1>>, <<"request", 1>>, <<"preview", 1>>,
          <<"validate", 2>>, <<"print", 1>>>>)

\* read_state and write_state, as far as the runtime; tools are asked for at
\* the server's boundary.
AuthorizeState(t) ==
    \E host \in Hosts, g \in Offered, ask \in Asks \ ToolAsks :
        Begin(t, [host |-> host, op |-> "authorize", ask |-> ask,
                  gcos |-> <<g>>, todo |-> AuthorizeProgram(1)])

\* gco verify
VerifyCommand(t) ==
    \E host \in Hosts \ Protected, g \in Offered :
        Begin(t, [host |-> host, op |-> "verify", gcos |-> <<g>>,
                  todo |-> Verify(1)])

-----------------------------------------------------------------------------
(* Their own stages *)

\* Mutant: a parent that comes with the call is not looked at.
IncomingProgramAlone(gcos) == AuthorizeProgram(Len(gcos))

IncomingProgram(gcos) ==
    IF Len(gcos) = 1 THEN AuthorizeProgram(1)
    ELSE SubcallProgram \o AuthorizeProgram(2)

\* authorize_incoming up to its first runtime call.
Extract(t) ==
    LET meta  == call[t].meta
        fault == ExtractFault(call[t].host, meta)
        gcos  == IF meta.parent = NONE THEN <<meta.gco>>
                 ELSE <<meta.parent, meta.gco>>
    IN  /\ At(t, <<"extract", 0>>)
        /\ UNCHANGED <<clock, entries, wire>>
        /\ IF ~Advertised(meta)
           THEN IF call[t].host \in Requiring
                THEN Deny(t, "MISSING_CAPABILITY", NONE)
                ELSE Pass(t, call[t].now, <<>>)
           ELSE IF fault # "OK"
           THEN Deny(t, fault, NONE)
           ELSE /\ call' = [call EXCEPT ![t].gcos = gcos,
                                        ![t].fresh = Fresh(gcos),
                                        ![t].todo = IncomingProgram(gcos)]
                /\ Present(gcos)
                /\ UNCHANGED <<decisions, issued, begun>>

\* The child is attested and valid by now; it may still be too large to send.
Attach(t) ==
    \E attach \in {"attach", "attach_parent"} :
        LET child  == call[t].gcos[2]
            parent == IF attach = "attach" THEN NONE ELSE call[t].gcos[1]
            fault  == AttachFault(call[t].host, child, parent)
        IN  /\ At(t, <<attach, 1>>)
            /\ Outcome(t, fault, child)
            /\ wire' = IF fault # "OK" THEN wire
                       ELSE wire \cup {Attached(call[t].meta, child, parent)}
            /\ UNCHANGED <<clock, entries>>

\* PemSigningAuthority.issue: int() drops the part of a second, and there is
\* no jti and no audience.
PemAttestation(identity, g, key) ==
    [format |-> "JWT_SVID", value |->
        [shape |-> "ok", signer |-> key,
         header |-> [kid |-> PemKid, alg |-> "RS256", x5c |-> NONE],
         payload |-> [sub |-> identity,
                      gco_hash |-> canonical_gco_hash([g EXCEPT
                                                   !.model_identity = identity]),
                      aud |-> NONE, exp |-> Second * (g.expires_at \div Second),
                      nbf |-> NONE, iat |-> NONE, jti |-> NONE]]]

SignPem(t) ==
    /\ At(t, <<"sign_pem", 1>>)
    /\ UNCHANGED <<clock, entries, wire>>
    /\ \E key \in PemKeys :
           LET child == call[t].gcos[2]
               a == PemAttestation(call[t].gcos[1].model_identity, child, key)
           IN  Mint(t, a) /\ issued' = issued \cup {Attested(t, a)}

\* PreviewSigningAuthority.issue: text that is no token.
PreviewAttestation ==
    [format |-> "JWT_SVID", value |-> [shape |-> "bad_header", signer |-> NONE,
        payload |-> [sub |-> NONE, exp |-> NONE, jti |-> NONE]]]

Preview(t) ==
    /\ At(t, <<"preview", 1>>)
    /\ Mint(t, PreviewAttestation)
    /\ UNCHANGED <<clock, entries, issued, wire>>

\* The preview is printed; what was verified for it is the parent.
ShowPreview(t) ==
    /\ At(t, <<"print", 1>>)
    /\ Pass(t, call[t].now, <<call[t].gcos[1]>>)
    /\ UNCHANGED <<clock, entries, wire>>

BInit == Init /\ wire = {}

BNext ==
    \/ Tick /\ UNCHANGED wire
    \/ \E t \in Threads :
        \/ /\ CanBegin(t)
           /\ \/ PrepareToolCall(t) \/ PrepareSubcall(t) \/ AuthorizeIncoming(t)
              \/ DeriveSigned(t) \/ DerivePreview(t) \/ VerifyCommand(t)
              \/ AuthorizeState(t)
           /\ UNCHANGED wire
        \/ Stage(t) /\ UNCHANGED wire
        \/ Extract(t) \/ Attach(t) \/ SignPem(t) \/ Preview(t) \/ ShowPreview(t)

BSpec == BInit /\ [][BNext]_bvars

-----------------------------------------------------------------------------
(***************************************************************************)
(* The parent that travels with a child is the one it was derived from:    *)
(* the base _meta may be that of an earlier call, with a GCO, a parent and *)
(* a handle of its own.                                                    *)
(***************************************************************************)
SentParentIsParent ==
    \A m \in wire : m.parent # NONE =>
        /\ m.gco.parent_span_id = m.parent.span_id
        /\ Last(m.gco.lineage) = canonical_gco_hash(m.parent)

\* A host that trusts other domains, or expects another audience, takes it.
PassesElsewhere(g, host, setting) ==
    \E h \in Hosts, now \in 0 .. clock :
        /\ Trust[h][setting] # Trust[host][setting]
        /\ VerifyFault(Trust[h], g.attestation, g, now) = "OK"

\* Its certificate has expired.
RanOut(g) ==
    /\ g.attestation.format = "X509_SVID"
    /\ g.attestation.value.header.x5c.not_after < clock

Refuses(t, fault) == call[t].todo # <<>> /\ call'[t].fault = fault

\* A refusal of what was sent, and why.
RefusalHasCause ==
    \A t \in Threads : \A fault \in {call'[t].fault} \ {NONE} :
        Refuses(t, fault) /\ call[t].op = "authorize_incoming"
                          /\ call[t].meta \in wire =>
            LET meta == call[t].meta
                host == call[t].host
                gcos == Range(call[t].gcos)
            IN  CASE fault = "MISSING_CAPABILITY" -> ~meta.capable
                  [] fault = "MALFORMED_GCO" -> meta.handle = MALFORMED
                  [] fault = "TOOL_AUTHORITY_EXPANDED" ->
                         DecideFault(meta.gco, call[t].ask) # "OK"
                  [] fault \in {"EXPIRED", "EXPIRED_ATTESTATION"} ->
                         \E g \in gcos :
                             g.expires_at <= clock \/ Claims(g).exp <= clock
                  [] fault = "OVERSIZE_GCO" ->
                         \E g \in {meta.gco, meta.parent} \ {NONE} :
                             Oversize(host, g) /\ \E h \in Hosts : ~Oversize(h, g)
                  [] fault = "UNTRUSTED_KEY" ->
                         \E g \in gcos :
                             RanOut(g) \/ PassesElsewhere(g, host, "domains")
                  [] fault \in {"UNVERIFIED_SIGNATURE", "MALFORMED_ATTESTATION"} ->
                         \E g \in gcos : PassesElsewhere(g, host, "domains")
                  [] fault = "AUDIENCE_MISMATCH" ->
                         \E g \in gcos : PassesElsewhere(g, host, "expected_audience")
                  [] fault \in {"REPLAY_DETECTED", "JTI_MISSING"} ->
                         host \in Protected
                  [] OTHER -> FALSE

(***************************************************************************)
(* What a boundary sent arrives.  The server refuses a _meta that nobody   *)
(* altered only because the client advertised nothing, a base handle was   *)
(* broken, time has passed, the child was not given the tool, the server   *)
(* has a replay cache, or it is set otherwise than a host that takes it:   *)
(* a smaller max_gco_bytes, another audience, another trust bundle.  It    *)
(* never refuses it as unlinked or expanded, nor as unbound to its digest  *)
(* or identity; a certificate that has run out is refused as untrusted.    *)
(***************************************************************************)
HonestRefusalHasCause == [][RefusalHasCause]_bvars

(***************************************************************************)
(* What gco derive printed without a key is a preview: it passes           *)
(* validation, its parent is real, and no decision ever rests on it.       *)
(***************************************************************************)
PreviewBacksNothing ==
    \A i \in DOMAIN decisions : \A g \in Range(decisions[i].gcos) :
        g.attestation # PreviewAttestation
=============================================================================
