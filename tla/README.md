# A verification of the GCO reference implementation

TLA+ models of `src/gco` (Governance Context Objects: authority that travels
with delegated calls), TLC runs over small instances, and TLAPS proofs, for all
instances, of what each part with state promises. Paths below are
relative to `src/`, the repository root.

## 1. The system

| component | state | operations | interacts with |
| --- | --- | --- | --- |
| GCO model, `src/gco/models.py` | none: values | parsing | everything |
| `GCOValidator`, `src/gco/validator.py` | a clock | `validate_root`, `validate`, `validate_result` | derivation, runtime |
| `GCODerivationRuntime`, `src/gco/derivation.py` | none | `derive` | validator (twice), `AttestationAuthority.issue` |
| `AttestationVerifier`, `src/gco/attestation.py` | a clock, trust bundle | `verify` | replay cache |
| `InMemoryReplayCache`, same file | `_entries`: jti to expiry, a lock | `check_and_record` | verifier, from any thread |
| `TrustBundle`, `src/gco/trust.py` | immutable keys, CA stores, audience | `from_json_file`, `from_mapping`, `get`, `key` | verifier, the configuration file |
| `GovernanceRuntime`, `src/gco/runtime.py` | the parts above | `authorize_subcall`, `authorize_tool_call`, `authorize_state_access`, `derive_for_subcall`, `read_state`, `write_state` | hosts, all of the above |
| `GovernedStateStore`, `src/gco/state_store.py` | `_values`, `_taints` | `write`, `read`, `get_taint` | runtime |
| `PolicyDeploymentLedger`, `src/gco/policy_ledger.py` | `_entries`, `_usable`, a JSONL file | open, `record_activation`, `verify`, `active_policies`, `latest_for_policy`, `export_jsonl` | hosts, the CLI, other processes on the file |
| CLI, `src/gco/cli.py` | none | one-shot commands | all of the above |
| MCP adapter, `src/gco_mcp/` | none | `prepare_tool_call`, `prepare_subcall`, `authorize_incoming`, `_meta` codec | two runtimes, over messages |
| DER harness, `src/gco/der_harness.py` | none | scoring of a finished run | none |

What is hard in it:

* **Many hops.** Every check compares a child with its parent only. The promise
  is about whole chains: authority, depth, lineage and context.
* **Rules written twice.** `derive` and `validate` both implement delegation;
  runtime and store both decide state access, the one by first match and the
  validator by dictionary.
* **Time.** `verify` samples the clock before it takes the cache's lock; a
  derivation reads it five times. Other threads, and time, move in between.
* **A single use.** With a replay cache every successful `verify` spends a jti,
  and the runtime's methods verify several times. The cache is bounded and has no
  sweep.
* **Messages.** A `_meta` arrives late, again, mixed with another or after a
  forwarding application reused it; each side has a runtime of its own.
* **No lock** around the two dictionaries of the state store.
* **Storage failures** in the middle of a ledger append or export, restarts, and
  a second process on the file.
* **Configuration** in two shapes with aliases and defaults, where a part that is
  skipped would be a check that is not made.

What makes each part correct: the validator and derivation never let a chain
widen; the verifier accepts only what is bound to the GCO presented, and once;
the runtime, alone and behind the MCP boundaries and the CLI, allows and issues
nothing beyond an attested root; the store keeps the highest taint and serves
aligned data; the ledger's memory, file and queries tell one history; a verifier
trusts exactly what its configuration says.

## 2. Modules

```
Authority            pure rules: validator, derivation, tool and state decisions
|- DelegationChain   chains of GCOs           MCDelegation   DelegationProofs
|- Attestation       pure checks of verify(), the cache's operations
|  |- Verifier       threads, clock, cache    MCVerifier     VerifierProofs
|  |    implements SingleUse                  (abstract specification)
|  |- TrustConfig    configuration to verdict MCTrust        TrustProofs
|  |- GovernanceRuntime   the runtime's methods in stages    MCRuntime
|     |- Boundaries  MCP boundaries, CLI      MCBoundaries   RuntimeProofs (both)
|- StateStore        read_state / write_state, statement by statement
|                                             MCStateStore   StoreProofs
|- MCTokens          keys, GCOs and tokens of the instances
PolicyLedger         ledgers, their file, failures and restarts
                                              MCLedger       LedgerProofs
ListProofs           lemmas about sequences and least elements
AuthorityProofs      lemmas about the operators of Authority and Attestation
```

**Authority.** A GCO is a record with the code's field names. Each check of the
validator is an operator that returns `"OK"` or the name of the error it
raises; a method is the sequence of its checks and `FirstFault` takes the first
error, so the order is the code's. Dictionaries built by comprehension keep the
last entry of a key (`DictGet`), `next(...)` takes the first (`FirstMatch`). A
scope is its set of tokens and whether `strip()` leaves anything, the two things
the code asks of it. `canonical_gco_hash` is the body itself: collisions are
abstracted. Some rules have a variant marked *Mutant* before them: the rule with
a plausible mistake, which the corresponding run refutes.

**DelegationChain.** `chain` is the accepted GCOs from the root, `clock` is
`now()`. `AcceptRoot` is `validate_root`, `AcceptChild` is `validate` of a
proposed child, `DeriveChild` is `derive`, both validations included. A refused
proposal changes nothing. A delegation tree is a set of chains, and no check
looks at siblings.

**Attestation and Verifier.** The operators take what the verifier trusts as an
argument: its domains, with their keys and CAs, and its audience. A token
remembers its signer; a signature verifies exactly under that key. In `Verifier`
the trust is a constant. `Enter` samples the clock, `Refuse`,
`RefuseNoJti`, `Replayed` and `Accept` are the outcomes. `check_and_record` is
one step because the code holds the lock for all of it; it uses the time sampled
by `Enter`. `accepted` is a history variable.

**SingleUse** is what the verifier with its cache promises: a log of uses; an id
is used when no use of it is live and fewer than `Capacity` uses are. It knows
neither threads nor eviction nor sampled times. `Verifier!Promise` maps
`accepted` to the log and `clock` to the time; all else is a stutter.

**TrustConfig.** A configuration is a dict (a function on the keys it has), in
either of the two shapes and with either name of each list. `ConfigParses` is
everything the parser refuses, `Parse` what it builds. `Start` is
`from_json_file` followed by the constructor of the verifier, `StartFails` the
exception of either (`TrustBundleError`, `ValueError`, and an `AttributeError`
when `trust_domains` is a list, which the CLI catches as well). `Edit` is the
operator at the file. `Verify` is `VerifyFault` with the domains and the audience
of the verifier in the current state. The properties read the configuration on
their own, without the parser's operators.

**GovernanceRuntime.** `SubcallProgram`, `AuthorizeProgram` and `DeriveProgram`
give each method as a sequence of stages; a stage reads the clock at most once
and is one step of `Next`: `Sample` and `CheckAttestation` (`verify`), `Expiry`,
`Decide`, `Request` (`derive` up to its first validation), `IssueAttestation`,
`Validate`. A denial ends the call. The stages of several threads interleave and
`Tick` moves the clock between them. The host may present a root, a child that a
derivation returned, a forgery of one (`Forgeries`, of which `Forged` keeps what
can be made without a key that some host trusts), or something that is no GCO.
`issue()` is external: it attests, attests with an untrusted key, or raises.
`decisions`, `issued` and `presented` are histories. `Hosts` are runtimes, each
with a trust bundle and an audience of its own (`Trust`), `Protected` those with
a replay cache. A runtime without an
attestation authority refuses every derivation and is not modelled separately.

**Boundaries** adds programs that are put together from those stages:
`prepare_tool_call` and `prepare_subcall` (authorise, derive, attach),
`authorize_incoming` (extract, then authorise, with a subcall before it when a
parent came along), `gco derive` with a key and as a preview, `gco verify`.
`wire` is every `_meta` that was sent. What arrives (`Arriving`) is any of them,
at any time and any number of times, also without its capability, with a broken
handle, or put together from what circulates. `PemAttestation` cuts exp to a
second and has neither jti nor aud. A GCO has a `Size`, which each host compares
with its own `MaxGcoBytes`, when it sends and when it receives; its JSON is not
modelled, only whether it is malformed.

**StateStore.** The verified part of `read_state` and `write_state`: what is
before it are the stages of `authorize_state_access`. `BeginWrite` is everything
up to the append check, then `SetValue`, `GetTaint` and `SetTaint` are lines 33,
34-35 and 35-37 of `state_store.py`; `BeginRead` ends with the taint looked up,
`GetValue` is line 57. A value is known by the write that stored it.
`contended` remembers slots where a write overlapped another call.

**PolicyLedger.** The file is a sequence of lines and a flag for a missing last
newline; each process has a ledger of its own on it, or none. `AppendFails` is an
`OSError` (the ledger becomes unusable), `CrashAppending` the end of the process;
both leave a part of the line, from the set `Reach`: nothing, a prefix, all but
the newline, all. `disk` is the file as it is safe on the disk: an append that
returned has fsynced it. `PowerLoss` takes every process down, and leaves what
was on the disk or what was written since, as far as it got there. `Export` is
`export_jsonl` over the live file: it truncates and does not fsync, so until the
next append that returns (`exported`) a machine that goes down may leave the old
file, the new one, or any part of the new one, nothing included. `ExportFails`
leaves a part of the snapshot and a ledger that is still usable, `CrashExporting`
no ledger. `Open` is the constructor with its default verification,
`OpenUnverified` the loading of the CLI. `acked` holds, for each record that was
returned, the chain it closed; `incidents` what happened that a promise excepts:
"shared" (two ledgers were open), "cut" (an export failed, or was lost with the
machine), "newline" (a write lost its newline only), "misdated" (a record with a
time other than the present); `past` what was active at the end of each instant.
The hash of an entry is its body. `ActiveSnapshot` replays a list as the loop of
`_active_snapshot` does (a recursive function); `Sorted` is the order in which
as-of replay takes the events (`Sooner`), without the algorithm that finds it.

## 3. Runs

| run | what it asks | bounds |
| --- | --- | --- |
| `delegation` | does a chain ever widen, run over its depth, lose lineage or context; do `derive` and `validate` agree | two URIs, namespaces, operations; depths 0..2; lists of up to two entries; chains of up to 3 (the lineage bound is 2, so the flood check is reached); instants 0..2 |
| `verifier_replay` | is a live jti accepted twice, forgotten, or refused without cause; does a full cache recover; is it a single-use log | 2 threads, 3 jtis and none, 2 cache entries, instants 0..2, 3 acceptances |
| `trust_config` | what does an acceptance mean, in terms of the configuration; is a listed key refused; does a verifier stand on part of a configuration | 11 usable and 12 unusable configurations, 3 audiences of the host, about 270 presentations, two domains that share a kid, one call for each start |
| `state_store` | are slots without overlapping writes safe, do runtime and store agree | 2 threads, 2 keys, 7 grants, 3 calls |
| `boundaries` | is anything allowed or issued beyond a root by any method, boundary or command; what is sent, refused, previewed and used twice | 2 calls in a row, a host without and one with a replay cache, the second with a smaller size limit, an audience and no CA, forgeries of everything in circulation, malformed inputs, children too large for one host or both, requests and certificates that run out on the way, instants 0..1 |
| `runtime_replay` | does an attestation back two decisions, is anything expired allowed | 2 threads, 3 calls, two roots (one grants no tool), so that the 2 cache entries fill up, instants 0..2; threads are symmetric |
| `ledger` | what do a sealed head and the queries of a ledger say of its history | 1 process, 3 lines, 2 policies, activate and deactivate (the queries take supersede for activate), instants 0..1 with records dated at either, failures and losses that leave a prefix or a whole line |
| `ledger_writers` | are memory and file one, do returned records stay; does a second process, a cut or lost export, or an unverified load rewrite history unnoticed | 2 processes, one of which may stay away, 3 lines, 1 policy in two versions, one instant, every part of a write, a machine that goes down, either way of opening |
| `delegation_reads_widen`, `verifier_reuse`, `runtime_quickstart`, `ledger_lines` | statements of the documentation that do not hold, see section 5 | small |

Why the bounds are enough to be interesting: three members are the least chain
in which a check that looks one hop up could miss something; two cache entries
and three jtis fill the cache; two threads and three calls give every pair of
overlapping calls and a later one that sees the result; a derivation followed by
a derivation and a use needs three calls with threads, and two at the boundaries,
where one call authorises, derives and sends and the next one receives; a
configuration has one thing wrong at a time beside a domain that is right; three
ledger lines give a middle entry
to remove, swap or rewrite. The lineage bound is 128 in the code and a constant
here; the proofs cover every value.

The runs that stop at a bound (chain length, calls, acceptances, lines) do not
check deadlock: nothing is left to do there. In the code no operation waits for
another one, except for the cache's lock, which is held for a few dictionary
accesses only and never while another is taken.

Fairness is assumed in one place, `Verifier!FairSpec`: time passes (`WF(Tick)`)
and a thread that has entered `verify()` returns (`WF(Answer(t))`; every path of
`verify` returns, and CPython schedules a runnable thread and hands the lock on).
Hosts need not call: that a host keeps presenting an attestation is the premise
of `FullCacheRecovers`, not an assumption. That run uses no symmetry.
Nothing else in the system must *eventually* happen: a message may stay away, an
operator need not restart a ledger.

What the properties say:

* `AuthorityNeverWidens`: an operation or access the runtime would allow a
  descendant it would allow every ancestor. It speaks of decisions, not of list
  entries, so it also covers first match against last match.
* `DepthBudget`, `LineageIsAncestry`, `ContextPreserved`: the chain-wide forms
  of checks that look one hop back.
* `DeriveMatchesValidate`: `derive` refuses a request exactly when no child with
  the requested grants could pass `validate`.
* `AtMostOnceWhileLive`, `CacheHoldsLive`, `ReplayHasCause`: on the real clock,
  not on the time a thread sampled.
* `FullCacheRecovers`: a lasting attestation that is presented again and again is
  accepted in the end, unless as many accepted ones as the cache holds outlast
  the clock. Eviction happens only in calls, with sampled times.
* `ImplementsSingleUse`: the refinement of `SingleUse`.
* `AcceptedIsBound`: the token was signed for this GCO, by the key that the
  configuration lists last under its kid in the domain of its model identity,
  although that domain was picked from an unverified claim, and for the audience
  of the host or else of the configuration. `UntrustedHasCause` is the converse
  for keys; `AllOrNothing`: one unusable key, certificate or audience anywhere
  and there is no verifier.
* `RootedAuthority`, `IssuedIsRooted`: whatever is allowed or attested, by a
  method, a boundary or a command, is within a root.
* `SentParentIsParent`: a child travels with the parent it was derived from,
  whatever base `_meta` it is attached to. `HonestRefusalHasCause`: an unaltered
  message is refused for one of the named causes, and never as unlinked or
  expanded: the client advertised nothing, a base handle was broken, the tool was
  not granted, time has passed, the host has a replay cache, or it is set
  otherwise than a host that takes the message. The last is stated for each
  answer: OVERSIZE_GCO needs a host with a limit it fits, AUDIENCE_MISMATCH and
  UNTRUSTED_KEY a host whose verifier accepts it and whose audience, or whose
  domains, differ. A certificate that ran out on the way is reported as an
  untrusted key too. `PreviewBacksNothing`: no decision rests on a preview.
* `OneDecisionPerAttestation`: with a replay cache an attestation that is still
  live backs one allowed decision, whatever the role and thread it returns in.
* `NothingExpiredAllowed`: neither a GCO nor an attestation of an allowed
  decision had expired when the call began.
* `UncontendedTaint`, `UncontendedReads`, `AppendCreates`: what the store keeps
  where writes do not overlap. `RuntimeAndStoreAgree`.
* `MemoryIsFile`, `AckedStaysInFile`: through failed appends, completed exports,
  crashes of the process and of the machine, and restarts. Both are about
  `Undisturbed` histories, and are false beyond: a second writer, an export that
  was cut short or was not on the disk yet when the machine went down, or a write
  that lost its newline only, parts memory and file or takes returned records
  away. That these happen is said in section 5.
* `TamperEvident`, `AsOfIsHistory` (every record dated at the present of its call,
  none unacknowledged), `AsOfIsLatestByTime` (any dates), `LatestIsActive`
  (`latest_for_policy` against `active_policies()` without an instant; both take
  the order of the file).
* `StaleAppendsShow`, `SealPinsHistory`: with several writers, failed exports and
  unverified loads, an append onto a changed file breaks the chain, and a head
  that was sealed accepts only the history it closed.

## 4. Proofs

Every safety invariant and action property of the passing runs is proved for all
values of the constants; the one liveness property is not. Each proof
module states its inductive invariant under that name; TLC has checked each of
them on the run of its module, with quantifiers over all integers cut to the
instants of the run and without asking whether a sentinel is a GCO.

The proofs use `ListProofs` (lists without an element set given in advance;
`MinInSet`, `Greatest`) and `AuthorityProofs` (sequences of checks:
`FirstFaultOK`, `FirstFaultAmong`, `OneMayFail`; dictionaries: `DictGetFinds`;
what a pass of `validate`, of a tool call, of a state access or of `verify`
means; and what a later pass can still fail on: `ValidateLater` says only time,
`VerifyElsewhere` only time, a certificate, or that another host trusts other
domains or expects another audience).

**DelegationProofs**: `TypeOK`, `AuthorityNeverWidens`, `DepthBudget`,
`LineageIsAncestry`, `ContextPreserved`, `DeriveMatchesValidate`. The chain
properties are not inductive, since a step only validates the last member's
child.

1. `ValidateImpliesDelegated`: what passes `validate` is `Delegated` from its
   parent: well formed, each grant within one of the parent's, a unit less of
   depth, lineage extended by the parent's digest, context kept.
2. `ToolCallMeaning`, `StateAccessMeaning`: what an "OK" of the runtime's two
   decisions means in terms of grants; without duplicates first match, last
   match and existence coincide.
3. `ChainInv` states all properties for all pairs of members. `HopStep` shows
   that a delegated hop keeps it: for a new last member, every ancestor's
   relation to the previous member composes with 1. `AcceptChild` and
   `DeriveChild` are both hops, since `derive` ends with a validation
   (`MintedIsGCO` shows its depths stay natural numbers).
4. `DeriveAgreesWithValidate` takes both sequences of checks apart. What
   `derive` copies passes every check but the grants' and the expiry's
   (`InheritsPasses`), so both come down to `GrantsPass`; `DeriveGrants` compares
   the grants entry by entry, `Tolerated` handles that EXPIRED may be the first
   fault. Hypothesis `RefusedAreNoGCOs`: what coercion refuses is not a GCO.

**VerifierProofs**: `TypeOK`, `CacheHoldsLive`, `AtMostOnceWhileLive`,
`ReplayHasCause`, `ImplementsSingleUse`. The inductive invariant is the
conjunction of the first three with the order of clock readings: a thread's
sample is at most the clock, so what its eviction drops has expired on the clock
as well; a live jti is therefore in the cache and cannot be recorded again.
`ReplayHasCause` needs `CauseInv`: every entry of the cache is an acceptance of
its jti with that expiry, so entries that an eviction leaves are live
acceptances. `VerifierImplementsSingleUse` shows every step to be a step or a
stutter of `SingleUse`: an accepted jti has no live use because the cache would
hold it, and the live uses are fewer than the capacity because they inject into
the entries the cache had left.

**TrustProofs**: `AcceptedIsBound`, `UntrustedHasCause`, `AllOrNothing`. The
inductive invariant (`Built`) says that the verifier stands on all of one
configuration that parses, whatever the file has become since. The rest compares
what the parser made of it with what is written: which domains there are, which
of two names or shapes counts, and that the key under a kid is the one listed
last (`TrustedAsWritten`); and what an "OK" or an UNTRUSTED_KEY of `verify`
says about that bundle.

**StoreProofs**: `TypeOK`, `UncontendedTaint`, `UncontendedReads`,
`AppendCreates`, `RuntimeAndStoreAgree`. The invariants speak of completed
calls; `Inv` adds what a call in progress on an uncontended slot has seen and
that it still holds: a write is alone there, the taint it looked up is the one
stored, its append check is current, a stored value belongs to a completed write
or to the one in progress, and a read is about to return aligned data. Any step
of another call on the slot either is a read or marks it contended.

**RuntimeProofs**, for `GovernanceRuntime`: `RootedAuthority`, `IssuedIsRooted`,
`TypeOK`, `NothingExpiredAllowed`, `OneDecisionPerAttestation`; and for
`Boundaries`: `RootedAuthority`, `IssuedIsRooted`, `SentParentIsParent`,
`PreviewBacksNothing`, `TypeOK`, `OneDecisionPerAttestation`,
`HonestRefusalHasCause`.

1. `FlowInv`: a call in progress has a legal rest of a program (`Legal`), and of
   each GCO of it either the check is still to come or it passed verification
   between the beginning of the call and now. Every GCO a call can be about is
   `Sound`: if it passes verification it is within a root (`Rooted`). A root and
   what the authority attested are, by `ValidateImpliesDelegated` along the
   derivations; a forgery is, because a signature taken over is refused with any
   GCO but its own, and one by other keys by every host's `verify`
   (`PassesSigned`). What passes is what some host's verifier accepts (`Passes`).
2. `StagedInv` adds the expiry check before each decision and the shape of the
   caches, which gives `TypeOK` and `NothingExpiredAllowed`.
3. `OnceInv`: on a protected host, what a call in progress has had checked is
   either spent in the cache or has expired, and is not what another call or an
   earlier decision there was backed by, unless that has expired. `Spent` is
   what the eviction of a delayed call cannot undo while the attestation is live.
4. `BoundaryInv`: what a boundary's program will send is linked parent and child,
   and so is everything on the wire. The boundaries' own stages keep `FlowInv`,
   since what arrives is made of what circulates; a preview's attestation is no
   token at all (`Dud`), so no verification passes it (`DudFails`).
5. `HeldInv` keeps the shape of calls and caches over the boundaries' stages, and
   `OnceInv` holds of their programs as well: a protected host prints no preview,
   and what a message's child and parent are checked for is spent in order.
6. `DeliveryInv` is what `HonestRefusalHasCause` needs. What is on the wire
   passed some host's verification and was within some host's limit (`Fit`), a
   child passed validation under the parent it travels with (`Validated`), and a
   call that received it began afterwards. That a message "was sent" is a
   comparison of values, so a message that an application put together must not
   become a sent one while a call is looking at it: hence the child of a
   derivation has a span nothing in circulation has (`Makes`, `Apart`, from
   `uuid4`), and whatever passes verification has the span of something in
   circulation (`Known`). Given these, each check of the receiver repeats, at a
   later time and with the receiver's settings, one the sender passed, and
   `ValidateLater` and `VerifyElsewhere` say which faults are left; `StepCause`
   goes through the stages. Hypothesis `SentinelsApart`: the values that stand
   for "no GCO" and "malformed" are no GCO and no `_meta`. It is not an
   assumption of the module because TLC cannot evaluate it: the sentinels are
   model values there, of which it is true, but TLC refuses to take their fields.

**LedgerProofs**: `TypeOK`, `SealPinsHistory`, `StaleAppendsShow`,
`TamperEvident`, for any number of processes and every kind of failure;
`MemoryIsFile`, `AckedStaysInFile`; and of the queries `AsOfIsLatestByTime`,
`LatestIsActive`, `AsOfIsHistory`. That a head determines its chain
(`SealPinsHistory`) goes down the links (`ChainsAgree`): an entry's hash
covers its sequence number and the hash before it, so two chains that hold and
end in the same hash have the same length, the same last record and the same
hash before that. `MemoryIsFile`
and `AckedStaysInFile` need `OneWriter`, the state of things while the history is
`Undisturbed`: at most one process is up, its memory is the file, the file ends in
a newline unless a torn line is in it, every returned chain is a prefix of what is
safe on the disk, and that is a prefix of the file. The disk has to be in it
because a machine that goes down leaves an extension of the disk, unless an export
was not on it yet. Neither theorem has a hypothesis of its own: what they except
is in the properties.

For the queries, `SnapshotShows` says what a replay leaves: a policy is active
with its newest event in the list (`Newest`), unless that deactivates it
(`Shows`). So lists with the same newest events have the same snapshot
(`SameShown`). `OrderExists` shows that the order `Sorted` chooses exists, and
`SortedNewest` which events are newest in it. From these follow `AsOfIsLatestByTime`
(in a chain that holds no two events tie) and, with the hypothesis
`NoneIsNoRecord`, `LatestIsActive`. `AsOfIsHistory` needs an invariant of its own,
`History`: while nothing is backdated the returned records are in the order of
their time, and each past snapshot is that of a prefix of them, the ones recorded
before the instant ended. What these recursions compute is shown without the
library's induction theorems: a least number for which the claim fails
(`MinInSet`) is neither zero nor a successor (`ReplayExists`, `SnapshotShows`,
`OrderExists`).

Assumptions on the constants, which TLC evaluates in every run: bounds are
naturals and sentinel values differ from what they stand beside
(`MaxLineageAssumption`, `SentinelAssumption`, `BadAssumption`,
`FaultAssumption`, `*Bounds`); values have the shapes pydantic, JSON or a parser
gives them (`RequestsAssumption`, `SubjectsAssumption`, `TrustAssumption`,
`PresentationsAssumption`, `ConfigsAssumption`, `EventTypesAssumption`,
`ReachAssumption`); a root's signer attests the hash of what it signs
(`RootsAssumption`); a `_meta` that an application starts from carries no GCO
unless it was sent before (`BaseMetasAssumption`). In the models, not in an
assumption: inputs that pass coercion are GCOs, the clock does not run backwards,
hashes are injective, and signatures need keys (`Forged`).

Model-checked only: `FullCacheRecovers`. It is liveness, and the prover handles
neither fairness nor ENABLED.

`NothingExpiredAllowed` is a theorem, and a property, of `GovernanceRuntime`
alone. Of `Boundaries` it is false: `gco verify` reports on an attestation and
never looks at `expires_at`.

## 5. Where documentation and code differ

* **`delegation_reads_widen`.** "No broader than the authority it inherited"
  (README.md:17-19). Delegation may raise a taint policy, which narrows what a
  grant writes and widens what it reads: under a clean parent, a child with
  `sanitized` reads data its parent may not.
* **`verifier_reuse`.** "Reuse of a seen `jti` fail[s] closed" (README.md:272).
  A verification delayed past the expiry of its token, with another thread's
  eviction in between, accepts the token again. `AtMostOnceWhileLive` is what
  holds.
* **`runtime_quickstart`.** With a replay cache, as README.md:256 requires, the
  calls of README.md:74-90 are refused: `derive_for_subcall` has spent the
  child's jti. The MCP client and fan-out, which authorise with a GCO and then
  derive from it, meet the same refusal on the parent.
* **`ledger_lines`.** "Each `record_*` call appends one line"
  (docs/policy-ledger.md:99). After a crash that lost only the newline, the
  ledger opens, the next record is appended to the same line, and afterwards the
  file does not load. `MemoryIsFile` and `AckedStaysInFile` except it by name.

Observations without a run, since no document says otherwise or the case is
small:

* Of two overlapping writes to a slot of the state store the lower taint can be
  stored last, overlapping appends overwrite, and a read can return a value whose
  taint it did not test: there is no lock. Taint is monotonic "across overwrites"
  (README.md:211) that do not overlap, and nothing promises a store for threads.
* On a host with a replay cache `authorize_incoming` refuses every child that
  comes with its parent (`authorize_subcall` and then `authorize_tool_call`
  verify the child, server.py:41-44), and `prepare_tool_call` and
  `prepare_subcall` refuse every parent with a jti (authorised, then verified
  again by the derivation). `HonestRefusalHasCause` lets `REPLAY_DETECTED` pass
  there.
* A failed `export_jsonl` over the live file leaves a valid prefix and a ledger
  that goes on appending; only a sealed head shows what was lost. One that has
  returned is not fsynced either (policy_ledger.py:367): until the next append, a
  machine that goes down may take records away that were fsynced when they were
  returned. The docstring says to prefer the append path for live use, so this is
  `AckedStaysInFile`'s exception and no finding. A record that was appended to a
  chain nobody verified is returned like any other.
* Hosts need not agree on `max_gco_bytes`, audience or trust bundle, and a sender
  checks its own limit only (wire.py:82): a message that was sent as valid may be
  refused by a receiver set otherwise. `HonestRefusalHasCause` names these answers.
* `latest_for_policy` goes by the order of the file and `active_policies(at=...)`
  by `recorded_at`; after a backdated event they may name different records.
* A configuration with `trust_domains` ignores every other top-level domain
  without a word, and `jwk_set` counts only where `jwks` is empty.
* `authorize_tool_call` without a requested scope allows a child scope `","`
  under a parent scope `""`, which it refuses; no operation comes with it, and
  `AuthorityNeverWidens` is about operations.
* A child may expire between `issue()` and the validation after it, so an
  attestation can be minted and discarded
  (docs/audits/AUDIT_FINDINGS_LAYERS.md:115 says it cannot).

## 6. Not modelled

The DER harness, audit scripts, examples and the JSON schema: stateless or tests.
Of the CLI, `gco validate` is `ValidateFault` on two files, and `inspect`,
`schema`, `ledger-show` and the formatting keep and decide nothing. Parsing of
GCOs beyond accepted, malformed, too large and unknown attestation format.
Cryptography, and whether a JWK or PEM text is usable. A clock that runs
backwards: evicted jtis are then accepted again, and no code tries to prevent it.
Input validation of the ledger's arguments and `record_from_gco`, which only
choose what is recorded. A file system that loses the directory entry of a ledger
whose records were fsynced.

## 7. Plan

All parts with state are modelled, and every safety property of the runs is
proved. What could be added:

1. Every decision of `GovernanceRuntime` on a protected host as a use in
   `SingleUse`, a refinement over the stages of its methods like the verifier's.
   It needs a log of the verifications of each host beside the caches.
2. `FullCacheRecovers`, with a prover for liveness.
