------------------------------ MODULE Verifier ------------------------------
(***************************************************************************)
(* One AttestationVerifier with an InMemoryReplayCache, used by several    *)
(* threads of a host (gco/attestation.py).  verify() samples the clock on  *)
(* entry and only then, after its checks, takes the cache's lock: other    *)
(* threads, and time, move between the two.  Everything check_and_record   *)
(* does is one step, under the lock.                                       *)
(***************************************************************************)
EXTENDS Attestation

CONSTANTS
    Trust,         \* what the verifier trusts
    Threads,
    Jtis,          \* the values of the jti claim
    Presentations, \* the (attestation, GCO) pairs hosts present
    MaxEntries,    \* max_entries of the cache
    MaxClock,      \* bound: the last instant
    MaxAccepts     \* bound: no call starts once so many were accepted

ASSUME VerifierBounds ==
    /\ MaxEntries \in Nat \ {0}
    /\ MaxClock \in Nat /\ MaxAccepts \in Nat

\* No fault is the absence of one.
ASSUME FaultAssumption == NONE # "REPLAY_DETECTED"

\* The exp claim is a number or is unusable, the jti claim may be missing.
ASSUME PresentationsAssumption ==
    \A p \in Presentations :
        \/ p.attestation = NONE
        \/ p.attestation.value = NONE
        \/ /\ p.attestation.value.payload.exp \in Int \cup {NONE, BAD}
           /\ p.attestation.value.payload.jti \in Jtis \cup {NONE}

VARIABLES
    clock,     \* what now() returns; it does not run backwards
    entries,   \* the replay cache
    call,      \* per thread: the verification in progress or last returned
    accepted   \* history: every acceptance, in the order of the lock

vars == <<clock, entries, call, accepted>>

Idle == [pc |-> "idle", what |-> NONE, now |-> 0, fault |-> NONE]

Init ==
    /\ clock = 0
    /\ entries = <<>>
    /\ call = [t \in Threads |-> Idle]
    /\ accepted = <<>>

Tick ==
    /\ clock < MaxClock
    /\ clock' = clock + 1
    /\ UNCHANGED <<entries, call, accepted>>

\* verify() is entered and check_time is sampled.
Enter(t) ==
    /\ call[t].pc = "idle"
    /\ Len(accepted) < MaxAccepts
    /\ \E p \in Presentations :
           call' = [call EXCEPT ![t] = [pc |-> "checking", what |-> p,
                                        now |-> clock, fault |-> NONE]]
    /\ UNCHANGED <<clock, entries, accepted>>

Return(t, fault) ==
    call' = [call EXCEPT ![t] = [pc |-> "idle", what |-> call[t].what,
                                 now |-> call[t].now, fault |-> fault]]

\* The checks before the replay check, on what was presented, at the instant
\* that was sampled.
Verdict == [p \in Presentations |->
               [now \in 0 .. MaxClock |->
                   VerifyFault(Trust, p.attestation, p.gco, now)]]

Checks(t) == Verdict[call[t].what][call[t].now]

Claims(t) == call[t].what.attestation.value.payload

\* A check before the replay check fails.
Refuse(t) ==
    /\ call[t].pc = "checking"
    /\ Checks(t) # "OK"
    /\ Return(t, Checks(t))
    /\ UNCHANGED <<clock, entries, accepted>>

\* _verify_replay: the claim is required once a cache is configured.
RefuseNoJti(t) ==
    /\ call[t].pc = "checking"
    /\ Checks(t) = "OK"
    /\ Claims(t).jti = NONE
    /\ Return(t, "JTI_MISSING")
    /\ UNCHANGED <<clock, entries, accepted>>

\* check_and_record evicts with the sampled time, then refuses ...
Replayed(t) ==
    LET live == Evict(entries, call[t].now)
    IN  /\ call[t].pc = "checking"
        /\ Checks(t) = "OK"
        /\ Claims(t).jti # NONE
        /\ ~CanRecord(live, Claims(t).jti, MaxEntries)
        /\ entries' = live
        /\ Return(t, "REPLAY_DETECTED")
        /\ UNCHANGED <<clock, accepted>>

\* Mutant: a token without jti is recorded under None.
AcceptAnyJti(t) ==
    LET live == Evict(entries, call[t].now)
    IN  /\ call[t].pc = "checking"
        /\ Checks(t) = "OK"
        /\ CanRecord(live, Claims(t).jti, MaxEntries)
        /\ entries' = Recorded(live, Claims(t).jti, Claims(t).exp)
        /\ Return(t, "OK")
        /\ UNCHANGED <<clock, accepted>>

\* ... or records and verify() succeeds.
Accept(t) ==
    LET live == Evict(entries, call[t].now)
    IN  /\ call[t].pc = "checking"
        /\ Checks(t) = "OK"
        /\ Claims(t).jti # NONE
        /\ CanRecord(live, Claims(t).jti, MaxEntries)
        /\ entries' = Recorded(live, Claims(t).jti, Claims(t).exp)
        /\ accepted' = Append(accepted,
                           [jti |-> Claims(t).jti, exp |-> Claims(t).exp,
                            what |-> call[t].what, now |-> call[t].now,
                            at |-> clock])
        /\ Return(t, "OK")
        /\ UNCHANGED clock

Next ==
    \/ Tick
    \/ \E t \in Threads :
           Enter(t) \/ Refuse(t) \/ RefuseNoJti(t) \/ Replayed(t) \/ Accept(t)

Spec == Init /\ [][Next]_vars

\* A thread that has entered verify() is not stopped for ever; every path
\* through the rest of it returns.  Hosts need not present anything.
Answer(t) == Refuse(t) \/ RefuseNoJti(t) \/ Replayed(t) \/ Accept(t)

FairSpec ==
    /\ Spec
    /\ WF_vars(Tick)
    /\ \A t \in Threads : WF_vars(Answer(t))

-----------------------------------------------------------------------------
(* Type invariant. *)
Acceptance == [jti : Jtis, exp : Int, what : Presentations,
               now : 0 .. MaxClock, at : 0 .. MaxClock]

TypeOK ==
    /\ clock \in 0 .. MaxClock
    /\ DOMAIN entries \subseteq Jtis
    /\ entries \in [DOMAIN entries -> Int]
    /\ DOMAIN call = Threads
    /\ \A t \in Threads :
           /\ call[t].pc \in {"idle", "checking"}
           /\ call[t].pc = "checking" => call[t].what \in Presentations
           /\ call[t].now \in 0 .. clock
    /\ accepted \in Seq(Acceptance)
    /\ \A i \in DOMAIN accepted :
           accepted[i].now <= accepted[i].at /\ accepted[i].at <= clock

(***************************************************************************)
(* At most one acceptance of a jti while it is live: if a jti is accepted  *)
(* again, the expiry recorded for it has passed on the real clock, however *)
(* long the threads stalled between sampling the time and taking the lock. *)
(***************************************************************************)
AtMostOnceWhileLive ==
    \A i, j \in DOMAIN accepted :
        i < j /\ accepted[i].jti = accepted[j].jti
            => accepted[i].exp <= accepted[j].at

(***************************************************************************)
(* The cache never forgets a live jti, nor grows past max_entries: no      *)
(* thread's eviction, at whatever time it sampled, drops an entry that has *)
(* not expired.                                                            *)
(***************************************************************************)
CacheHoldsLive ==
    /\ \A i \in DOMAIN accepted :
           accepted[i].exp > clock =>
               /\ accepted[i].jti \in DOMAIN entries
               /\ entries[accepted[i].jti] = accepted[i].exp
    /\ Cardinality(DOMAIN entries) <= MaxEntries

(***************************************************************************)
(* REPLAY_DETECTED has a cause: by the time the refused call, stalled or   *)
(* not, looked into the cache, its jti had been accepted with an expiry    *)
(* after the time the call had sampled, or max_entries such jtis had.      *)
(***************************************************************************)
LiveAt(now) == {accepted[i].jti : i \in {k \in DOMAIN accepted :
                                            accepted[k].exp > now}}

ReplayHasCause ==
    \A t \in Threads : call[t].fault = "REPLAY_DETECTED" =>
        \/ Claims(t).jti \in LiveAt(call[t].now)
        \/ Cardinality(LiveAt(call[t].now)) >= MaxEntries

(***************************************************************************)
(* Refinement: with its lazy eviction and its sampled times the verifier   *)
(* is a single-use log of the attestations it accepts, of max_entries live *)
(* ones.  Everything but an acceptance and the clock is a stutter.         *)
(***************************************************************************)
PresentedClaims ==
    {p.attestation.value.payload : p \in {q \in Presentations :
        q.attestation # NONE /\ q.attestation.value # NONE}}

Promise == INSTANCE SingleUse WITH
    Uses     <- {[id |-> c.jti, until |-> c.exp] : c \in PresentedClaims},
    Capacity <- MaxEntries,
    time     <- clock,
    log      <- [i \in DOMAIN accepted |->
                    [id |-> accepted[i].jti, until |-> accepted[i].exp]]

ImplementsSingleUse == Promise!Spec

(***************************************************************************)
(* A full cache recovers by itself, without a sweep: an attestation that   *)
(* stays valid, and that a host keeps presenting, is accepted in the end,  *)
(* unless as many live ones as the cache holds outlast the clock.          *)
(***************************************************************************)
Lasting == {p \in Presentations :
               /\ \A now \in 0 .. MaxClock : Verdict[p][now] = "OK"
               /\ p.attestation.value.payload.jti # NONE}

InCall(p) == \E t \in Threads : call[t].pc = "checking" /\ call[t].what = p

Settled(p) ==
    \/ p.attestation.value.payload.jti \in Range([i \in DOMAIN accepted |->
                                                     accepted[i].jti])
    \/ Cardinality(LiveAt(MaxClock)) >= MaxEntries

FullCacheRecovers ==
    \A p \in Lasting : []<>InCall(p) => <>Settled(p)

-----------------------------------------------------------------------------
(* Statement of the documentation that the code does not keep *)

(***************************************************************************)
(* README, "Attestation verification limits": with a ReplayCache, "reuse   *)
(* of a seen jti" fails closed: no attestation is accepted twice.          *)
(***************************************************************************)
SeenJtiFailsClosed ==
    \A i, j \in DOMAIN accepted :
        accepted[i].what.attestation = accepted[j].what.attestation => i = j
=============================================================================
