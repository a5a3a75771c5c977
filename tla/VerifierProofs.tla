--------------------------- MODULE VerifierProofs ---------------------------
(***************************************************************************)
(* Proofs about Verifier, for any number of threads, tokens and cache      *)
(* entries.                                                                *)
(***************************************************************************)
EXTENDS Verifier, AuthorityProofs, FiniteSetTheorems

-----------------------------------------------------------------------------
(***************************************************************************)
(* The inductive invariant: the types, what the cache holds, that it is    *)
(* finite (so that its size means something), and the property itself.     *)
(***************************************************************************)
Inv ==
    /\ TypeOK
    /\ IsFiniteSet(DOMAIN entries)
    /\ CacheHoldsLive
    /\ AtMostOnceWhileLive

LEMMA InitInv == Init => Inv
<1> SUFFICES ASSUME Init PROVE Inv
  OBVIOUS
<1> USE VerifierBounds DEF Init
<1>1. TypeOK
  BY DEF TypeOK, Idle, Acceptance
<1>2. DOMAIN entries = {}
  OBVIOUS
<1>3. IsFiniteSet(DOMAIN entries) /\ Cardinality(DOMAIN entries) = 0
  BY <1>2, FS_EmptySet
<1> QED BY <1>1, <1>3 DEF Inv, CacheHoldsLive, AtMostOnceWhileLive

\* A thread that is past the checks holds a token whose claims are usable.
LEMMA ClaimsUsable ==
    ASSUME TypeOK, NEW t \in Threads, call[t].pc = "checking", Checks(t) = "OK"
    PROVE  /\ Claims(t).exp \in Int
           /\ Claims(t).exp > call[t].now
           /\ Claims(t).jti \in Jtis \cup {NONE}
           /\ call[t].what \in Presentations
           /\ Claims(t) \in PresentedClaims
<1>1. call[t].what \in Presentations /\ call[t].now \in 0 .. MaxClock
  BY VerifierBounds DEF TypeOK
<1>2. VerifyFault(Trust, call[t].what.attestation, call[t].what.gco, call[t].now) = "OK"
  BY <1>1 DEF Checks, Verdict
<1>3. /\ call[t].what.attestation # NONE
      /\ call[t].what.attestation.value # NONE
      /\ Claims(t).exp \notin {NONE, BAD}
      /\ Claims(t).exp > call[t].now
  BY <1>2, VerifiedFresh DEF Claims
<1> QED BY <1>1, <1>3, PresentationsAssumption DEF Claims, PresentedClaims

\* What the type of the history says of its members.
LEMMA AcceptedTypes ==
    ASSUME TypeOK
    PROVE  /\ Len(accepted) \in Nat
           /\ DOMAIN accepted = 1 .. Len(accepted)
           /\ \A i \in DOMAIN accepted :
                  accepted[i].exp \in Int /\ accepted[i].at \in 0 .. MaxClock
<1>1. accepted \in Seq(Acceptance)
  BY DEF TypeOK
<1>2. \A i \in DOMAIN accepted : accepted[i] \in Acceptance
  <2> HIDE DEF Acceptance
  <2> QED BY <1>1
<1> QED BY <1>1, <1>2 DEF Acceptance

LEMMA StepInv == Inv /\ [Next]_vars => Inv'
<1> SUFFICES ASSUME Inv, [Next]_vars PROVE Inv'
  OBVIOUS
<1> USE VerifierBounds
<1>0. TypeOK /\ IsFiniteSet(DOMAIN entries) /\ CacheHoldsLive /\ AtMostOnceWhileLive
  BY DEF Inv
<1>1. CASE UNCHANGED vars
  BY <1>0, <1>1 DEF vars, Inv, TypeOK, CacheHoldsLive, AtMostOnceWhileLive
<1>2. CASE Tick
  <2>1. TypeOK'
    BY <1>0, <1>2, AcceptedTypes DEF Tick, TypeOK
  <2>2. CacheHoldsLive'
    BY <1>0, <1>2, AcceptedTypes DEF Tick, TypeOK, CacheHoldsLive
  <2>3. AtMostOnceWhileLive'
    BY <1>0, <1>2 DEF Tick, AtMostOnceWhileLive
  <2> QED BY <1>0, <1>2, <2>1, <2>2, <2>3 DEF Tick, Inv
<1>3. ASSUME NEW t \in Threads, Enter(t) PROVE Inv'
  <2>1. TypeOK'
    BY <1>0, <1>3 DEF Enter, TypeOK
  <2> QED BY <1>0, <1>3, <2>1
          DEF Enter, Inv, CacheHoldsLive, AtMostOnceWhileLive
<1>4. ASSUME NEW t \in Threads, Refuse(t) \/ RefuseNoJti(t) PROVE Inv'
  <2>1. TypeOK'
    BY <1>0, <1>4 DEF Refuse, RefuseNoJti, Return, TypeOK
  <2> QED BY <1>0, <1>4, <2>1
          DEF Refuse, RefuseNoJti, Inv, CacheHoldsLive, AtMostOnceWhileLive
<1>5. ASSUME NEW t \in Threads, Replayed(t) PROVE Inv'
  <2> DEFINE live == Evict(entries, call[t].now)
  <2>1. call[t].now \in Int /\ call[t].now <= clock
    BY <1>0 DEF TypeOK
  <2>2. /\ DOMAIN live \subseteq DOMAIN entries
        /\ live \in [DOMAIN live -> Int]
        /\ IsFiniteSet(DOMAIN live)
        /\ Cardinality(DOMAIN live) <= MaxEntries
        /\ \A j \in DOMAIN entries :
               entries[j] > call[t].now => j \in DOMAIN live /\ live[j] = entries[j]
    BY <1>0, <2>1, EvictKeeps DEF CacheHoldsLive, TypeOK
  <2>3. entries' = live /\ UNCHANGED <<clock, accepted>> /\ Return(t, "REPLAY_DETECTED")
    BY <1>5 DEF Replayed
  <2> HIDE DEF live
  <2>4. TypeOK'
    BY <1>0, <2>2, <2>3 DEF TypeOK, Return
  <2>5. CacheHoldsLive'
    BY <1>0, <2>1, <2>2, <2>3, AcceptedTypes DEF CacheHoldsLive, TypeOK
  <2> QED BY <1>0, <2>2, <2>3, <2>4, <2>5 DEF Inv, AtMostOnceWhileLive
<1>6. ASSUME NEW t \in Threads, Accept(t) PROVE Inv'
  <2> DEFINE live == Evict(entries, call[t].now)
             jti == Claims(t).jti
             exp == Claims(t).exp
             new == [jti |-> jti, exp |-> exp, what |-> call[t].what,
                     now |-> call[t].now, at |-> clock]
  <2>1. call[t].now \in 0 .. MaxClock /\ call[t].now <= clock /\ clock \in 0 .. MaxClock
    BY <1>0 DEF TypeOK
  <2>2. /\ DOMAIN live \subseteq DOMAIN entries
        /\ live \in [DOMAIN live -> Int]
        /\ IsFiniteSet(DOMAIN live)
        /\ Cardinality(DOMAIN live) \in Nat
        /\ \A j \in DOMAIN entries :
               entries[j] > call[t].now => j \in DOMAIN live /\ live[j] = entries[j]
    BY <1>0, <2>1, EvictKeeps DEF CacheHoldsLive, TypeOK
  <2>3. exp \in Int /\ jti \in Jtis /\ call[t].what \in Presentations
    BY <1>0, <1>6, ClaimsUsable DEF Accept
  <2>4. jti \notin DOMAIN live /\ Cardinality(DOMAIN live) < MaxEntries
    BY <1>6 DEF Accept, CanRecord
  <2>5. /\ entries' = Recorded(live, jti, exp)
        /\ accepted' = Append(accepted, new)
        /\ Return(t, "OK")
        /\ UNCHANGED clock
    BY <1>6 DEF Accept
  <2> HIDE DEF live, jti, exp
  <2>6. new \in Acceptance
    BY <2>1, <2>3 DEF Acceptance
  <2>7. /\ accepted' \in Seq(Acceptance)
        /\ Len(accepted') = Len(accepted) + 1
        /\ \A i \in 1 .. Len(accepted) : accepted'[i] = accepted[i]
        /\ accepted'[Len(accepted) + 1] = new
        /\ DOMAIN accepted' = 1 .. Len(accepted) + 1
        /\ DOMAIN accepted = 1 .. Len(accepted)
        /\ Len(accepted) \in Nat
    <3> HIDE DEF new
    <3> QED BY <1>0, <2>5, <2>6 DEF TypeOK
  <2>8. /\ DOMAIN entries' = DOMAIN live \cup {jti}
        /\ entries'[jti] = exp
        /\ \A j \in DOMAIN live : entries'[j] = live[j]
        /\ entries' \in [DOMAIN entries' -> Int]
        /\ IsFiniteSet(DOMAIN entries') /\ Cardinality(DOMAIN entries') <= MaxEntries
    <3>1. /\ IsFiniteSet(DOMAIN live \cup {jti})
          /\ Cardinality(DOMAIN live \cup {jti}) = Cardinality(DOMAIN live) + 1
      BY <2>2, <2>4, FS_AddElement
    <3>2. /\ DOMAIN entries' = DOMAIN live \cup {jti}
          /\ entries'[jti] = exp
          /\ \A j \in DOMAIN live : entries'[j] = live[j]
          /\ entries' \in [DOMAIN entries' -> Int]
      BY <2>2, <2>3, <2>4, <2>5 DEF Recorded
    <3> QED BY <2>2, <2>4, <3>1, <3>2
  <2>9. TypeOK'
    <3>1. \A i \in DOMAIN accepted' :
              accepted'[i].now <= accepted'[i].at /\ accepted'[i].at <= clock'
      BY <1>0, <2>1, <2>5, <2>7 DEF TypeOK
    <3>2. DOMAIN entries' \subseteq Jtis
      BY <1>0, <2>2, <2>3, <2>8 DEF TypeOK
    <3> QED BY <1>0, <2>5, <2>7, <2>8, <3>1, <3>2 DEF TypeOK, Return
  \* A live acceptance is still in the cache after the eviction.
  <2>10. \A i \in DOMAIN accepted : accepted[i].exp > clock =>
             /\ accepted[i].jti \in DOMAIN live
             /\ live[accepted[i].jti] = accepted[i].exp
    BY <1>0, <2>1, <2>2, AcceptedTypes DEF CacheHoldsLive, TypeOK
  <2>11. CacheHoldsLive'
    <3>1. ASSUME NEW i \in DOMAIN accepted', accepted'[i].exp > clock'
          PROVE  /\ accepted'[i].jti \in DOMAIN entries'
                 /\ entries'[accepted'[i].jti] = accepted'[i].exp
      <4>1. CASE i = Len(accepted) + 1
        BY <4>1, <2>7, <2>8
      <4>2. CASE i \in DOMAIN accepted
        BY <4>2, <3>1, <2>5, <2>7, <2>8, <2>10
      <4> QED BY <4>1, <4>2, <2>7
    <3> QED BY <3>1, <2>8 DEF CacheHoldsLive
  \* So a live jti cannot be recorded again.
  <2>12. AtMostOnceWhileLive'
    <3>1. ASSUME NEW i \in DOMAIN accepted', NEW j \in DOMAIN accepted',
                 i < j, accepted'[i].jti = accepted'[j].jti
          PROVE  accepted'[i].exp <= accepted'[j].at
      <4>1. CASE j = Len(accepted) + 1
        <5>1. i \in DOMAIN accepted /\ accepted'[i] = accepted[i]
          BY <3>1, <4>1, <2>7
        <5>2. accepted[i].jti \notin DOMAIN live
          BY <3>1, <4>1, <5>1, <2>4, <2>7
        <5>3. ~(accepted[i].exp > clock)
          BY <5>1, <5>2, <2>10
        <5>4. accepted[i].exp \in Int
          BY <1>0, <5>1, AcceptedTypes
        <5> QED BY <4>1, <5>1, <5>3, <5>4, <2>1, <2>7
      <4>2. CASE j \in DOMAIN accepted
        BY <1>0, <3>1, <4>2, <2>7 DEF AtMostOnceWhileLive
      <4> QED BY <4>1, <4>2, <2>7
    <3> QED BY <3>1 DEF AtMostOnceWhileLive
  <2> QED BY <2>8, <2>9, <2>11, <2>12 DEF Inv
<1> QED BY <1>1, <1>2, <1>3, <1>4, <1>5, <1>6 DEF Next

(***************************************************************************)
(* The verifier's state keeps its types.                                   *)
(***************************************************************************)
THEOREM VerifierTypes == Spec => []TypeOK
<1>1. Inv => TypeOK
  BY DEF Inv
<1> QED BY InitInv, StepInv, <1>1, PTL DEF Spec

(***************************************************************************)
(* The replay cache never loses a live jti nor exceeds max_entries.        *)
(***************************************************************************)
THEOREM CacheIsSound == Spec => []CacheHoldsLive
<1>1. Inv => CacheHoldsLive
  BY DEF Inv
<1> QED BY InitInv, StepInv, <1>1, PTL DEF Spec

(***************************************************************************)
(* verify() accepts a jti at most once while it is live, for any number of *)
(* threads stalling anywhere between sampling the time and the lock.       *)
(***************************************************************************)
THEOREM ReplayProtection == Spec => []AtMostOnceWhileLive
<1>1. Inv => AtMostOnceWhileLive
  BY DEF Inv
<1> QED BY InitInv, StepInv, <1>1, PTL DEF Spec

-----------------------------------------------------------------------------
(* Refusals *)

(***************************************************************************)
(* What the cache refuses for is in the history: an entry is an acceptance *)
(* of its jti, with the expiry recorded for it.                            *)
(***************************************************************************)
EntriesAccepted ==
    \A j \in DOMAIN entries : \E i \in DOMAIN accepted :
        accepted[i].jti = j /\ accepted[i].exp = entries[j]

CauseInv == EntriesAccepted /\ ReplayHasCause

\* What an eviction leaves was there, and has not expired.
LEMMA EvictedLive ==
    ASSUME NEW cache, NEW now, NEW j \in DOMAIN Evict(cache, now)
    PROVE  /\ j \in DOMAIN cache
           /\ Evict(cache, now)[j] = cache[j]
           /\ cache[j] > now
BY DEF Evict

\* The history is only added to.
Grows == \A i \in DOMAIN accepted : i \in DOMAIN accepted' /\ accepted'[i] = accepted[i]

\* The jtis of the members of a list picked by a bound are finitely many.
LEMMA LiveFinite ==
    ASSUME NEW log, NEW len \in Nat, DOMAIN log = 1 .. len, NEW n
    PROVE  LET live == {log[i].jti : i \in {k \in DOMAIN log : log[k].exp > n}}
           IN  IsFiniteSet(live) /\ Cardinality(live) \in Nat
<1> DEFINE K == {k \in DOMAIN log : log[k].exp > n}
           live == {log[i].jti : i \in K}
           f == [i \in K |-> log[i].jti]
<1>1. IsFiniteSet(K)
  <2>1. K \in SUBSET (1 .. len)
    OBVIOUS
  <2>2. IsFiniteSet(1 .. len)
    BY FS_Interval
  <2> HIDE DEF K
  <2> QED BY <2>1, <2>2, FS_Subset
<1>2. f \in Surjection(K, live)
  BY DEF Surjection
<1>3. IsFiniteSet(live)
  <2> HIDE DEF K, f, live
  <2> QED BY <1>1, <1>2, FS_Surjection
<1> QED BY <1>3, FS_CardinalityType

LEMMA LiveGrows ==
    ASSUME TypeOK, TypeOK', Grows, NEW n
    PROVE  /\ LiveAt(n) \subseteq LiveAt(n)'
           /\ Cardinality(LiveAt(n)) >= MaxEntries =>
                  Cardinality(LiveAt(n)') >= MaxEntries
<1>1. LiveAt(n) \subseteq LiveAt(n)'
  BY DEF LiveAt, Grows
<1>2. Cardinality(LiveAt(n)) \in Nat
  <2>1. DOMAIN accepted = 1 .. Len(accepted) /\ Len(accepted) \in Nat
    BY AcceptedTypes
  <2> QED BY <2>1, LiveFinite DEF LiveAt
<1>3. IsFiniteSet(LiveAt(n)') /\ Cardinality(LiveAt(n)') \in Nat
  <2>1. DOMAIN accepted' = 1 .. Len(accepted') /\ Len(accepted') \in Nat
    <3>1. accepted' \in Seq(Acceptance')
      BY DEF TypeOK
    <3> HIDE DEF Acceptance
    <3> QED BY <3>1
  <2>2. PICK log : log = accepted'
    OBVIOUS
  <2>3. PICK len : len = Len(log)
    OBVIOUS
  <2> QED BY <2>1, <2>2, <2>3, LiveFinite DEF LiveAt
<1>4. Cardinality(LiveAt(n)) <= Cardinality(LiveAt(n)')
  BY <1>1, <1>3, FS_Subset
<1> QED BY <1>1, <1>2, <1>3, <1>4, VerifierBounds

LEMMA InitCause == Init => CauseInv
BY FaultAssumption DEF Init, Idle, CauseInv, EntriesAccepted, ReplayHasCause

\* The causes of the threads that do not move stay.
LEMMA CausesStay ==
    ASSUME TypeOK, TypeOK', Grows, ReplayHasCause, NEW t \in Threads,
           call[t]' = call[t], call[t].fault = "REPLAY_DETECTED"
    PROVE  \/ Claims(t)'.jti \in LiveAt(call[t].now)'
           \/ Cardinality(LiveAt(call[t].now)') >= MaxEntries
<1>1. PICK n : n = call[t].now
  OBVIOUS
<1>2. PICK j : j = Claims(t).jti
  OBVIOUS
<1>3. j \in LiveAt(n) \/ Cardinality(LiveAt(n)) >= MaxEntries
  BY <1>1, <1>2 DEF ReplayHasCause
<1>4. j \in LiveAt(n)' \/ Cardinality(LiveAt(n)') >= MaxEntries
  BY <1>3, LiveGrows
<1>5. Claims(t)'.jti = j /\ call[t]'.now = n
  BY <1>1, <1>2 DEF Claims
<1> QED BY <1>4, <1>5 DEF LiveAt

LEMMA StepCause == Inv /\ CauseInv /\ [Next]_vars => CauseInv'
<1> SUFFICES ASSUME Inv, CauseInv, [Next]_vars PROVE CauseInv'
  OBVIOUS
<1>0. TypeOK /\ TypeOK' /\ EntriesAccepted /\ ReplayHasCause
  BY StepInv DEF Inv, CauseInv
<1>1. CASE UNCHANGED vars
  BY <1>0, <1>1 DEF vars, CauseInv, EntriesAccepted, ReplayHasCause, Claims, LiveAt
<1>2. CASE Tick
  BY <1>0, <1>2 DEF Tick, CauseInv, EntriesAccepted, ReplayHasCause, Claims, LiveAt
<1>3. ASSUME NEW t \in Threads, UNCHANGED <<entries, accepted>>,
             DOMAIN call' = DOMAIN call,
             \A u \in Threads \ {t} : call'[u] = call[u],
             call'[t].fault # "REPLAY_DETECTED"
      PROVE  CauseInv'
  BY <1>0, <1>3 DEF CauseInv, EntriesAccepted, ReplayHasCause, Claims, LiveAt
<1>4. ASSUME NEW t \in Threads, Enter(t) PROVE CauseInv'
  <2>1. call'[t].fault = NONE /\ \A u \in Threads \ {t} : call'[u] = call[u]
    BY <1>0, <1>4 DEF Enter, TypeOK
  <2> QED BY <1>0, <1>3, <1>4, <2>1, FaultAssumption DEF Enter, TypeOK
<1>5. ASSUME NEW t \in Threads, Refuse(t) PROVE CauseInv'
  <2>1. Checks(t) # "REPLAY_DETECTED"
    <3>1. call[t].what \in Presentations /\ call[t].now \in 0 .. MaxClock
      BY <1>0, <1>5, VerifierBounds DEF Refuse, TypeOK
    <3> QED BY <3>1, NoReplayBeforeCache DEF Checks, Verdict
  <2>2. call'[t].fault = Checks(t) /\ \A u \in Threads \ {t} : call'[u] = call[u]
    BY <1>0, <1>5 DEF Refuse, Return, TypeOK
  <2> QED BY <1>0, <1>3, <1>5, <2>1, <2>2 DEF Refuse, TypeOK
<1>6. ASSUME NEW t \in Threads, RefuseNoJti(t) PROVE CauseInv'
  <2>1. call'[t].fault = "JTI_MISSING" /\ \A u \in Threads \ {t} : call'[u] = call[u]
    BY <1>0, <1>6 DEF RefuseNoJti, Return, TypeOK
  <2> QED BY <1>0, <1>3, <1>6, <2>1 DEF RefuseNoJti, TypeOK
<1>7. ASSUME NEW t \in Threads, Replayed(t) PROVE CauseInv'
  <2>1. PICK live : live = Evict(entries, call[t].now)
    OBVIOUS
  <2>2. PICK n : n = call[t].now
    OBVIOUS
  <2>3. PICK jti : jti = Claims(t).jti
    OBVIOUS
  <2>4. /\ entries' = live /\ accepted' = accepted
        /\ ~CanRecord(live, jti, MaxEntries)
        /\ call' = [call EXCEPT ![t] = [pc |-> "idle", what |-> call[t].what,
                            now |-> call[t].now, fault |-> "REPLAY_DETECTED"]]
    BY <1>7, <2>1, <2>3 DEF Replayed, Return
  <2>5. \A j \in DOMAIN live :
            j \in DOMAIN entries /\ live[j] = entries[j] /\ entries[j] > n
    BY <2>1, <2>2, EvictedLive
  <2>6. EntriesAccepted'
    BY <1>0, <2>4, <2>5 DEF EntriesAccepted
  \* What survives the eviction is an unexpired acceptance, so if the cache
  \* is full there are as many of them.
  <2>7. DOMAIN live \subseteq LiveAt(n)
    <3> SUFFICES ASSUME NEW j \in DOMAIN live PROVE j \in LiveAt(n)
      OBVIOUS
    <3>1. PICK i \in DOMAIN accepted : accepted[i].jti = j /\ accepted[i].exp = entries[j]
      BY <1>0, <2>5 DEF EntriesAccepted
    <3> QED BY <2>5, <3>1 DEF LiveAt
  <2>8. jti \in LiveAt(n) \/ Cardinality(LiveAt(n)) >= MaxEntries
    <3>1. CASE jti \in DOMAIN live
      BY <2>7, <3>1
    <3>2. CASE ~(Cardinality(DOMAIN live) < MaxEntries)
      <4>1. IsFiniteSet(LiveAt(n)) /\ Cardinality(LiveAt(n)) \in Nat
        <5>1. DOMAIN accepted = 1 .. Len(accepted) /\ Len(accepted) \in Nat
          BY <1>0, AcceptedTypes
        <5> QED BY <5>1, LiveFinite DEF LiveAt
      <4>2. /\ IsFiniteSet(DOMAIN live)
            /\ Cardinality(DOMAIN live) <= Cardinality(LiveAt(n))
        BY <2>7, <4>1, FS_Subset
      <4>3. Cardinality(DOMAIN live) \in Nat
        BY <4>2, FS_CardinalityType
      <4> QED BY <3>2, <4>1, <4>2, <4>3, VerifierBounds
    <3> QED BY <2>4, <3>1, <3>2 DEF CanRecord
  <2>9. ReplayHasCause'
    <3> SUFFICES ASSUME NEW u \in Threads, call'[u].fault = "REPLAY_DETECTED"
                 PROVE  \/ Claims(u)'.jti \in LiveAt(call[u].now)'
                        \/ Cardinality(LiveAt(call[u].now)') >= MaxEntries
      BY DEF ReplayHasCause
    <3>1. CASE u = t
      <4>1. Claims(u)'.jti = jti /\ call'[u].now = n
        BY <1>0, <2>2, <2>3, <2>4, <3>1 DEF Claims, TypeOK
      <4> QED BY <2>4, <2>8, <4>1 DEF LiveAt
    <3>2. CASE u # t
      <4>1. call[u]' = call[u] /\ Grows
        BY <1>0, <2>4, <3>2 DEF TypeOK, Grows
      <4> QED BY <1>0, <4>1, CausesStay
    <3> QED BY <3>1, <3>2
  <2> QED BY <2>6, <2>9 DEF CauseInv
<1>8. ASSUME NEW t \in Threads, Accept(t) PROVE CauseInv'
  <2>1. PICK live : live = Evict(entries, call[t].now)
    OBVIOUS
  <2>2. PICK new : new = [jti |-> Claims(t).jti, exp |-> Claims(t).exp,
                          what |-> call[t].what, now |-> call[t].now, at |-> clock]
    OBVIOUS
  <2>3. /\ entries' = Recorded(live, new.jti, new.exp)
        /\ accepted' = Append(accepted, new)
        /\ call'[t].fault = "OK"
        /\ \A u \in Threads \ {t} : call'[u] = call[u]
    BY <1>0, <1>8, <2>1, <2>2 DEF Accept, Return, TypeOK
  <2>4. /\ Len(accepted) \in Nat
        /\ DOMAIN accepted' = 1 .. Len(accepted) + 1
        /\ DOMAIN accepted = 1 .. Len(accepted)
        /\ \A i \in 1 .. Len(accepted) : accepted'[i] = accepted[i]
        /\ accepted'[Len(accepted) + 1] = new
    <3>1. accepted \in Seq(Acceptance)
      BY <1>0 DEF TypeOK
    <3> HIDE DEF Acceptance
    <3> QED BY <2>3, <3>1
  <2>5. EntriesAccepted'
    <3> SUFFICES ASSUME NEW j \in DOMAIN entries'
                 PROVE  \E i \in DOMAIN accepted' :
                            accepted'[i].jti = j /\ accepted'[i].exp = entries'[j]
      BY DEF EntriesAccepted
    <3>1. CASE j = new.jti
      <4>1. entries'[j] = new.exp
        BY <2>3, <3>1 DEF Recorded
      <4> QED BY <2>4, <3>1, <4>1
    <3>2. CASE j # new.jti
      <4>1. j \in DOMAIN live /\ entries'[j] = live[j]
        BY <2>3, <3>2 DEF Recorded
      <4>2. j \in DOMAIN entries /\ live[j] = entries[j]
        BY <2>1, <4>1, EvictedLive
      <4>3. PICK i \in DOMAIN accepted :
                accepted[i].jti = j /\ accepted[i].exp = entries[j]
        BY <1>0, <4>2 DEF EntriesAccepted
      <4> QED BY <2>4, <4>1, <4>2, <4>3
    <3> QED BY <3>1, <3>2
  <2>6. Grows
    BY <2>4 DEF Grows
  <2>7. ReplayHasCause'
    <3> SUFFICES ASSUME NEW u \in Threads, call'[u].fault = "REPLAY_DETECTED"
                 PROVE  \/ Claims(u)'.jti \in LiveAt(call[u].now)'
                        \/ Cardinality(LiveAt(call[u].now)') >= MaxEntries
      BY DEF ReplayHasCause
    <3>1. u # t /\ call[u]' = call[u]
      BY <2>3
    <3> QED BY <1>0, <2>6, <3>1, CausesStay
  <2> QED BY <2>5, <2>7 DEF CauseInv
<1> QED BY <1>1, <1>2, <1>4, <1>5, <1>6, <1>7, <1>8 DEF Next

(***************************************************************************)
(* verify() answers REPLAY_DETECTED only for a jti it had accepted and     *)
(* that had not expired at the time it sampled, or because the cache held  *)
(* max_entries of those: no thread's late eviction invents a replay.       *)
(***************************************************************************)
THEOREM RefusalsHaveCause == Spec => []ReplayHasCause
<1>1. CauseInv => ReplayHasCause
  BY DEF CauseInv
<1> QED BY InitInv, StepInv, InitCause, StepCause, <1>1, PTL DEF Spec

-----------------------------------------------------------------------------
(* Refinement of SingleUse *)

\* The log of SingleUse, as Promise's substitution writes it.
Log == [i \in DOMAIN accepted |->
           [id |-> accepted[i].jti, until |-> accepted[i].exp]]

\* SingleUse takes Cardinality from its own instance of FiniteSets.
LEMMA SameCardinality == \A S : Promise!Cardinality(S) = Cardinality(S)
BY DEF Promise!Cardinality, Cardinality

LEMMA InitPromise == Init => Promise!Init
BY DEF Init, Promise!Init

LEMMA StepPromise == Inv /\ [Next]_vars => [Promise!Next]_<<clock, Log>>
<1> SUFFICES ASSUME Inv, [Next]_vars PROVE [Promise!Next]_<<clock, Log>>
  OBVIOUS
<1>0. TypeOK /\ IsFiniteSet(DOMAIN entries) /\ CacheHoldsLive
  BY DEF Inv
<1>1. CASE UNCHANGED vars
  BY <1>1 DEF vars, Log
<1>2. CASE Tick
  <2>1. clock' > clock /\ Log' = Log
    BY <1>0, <1>2 DEF Tick, Log, TypeOK
  <2> QED BY <2>1 DEF Promise!Next, Promise!Pass, Log
<1>3. ASSUME NEW t \in Threads,
             Enter(t) \/ Refuse(t) \/ RefuseNoJti(t) \/ Replayed(t)
      PROVE  UNCHANGED <<clock, Log>>
  BY <1>3 DEF Enter, Refuse, RefuseNoJti, Replayed, Log
<1>4. ASSUME NEW t \in Threads, Accept(t) PROVE Promise!Next
  <2> DEFINE live == Evict(entries, call[t].now)
             use  == [id |-> Claims(t).jti, until |-> Claims(t).exp]
  <2>1. call[t].now \in Int /\ call[t].now <= clock /\ clock \in Int
    BY <1>0 DEF TypeOK
  <2>2. /\ IsFiniteSet(DOMAIN live)
        /\ Cardinality(DOMAIN live) \in Nat
        /\ \A j \in DOMAIN entries :
               entries[j] > call[t].now => j \in DOMAIN live
    BY <1>0, <2>1, EvictKeeps, VerifierBounds DEF CacheHoldsLive, TypeOK
  <2>3. use.id \notin DOMAIN live /\ Cardinality(DOMAIN live) < MaxEntries
    BY <1>4 DEF Accept, CanRecord
  \* What is live in the abstract log has survived the eviction.
  <2>4. Promise!Live \subseteq DOMAIN live
    <3> SUFFICES ASSUME NEW i \in DOMAIN accepted, accepted[i].exp > clock
                 PROVE  accepted[i].jti \in DOMAIN live
      BY DEF Promise!Live
    <3>1. accepted[i].jti \in DOMAIN entries /\ entries[accepted[i].jti] > clock
      BY <1>0 DEF CacheHoldsLive
    <3>2. entries[accepted[i].jti] \in Int
      BY <1>0, <3>1 DEF TypeOK
    <3> QED BY <2>1, <2>2, <3>1, <3>2
  <2>5. Cardinality(Promise!Live) < MaxEntries
    <3>1. /\ IsFiniteSet(Promise!Live)
          /\ Cardinality(Promise!Live) <= Cardinality(DOMAIN live)
      BY <2>2, <2>4, FS_Subset
    <3>2. Cardinality(Promise!Live) \in Nat
      BY <3>1, FS_CardinalityType
    <3> QED BY <2>2, <2>3, <3>1, <3>2, VerifierBounds
  <2>6. Log' = Append(Log, use) /\ clock' = clock
    <3>1. /\ accepted' = Append(accepted,
                   [jti |-> Claims(t).jti, exp |-> Claims(t).exp,
                    what |-> call[t].what, now |-> call[t].now, at |-> clock])
          /\ clock' = clock
      BY <1>4 DEF Accept
    <3>2. accepted \in Seq(Acceptance)
      BY <1>0 DEF TypeOK
    <3>3. /\ Len(accepted) \in Nat /\ DOMAIN accepted = 1 .. Len(accepted)
          /\ DOMAIN accepted' = 1 .. Len(accepted) + 1
          /\ \A i \in 1 .. Len(accepted) : accepted'[i] = accepted[i]
          /\ accepted'[Len(accepted) + 1].jti = Claims(t).jti
          /\ accepted'[Len(accepted) + 1].exp = Claims(t).exp
      <4> HIDE DEF Acceptance
      <4> QED BY <3>1, <3>2
    <3>4. Log \in Seq({Log[i] : i \in DOMAIN accepted}) /\ Len(Log) = Len(accepted)
      BY <3>3 DEF Log
    <3>5. DOMAIN Append(Log, use) = 1 .. Len(accepted) + 1
      BY <3>3, <3>4
    <3>6. ASSUME NEW i \in 1 .. Len(accepted) + 1
          PROVE  Log'[i] = Append(Log, use)[i]
      <4>1. CASE i = Len(accepted) + 1
        BY <4>1, <3>3, <3>4 DEF Log
      <4>2. CASE i \in 1 .. Len(accepted)
        BY <4>2, <3>3, <3>4 DEF Log
      <4>3. i = Len(accepted) + 1 \/ i \in 1 .. Len(accepted)
        BY <3>3
      <4> QED BY <4>1, <4>2, <4>3
    <3> QED BY <3>1, <3>3, <3>5, <3>6 DEF Log
  <2>7. Claims(t) \in PresentedClaims
    BY <1>0, <1>4, ClaimsUsable DEF Accept
  \* The use as a value: Grant speaks of two states.
  <2>8. PICK u \in {[id |-> c.jti, until |-> c.exp] : c \in PresentedClaims} :
            u = use
    BY <2>7
  <2> HIDE DEF use
  <2>9. Promise!Grant(u)
    <3>1. u.id \notin Promise!Live
      BY <2>3, <2>4, <2>8
    <3>2. Promise!Cardinality(Promise!Live) < MaxEntries
      BY <2>5, SameCardinality
    <3> QED BY <3>1, <3>2, <2>6, <2>8 DEF Promise!Grant, Log
  <2> QED BY <2>8, <2>9 DEF Promise!Next
<1> QED BY <1>1, <1>2, <1>3, <1>4 DEF Next

(***************************************************************************)
(* verify() with its replay cache implements SingleUse: however threads    *)
(* stall and evictions are put off, acceptances are uses granted one at a  *)
(* time against what is live on the real clock.                            *)
(***************************************************************************)
THEOREM VerifierImplementsSingleUse == Spec => ImplementsSingleUse
<1> QED BY InitInv, StepInv, InitPromise, StepPromise, PTL
        DEF Spec, ImplementsSingleUse, Promise!Spec, Log
=============================================================================
