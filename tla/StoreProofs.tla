---------------------------- MODULE StoreProofs ----------------------------
(***************************************************************************)
(* Proofs about StateStore, for any number of threads, keys, grants and    *)
(* calls.                                                                  *)
(***************************************************************************)
EXTENDS StateStore, AuthorityProofs

-----------------------------------------------------------------------------
(* The decisions of the runtime and of the store *)

\* The grant for a namespace is one of the GCO's permissions.
LEMMA GrantIsPermission ==
    ASSUME NEW g \in Subjects, NEW namespace
    PROVE  \/ PermissionFor(g, namespace) = NONE
           \/ PermissionFor(g, namespace) \in StatePermission
BY SubjectsAssumption, FirstMatchFinds DEF PermissionFor

\* No permission and no taint is the sentinel.
LEMMA PermissionIsSome == \A p \in StatePermission : p # NONE
BY SentinelAssumption

LEMMA TaintIsSome == \A t \in Taints : t # NONE
BY SentinelAssumption

\* What _subject_for_write_mode makes of the grant: of the same place in the
\* list, an append.
LEMMA AppendSubject ==
    ASSUME NEW g \in Subjects, NEW namespace
    PROVE  LET perm == PermissionFor(g, namespace)
               sub  == PermissionFor(
                         SubjectForWriteMode(g, namespace, "append"), namespace)
           IN  /\ perm = NONE => sub = NONE
               /\ perm # NONE => sub # NONE /\ sub.access_mode = "append"
<1> DEFINE list == g.state_access_permissions
           sub  == SubjectForWriteMode(g, namespace, "append")
           made == sub.state_access_permissions
           I == {i \in 1 .. Len(list) : list[i].namespace = namespace}
<1>1. list \in Seq(StatePermission)
  BY SubjectsAssumption
<1>2. made = [i \in DOMAIN list |-> IF list[i].namespace = namespace
                                    THEN [list[i] EXCEPT !.access_mode = "append"]
                                    ELSE list[i]]
  BY SubjectsAssumption DEF SubjectForWriteMode
<1> HIDE DEF list, sub
<1>3. DOMAIN list = 1 .. Len(list) /\ Len(list) \in Nat
  BY <1>1
<1>4. \A i \in 1 .. Len(list) : list[i] \in StatePermission
  BY <1>1
<1>5. made \in Seq(StatePermission) /\ Len(made) = Len(list)
  <2>1. made \in [1 .. Len(list) -> StatePermission]
    BY <1>2, <1>3, <1>4 DEF StatePermission, Modes
  <2> HIDE DEF made
  <2> QED BY <1>3, <2>1
<1>6. \A i \in 1 .. Len(list) : /\ made[i].namespace = list[i].namespace
                                /\ i \in I => made[i].access_mode = "append"
  BY <1>2, <1>3, <1>4 DEF StatePermission
<1> HIDE DEF made
<1>7. {i \in 1 .. Len(made) : made[i].namespace = namespace} = I
  BY <1>5, <1>6
<1>8. I \subseteq 1 .. Len(list) /\ I \subseteq Nat
  BY <1>3
<1>9. /\ PermissionFor(g, namespace) =
             IF I # {} THEN (IF Min(I) = 0 THEN NONE ELSE list[Min(I)]) ELSE NONE
      /\ PermissionFor(sub, namespace) =
             IF I # {} THEN (IF Min(I) = 0 THEN NONE ELSE made[Min(I)]) ELSE NONE
  BY <1>7 DEF PermissionFor, FirstMatch, SelectInSeq, list, made
<1> HIDE DEF I
<1>10. CASE I = {}
  BY <1>9, <1>10 DEF sub
<1>11. CASE I # {}
  <2>1. PICK m : m = Min(I)
    OBVIOUS
  <2>2. m \in I
    BY <1>8, <1>11, <2>1, MinInSet
  <2>3. m \in 1 .. Len(list) /\ m # 0
    BY <1>3, <1>8, <2>2
  <2>4. list[m] \in StatePermission /\ made[m] \in StatePermission
    BY <1>4, <1>5, <2>3
  <2> QED BY <1>6, <1>9, <1>11, <2>1, <2>2, <2>3, <2>4, PermissionIsSome DEF sub
<1> QED BY <1>10, <1>11

\* A state access that is allowed has a grant whose mode allows it.
LEMMA AccessGranted ==
    ASSUME NEW g \in Subjects, NEW namespace, NEW mode,
           StateAccessFault(g, namespace, mode) = "OK"
    PROVE  /\ PermissionFor(g, namespace) \in StatePermission
           /\ mode \in Modes \ {"none"}
           /\ AccessAllows(PermissionFor(g, namespace).access_mode, mode)
BY GrantIsPermission DEF StateAccessFault, Check, PermissionFor

\* write_state lets a call through to its first assignment only as a write by a
\* write grant or for a key that has no value.
LEMMA WriteGranted ==
    ASSUME NEW g \in Subjects, NEW slot, NEW mode, WriteFault(g, slot, mode) = "OK"
    PROVE  LET perm == PermissionFor(g, slot[1])
           IN  /\ mode \in {"append", "write"} /\ perm \in StatePermission
               /\ \/ mode = "write" /\ perm.access_mode = "write"
                  \/ slot \notin DOMAIN values
<1> DEFINE perm == PermissionFor(g, slot[1])
           sub  == SubjectForWriteMode(g, slot[1], mode)
<1>1. mode \in {"append", "write"}
  BY DEF WriteFault
<1>2. StateAccessFault(g, slot[1], mode) = "OK" /\ StoreWriteFault(sub, slot) = "OK"
  BY FirstOfTwo DEF WriteFault
<1>3. perm \in StatePermission /\ AccessAllows(perm.access_mode, mode)
  BY <1>2, AccessGranted
<1>4. CASE mode = "write"
  <2>1. perm.access_mode \in Modes
    BY <1>3 DEF StatePermission
  <2>2. perm.access_mode = "write"
    BY <1>3, <1>4, <2>1 DEF AccessAllows, ACCESS_ALLOWANCES, Modes
  <2> QED BY <1>1, <1>3, <2>2, <1>4
<1>5. CASE mode = "append"
  <2>1. PermissionFor(sub, slot[1]) # NONE
    BY <1>2, <1>5 DEF StoreWriteFault
  <2>2. PermissionFor(sub, slot[1]).access_mode = "append"
    BY <1>5, <2>1, AppendSubject
  <2>3. Check(~(slot \in DOMAIN values), "AppendExists") = "OK"
    <3> HIDE DEF sub
    <3> QED BY <1>2, <2>1, <2>2 DEF StoreWriteFault
  <2> QED BY <1>1, <1>3, <2>3 DEF Check
<1> QED BY <1>1, <1>4, <1>5

\* A read that passes has found the taint readable under the reader's grant.
LEMMA ReadGranted ==
    ASSUME NEW g \in Subjects, NEW slot, ReadFault(g, slot) = "OK"
    PROVE  /\ PermissionFor(g, slot[1]) \in StatePermission
           /\ slot \in DOMAIN values /\ slot \in DOMAIN taints
           /\ TaintedReadFault(taints[slot], PermissionFor(g, slot[1]).taint_policy)
                  = "OK"
BY AccessGranted DEF ReadFault, StoreReadFault, PermissionFor

\* Reading is monotone: what is stored under a lower taint is readable too.
LEMMA LowerTaintReads ==
    ASSUME NEW low \in Taints, NEW high \in Taints, NEW policy \in Taints,
           Rank(low) <= Rank(high), TaintedReadFault(high, policy) = "OK"
    PROVE  TaintedReadFault(low, policy) = "OK"
<1>1. TAINT_RANK[high] <= TAINT_RANK["sanitized"]
  BY FirstOfTwo DEF TaintedReadFault, Check
<1>2. TAINT_RANK[high] <= TAINT_RANK[policy]
  BY FirstOfTwo DEF TaintedReadFault, Check
<1>3. \A t \in Taints : TAINT_RANK[t] \in Nat
  BY DEF Taints, TAINT_RANK
<1>4. TAINT_RANK["sanitized"] \in Nat
  BY DEF TAINT_RANK
<1>5. /\ TAINT_RANK[low] <= TAINT_RANK["sanitized"]
      /\ TAINT_RANK[low] <= TAINT_RANK[policy]
  BY <1>1, <1>2, <1>3, <1>4 DEF Rank
<1> QED BY <1>5, FirstOfTwo DEF TaintedReadFault, Check

-----------------------------------------------------------------------------
(***************************************************************************)
(* The inductive invariant.  UncontendedTaint and UncontendedReads speak of *)
(* completed calls; it adds what a call in progress on an uncontended slot *)
(* has seen and that it still holds.                                       *)
(***************************************************************************)
Writes == [mode : {"append", "write"}, by : StatePermission]

Calls == [pc : {"idle", "set_value", "get_taint", "set_taint", "get_value"},
          op : {NONE, "read", "write"}, slot : Slots \cup {NONE},
          mode : {NONE, "read", "append", "write"},
          grant : StatePermission \cup {NONE}, taint : Taints \cup {NONE},
          value : Writes \cup {NONE}]

\* What a call in progress carries.
CallFits(c) ==
    /\ c.pc \in {"set_value", "get_taint", "set_taint"} =>
           c.op = "write" /\ c.mode \in {"append", "write"}
    /\ c.pc = "get_value" => c.op = "read"

CallTypes ==
    /\ call \in [Threads -> Calls]
    /\ \A s \in DOMAIN values : values[s] \in Writes
    /\ \A t \in Threads : CallFits(call[t])

\* On an uncontended slot a write is alone.
WritesAlone ==
    \A t, u \in Threads :
        t # u /\ Busy(t) /\ Busy(u) /\ call[t].slot = call[u].slot
              /\ call[t].slot \notin contended
            => call[t].op # "write"

\* The taint it looked up is still the stored one.
TaintIsCurrent ==
    \A t \in Threads :
        call[t].pc = "set_taint" /\ call[t].slot \notin contended =>
            call[t].taint = IF call[t].slot \in DOMAIN taints
                            THEN taints[call[t].slot] ELSE NONE

\* The stored value is that of a completed write or of the one in progress.
ValueIsAccounted ==
    \A slot \in DOMAIN values \ contended :
        \/ values[slot].by.taint_policy \in written[slot]
        \/ \E t \in Threads : /\ call[t].pc \in {"get_taint", "set_taint"}
                             /\ call[t].slot = slot
                             /\ call[t].grant = values[slot].by

\* The append check still holds.
CheckIsCurrent ==
    \A t \in Threads :
        call[t].pc = "set_value" /\ call[t].slot \notin contended =>
            \/ call[t].mode = "write" /\ call[t].grant.access_mode = "write"
            \/ call[t].slot \notin DOMAIN values

\* A read in progress is about to return aligned data.
ReadIsAligned ==
    \A t \in Threads :
        call[t].pc = "get_value" /\ call[t].slot \notin contended =>
            TaintedReadFault(values[call[t].slot].by.taint_policy,
                             call[t].grant.taint_policy) = "OK"

Inv ==
    /\ TypeOK /\ CallTypes
    /\ WritesAlone /\ TaintIsCurrent /\ ValueIsAccounted /\ CheckIsCurrent
    /\ ReadIsAligned
    /\ UncontendedTaint /\ UncontendedReads

LEMMA InitInv == Init => Inv
<1> SUFFICES ASSUME Init PROVE Inv
  OBVIOUS
<1> USE DEF Init
<1>1. DOMAIN values = {} /\ DOMAIN taints = {}
  OBVIOUS
<1>2. \A t \in Threads : call[t] = Idle
  OBVIOUS
<1>3. TypeOK
  BY <1>1, <1>2, StoreBounds DEF TypeOK, Busy, Idle
<1>4. CallTypes
  BY <1>1, <1>2 DEF CallTypes, Calls, CallFits, Idle
<1>5. WritesAlone /\ TaintIsCurrent /\ CheckIsCurrent /\ ReadIsAligned
  BY <1>2 DEF WritesAlone, TaintIsCurrent, CheckIsCurrent, ReadIsAligned, Busy, Idle
<1>6. ValueIsAccounted
  BY <1>1 DEF ValueIsAccounted
<1>7. UncontendedTaint /\ UncontendedReads
  BY <1>2 DEF UncontendedTaint, NotLaundered, UncontendedReads, Idle
<1> QED BY <1>3, <1>4, <1>5, <1>6, <1>7 DEF Inv

\* After a call has entered a slot, a write there is alone or contends.
LEMMA EntryContends ==
    ASSUME CallTypes, WritesAlone, NEW t \in Threads, NEW op \in {"read", "write"},
           NEW g, NEW slot \in Slots, NEW mode, NEW pc, NEW taint, ~Busy(t),
           Started(t, op, g, slot, mode, pc, taint), pc # "idle"
    PROVE  /\ \A u \in Threads \ {t} : call'[u] = call[u]
           /\ call'[t] = [Idle EXCEPT !.pc = pc, !.op = op, !.slot = slot,
                           !.mode = mode, !.taint = taint,
                           !.grant = PermissionFor(g, slot[1])]
           /\ contended \subseteq contended'
           /\ WritesAlone'
<1>1. \A u \in Threads \ {t} : call'[u] = call[u]
  BY DEF Started, CallTypes
<1>2. call'[t] = [Idle EXCEPT !.pc = pc, !.op = op, !.slot = slot,
                           !.mode = mode, !.taint = taint,
                           !.grant = PermissionFor(g, slot[1])]
  BY DEF Started, CallTypes
<1>3. contended' = contended \cup Contends(t, op, slot)
  BY DEF Started
<1>4. call'[t].op = op /\ call'[t].slot = slot
  BY <1>2 DEF Idle
<1>5. ASSUME NEW u \in Threads \ {t}, Busy(u), call[u].slot = slot,
             slot \notin contended'
      PROVE  op # "write" /\ call[u].op # "write"
  BY <1>3, <1>5 DEF Contends
<1>6. WritesAlone'
  <2> SUFFICES ASSUME NEW u \in Threads, NEW v \in Threads, u # v,
                      Busy(u)', Busy(v)', call'[u].slot = call'[v].slot,
                      call'[u].slot \notin contended'
               PROVE  call'[u].op # "write"
    BY DEF WritesAlone
  <2>1. CASE u = t
    BY <1>1, <1>4, <1>5, <2>1 DEF Busy
  <2>2. CASE v = t
    BY <1>1, <1>4, <1>5, <2>2 DEF Busy
  <2>3. CASE u # t /\ v # t
    BY <1>1, <1>3, <2>3 DEF WritesAlone, Busy
  <2> QED BY <2>1, <2>2, <2>3
<1> QED BY <1>1, <1>2, <1>3, <1>6

\* Every step keeps the invariant: where no write overlapped, value and taint
\* of a slot stay aligned, and a pending call stays aligned with them.
LEMMA StepInv == Inv /\ [Next]_vars => Inv'
<1> SUFFICES ASSUME Inv, [Next]_vars PROVE Inv'
  OBVIOUS
<1>0. /\ TypeOK /\ CallTypes
      /\ WritesAlone /\ TaintIsCurrent /\ ValueIsAccounted /\ CheckIsCurrent
      /\ ReadIsAligned
      /\ UncontendedTaint /\ UncontendedReads
  BY DEF Inv
<1>1. CASE UNCHANGED vars
  <2>1. UNCHANGED <<values, taints, call, written, contended, calls>>
    BY <1>1 DEF vars
  <2>2. TypeOK' /\ CallTypes'
    BY <1>0, <2>1 DEF TypeOK, CallTypes, Busy
  <2>3. WritesAlone' /\ TaintIsCurrent' /\ ValueIsAccounted' /\ CheckIsCurrent'
    BY <1>0, <2>1 DEF WritesAlone, TaintIsCurrent, ValueIsAccounted,
       CheckIsCurrent, Busy
  <2>4. ReadIsAligned' /\ UncontendedTaint' /\ UncontendedReads'
    BY <1>0, <2>1 DEF ReadIsAligned, UncontendedTaint, NotLaundered,
       UncontendedReads, Aligned
  <2> QED BY <2>2, <2>3, <2>4 DEF Inv
<1>2. ASSUME NEW t \in Threads, BeginWrite(t) PROVE Inv'
  <2>1. PICK g \in Subjects, slot \in Slots, mode \in Requested :
            /\ ~Busy(t)
            /\ WriteFault(g, slot, mode) = "OK"
            /\ Started(t, "write", g, slot, mode, "set_value", NONE)
    BY <1>2 DEF BeginWrite
  <2> DEFINE perm == PermissionFor(g, slot[1])
  <2>2. /\ mode \in {"append", "write"} /\ perm \in StatePermission
        /\ \/ mode = "write" /\ perm.access_mode = "write"
           \/ slot \notin DOMAIN values
    BY <2>1, WriteGranted
  <2>3. /\ \A u \in Threads \ {t} : call'[u] = call[u]
        /\ call'[t] = [Idle EXCEPT !.pc = "set_value", !.op = "write",
                           !.slot = slot, !.mode = mode, !.taint = NONE,
                           !.grant = perm]
        /\ contended \subseteq contended'
        /\ WritesAlone'
    BY <1>0, <2>1, EntryContends
  <2> HIDE DEF perm
  <2>4. /\ UNCHANGED <<values, taints, written>>
        /\ contended' \subseteq Slots
        /\ calls' \in 0 .. MaxCalls
        /\ call' = [call EXCEPT ![t] = call'[t]]
        /\ DOMAIN call' = Threads
    BY <1>0, <2>1, StoreBounds DEF Started, Contends, TypeOK, CallTypes
  <2>5. /\ call'[t].pc = "set_value" /\ call'[t].op = "write"
        /\ call'[t].slot = slot /\ call'[t].mode = mode
        /\ call'[t].grant = perm /\ call'[t].value = NONE /\ call'[t].taint = NONE
    BY <2>3 DEF Idle
  <2>6. TypeOK'
    BY <1>0, <2>2, <2>3, <2>4, <2>5 DEF TypeOK, Busy
  <2>7. CallTypes'
    <3>1. call'[t] \in Calls
      BY <2>2, <2>3 DEF Idle, Calls
    <3>2. call' \in [Threads -> Calls]
      BY <1>0, <2>3, <2>4, <3>1 DEF CallTypes, Calls
    <3>3. \A u \in Threads : CallFits(call'[u])
      BY <1>0, <2>2, <2>3, <2>5 DEF CallTypes, CallFits
    <3> QED BY <1>0, <2>4, <3>2, <3>3 DEF CallTypes
  <2>8. TaintIsCurrent'
    BY <1>0, <2>3, <2>4, <2>5 DEF TaintIsCurrent
  <2>9. ValueIsAccounted'
    BY <1>0, <2>1, <2>3, <2>4 DEF ValueIsAccounted, Busy
  <2>10. CheckIsCurrent'
    BY <1>0, <2>2, <2>3, <2>4, <2>5 DEF CheckIsCurrent
  <2>11. ReadIsAligned'
    BY <1>0, <2>3, <2>4, <2>5 DEF ReadIsAligned
  <2>12. UncontendedTaint'
    BY <1>0, <2>3, <2>4 DEF UncontendedTaint, NotLaundered
  <2>13. UncontendedReads'
    BY <1>0, <2>3, <2>4, <2>5 DEF UncontendedReads, Aligned
  <2> QED BY <2>3, <2>6, <2>7, <2>8, <2>9, <2>10, <2>11, <2>12, <2>13
          DEF Inv
<1>3. ASSUME NEW t \in Threads, SetValue(t) PROVE Inv'
  <2> DEFINE slot == call[t].slot
             new  == Provenance(t)
  <2>1. /\ call[t].pc = "set_value" /\ values' = Put(values, slot, new)
        /\ call' = [call EXCEPT ![t].pc = "get_taint"]
        /\ UNCHANGED <<taints, written, contended, calls>>
    BY <1>3 DEF SetValue
  <2>2. /\ slot \in Slots /\ call[t].grant \in StatePermission
        /\ call[t].mode \in {"append", "write"} /\ call[t].op = "write"
        /\ call[t].taint \in Taints \cup {NONE}
    BY <1>0, <2>1 DEF TypeOK, Busy, CallTypes, CallFits
  <2>3. /\ \A u \in Threads \ {t} : call'[u] = call[u]
        /\ call'[t] = [call[t] EXCEPT !.pc = "get_taint"]
        /\ DOMAIN call' = Threads
    BY <1>0, <2>1 DEF CallTypes, Calls
  <2>4. /\ DOMAIN values' = DOMAIN values \cup {slot}
        /\ values'[slot] = new
        /\ \A s \in DOMAIN values \ {slot} : values'[s] = values[s]
    BY <2>1 DEF Put
  <2>5. new \in Writes /\ new.by = call[t].grant /\ WriteOK(new)
    BY <2>2 DEF Provenance, Writes, WriteOK
  <2>6. \A u \in Threads : /\ call'[u].slot = call[u].slot
                           /\ call'[u].grant = call[u].grant
                           /\ call'[u].op = call[u].op
                           /\ call'[u].mode = call[u].mode
                           /\ call'[u].taint = call[u].taint
                           /\ call'[u].value = call[u].value
                           /\ Busy(u)' <=> Busy(u)
    BY <1>0, <2>1, <2>3 DEF CallTypes, Calls, Busy
  <2>7. call'[t].pc = "get_taint"
    BY <1>0, <2>3 DEF CallTypes, Calls
  <2> HIDE DEF new
  <2>8. TypeOK'
    <3>1. \A s \in DOMAIN values' : WriteOK(values'[s])
      BY <1>0, <2>4, <2>5 DEF TypeOK
    <3> QED BY <1>0, <2>1, <2>2, <2>3, <2>4, <2>6, <2>7, <3>1
            DEF TypeOK, WriteOK, Busy
  <2>9. CallTypes'
    <3>1. call' \in [Threads -> Calls]
      BY <1>0, <2>1 DEF CallTypes, Calls
    <3>2. \A u \in Threads : CallFits(call'[u])
      <4> TAKE u \in Threads
      <4>1. CASE u = t
        BY <2>2, <2>6, <2>7, <4>1 DEF CallFits
      <4>2. CASE u # t
        BY <1>0, <2>3, <4>2 DEF CallTypes
      <4> QED BY <4>1, <4>2
    <3>3. \A s \in DOMAIN values' : values'[s] \in Writes
      BY <1>0, <2>4, <2>5 DEF CallTypes
    <3> QED BY <3>1, <3>2, <3>3 DEF CallTypes
  <2>10. WritesAlone' /\ TaintIsCurrent' /\ UncontendedReads' /\ UncontendedTaint'
    BY <1>0, <2>1, <2>3, <2>6, <2>7 DEF WritesAlone, TaintIsCurrent, Busy,
       UncontendedReads, Aligned, UncontendedTaint, NotLaundered
  <2>11. ValueIsAccounted'
    BY <1>0, <2>1, <2>3, <2>4, <2>5, <2>6, <2>7 DEF ValueIsAccounted
  \* No other call is on the slot, unless it is contended.
  <2>12. ASSUME NEW u \in Threads \ {t}, Busy(u), call[u].slot \notin contended
         PROVE  call[u].slot # slot
    BY <1>0, <2>1, <2>2, <2>12 DEF WritesAlone, Busy
  <2>13. CheckIsCurrent'
    BY <1>0, <2>1, <2>3, <2>4, <2>6, <2>7, <2>12 DEF CheckIsCurrent, Busy
  <2>14. ReadIsAligned'
    <3> SUFFICES ASSUME NEW u \in Threads, call'[u].pc = "get_value",
                        call'[u].slot \notin contended'
                 PROVE  TaintedReadFault(values'[call'[u].slot].by.taint_policy,
                                         call'[u].grant.taint_policy) = "OK"
      BY DEF ReadIsAligned
    <3>1. u # t /\ call'[u] = call[u] /\ Busy(u)
      BY <2>3, <2>7 DEF Busy
    <3>2. call[u].slot # slot /\ call[u].slot \in DOMAIN values
      BY <1>0, <2>1, <2>12, <3>1 DEF TypeOK
    <3> QED BY <1>0, <2>1, <2>4, <3>1, <3>2 DEF ReadIsAligned
  <2> QED BY <2>8, <2>9, <2>10, <2>11, <2>13, <2>14 DEF Inv
<1>4. ASSUME NEW t \in Threads, GetTaint(t) PROVE Inv'
  <2> DEFINE slot == call[t].slot
             seen == IF slot \in DOMAIN taints THEN taints[slot] ELSE NONE
  <2>1. /\ call[t].pc = "get_taint"
        /\ call' = [call EXCEPT ![t].pc = "set_taint", ![t].taint = seen]
        /\ UNCHANGED <<values, taints, written, contended, calls>>
    BY <1>4 DEF GetTaint
  <2>2. /\ call[t].mode \in {"append", "write"} /\ call[t].op = "write"
        /\ seen \in Taints \cup {NONE} /\ Busy(t)
    BY <1>0, <2>1 DEF TypeOK, Busy, CallTypes, CallFits
  <2>3. /\ \A u \in Threads \ {t} : call'[u] = call[u]
        /\ call'[t] = [call[t] EXCEPT !.pc = "set_taint", !.taint = seen]
        /\ call[t] \in Calls
    BY <1>0, <2>1 DEF CallTypes
  <2>4. /\ call'[t].pc = "set_taint" /\ call'[t].taint = seen
       /\ call' \in [Threads -> Calls]
    <3>1. call'[t] \in Calls
      BY <2>2, <2>3 DEF Calls
    <3> QED BY <1>0, <2>1, <2>3, <3>1 DEF CallTypes, Calls
  <2>5. \A u \in Threads : /\ call'[u].slot = call[u].slot
                           /\ call'[u].grant = call[u].grant
                           /\ call'[u].op = call[u].op
                           /\ call'[u].mode = call[u].mode
                           /\ call'[u].value = call[u].value
                           /\ Busy(u)' <=> Busy(u)
    <3> TAKE u \in Threads
    <3>1. CASE u = t
      BY <2>2, <2>3, <3>1 DEF Calls, Busy
    <3>2. CASE u # t
      BY <2>3, <3>2 DEF Busy
    <3> QED BY <3>1, <3>2
  <2> HIDE DEF seen
  <2>6. TypeOK'
    BY <1>0, <2>1, <2>2, <2>3, <2>4, <2>5 DEF TypeOK, Busy
  <2>7. CallTypes'
    <3>1. \A u \in Threads : CallFits(call'[u])
      <4> TAKE u \in Threads
      <4>1. CASE u = t
        BY <2>2, <2>3, <2>4, <2>5, <4>1 DEF CallFits
      <4>2. CASE u # t
        BY <1>0, <2>3, <4>2 DEF CallTypes
      <4> QED BY <4>1, <4>2
    <3> QED BY <1>0, <2>1, <2>4, <3>1 DEF CallTypes
  <2>8. WritesAlone' /\ ValueIsAccounted' /\ UncontendedTaint' /\ UncontendedReads'
    <3>1. WritesAlone'
      <4>1. \A u \in Threads : /\ call'[u].slot = call[u].slot
                               /\ call'[u].op = call[u].op
        BY <2>5
      <4>2. \A u \in Threads : Busy(u)' => Busy(u)
        BY <2>5
      <4>3. contended' = contended
        BY <2>1
      <4> QED BY <1>0, <4>1, <4>2, <4>3 DEF WritesAlone
    <3>2. ValueIsAccounted'
      BY <1>0, <2>1, <2>3, <2>4, <2>5 DEF ValueIsAccounted
    <3>3. UncontendedTaint'
      BY <1>0, <2>1 DEF UncontendedTaint, NotLaundered
    <3>4. UncontendedReads'
      <4>1. \A u \in Threads : Aligned(u) => Aligned(u)'
        BY <2>5 DEF Aligned
      <4>2. \A u \in Threads : call'[u].slot = call[u].slot
        BY <2>5
      <4>3. contended' = contended
        BY <2>1
      <4> QED BY <1>0, <4>1, <4>2, <4>3 DEF UncontendedReads
    <3> QED BY <3>1, <3>2, <3>3, <3>4
  <2>9. TaintIsCurrent'
    BY <1>0, <2>1, <2>3, <2>4, <2>5 DEF TaintIsCurrent, seen
  <2>10. CheckIsCurrent' /\ ReadIsAligned'
    BY <1>0, <2>1, <2>3, <2>4, <2>5 DEF CheckIsCurrent, ReadIsAligned
  <2> QED BY <2>6, <2>7, <2>8, <2>9, <2>10 DEF Inv
<1>5. ASSUME NEW t \in Threads, SetTaint(t) PROVE Inv'
  <2> DEFINE slot   == call[t].slot
             writer == call[t].grant.taint_policy
             taint  == IF call[t].taint = NONE THEN writer
                       ELSE HigherTaint(call[t].taint, writer)
  <2>1. /\ call[t].pc = "set_taint" /\ taints' = Put(taints, slot, taint)
        /\ written' = [written EXCEPT ![slot] = @ \cup {writer}]
        /\ call' = [call EXCEPT ![t] = Idle]
        /\ UNCHANGED <<values, contended, calls>>
    BY <1>5 DEF SetTaint
  <2>2. /\ slot \in Slots /\ slot \in DOMAIN values
        /\ call[t].grant \in StatePermission
        /\ call[t].taint \in Taints \cup {NONE}
        /\ call[t].op = "write" /\ Busy(t)
    BY <1>0, <2>1 DEF TypeOK, Busy, CallTypes, CallFits
  <2>3. writer \in Taints
    BY <2>2 DEF StatePermission
  <2>4. \A x \in Taints : Rank(x) \in Nat
    BY DEF Rank, TAINT_RANK, Taints
  <2>5. /\ taint \in Taints /\ Rank(writer) <= Rank(taint)
        /\ call[t].taint # NONE => Rank(call[t].taint) <= Rank(taint)
    BY <2>2, <2>3, <2>4 DEF HigherTaint, Rank
  <2>6. /\ \A u \in Threads \ {t} : call'[u] = call[u]
        /\ call'[t] = Idle /\ DOMAIN call' = Threads
        /\ call' \in [Threads -> Calls]
    <3>1. Idle \in Calls
      BY DEF Idle, Calls
    <3> QED BY <1>0, <2>1, <3>1 DEF CallTypes
  <2>7. /\ DOMAIN taints' = DOMAIN taints \cup {slot} /\ taints'[slot] = taint
        /\ \A s \in DOMAIN taints \ {slot} : taints'[s] = taints[s]
    BY <2>1 DEF Put
  <2>8. /\ written' \in [Slots -> SUBSET Taints]
        /\ written'[slot] = written[slot] \cup {writer}
        /\ \A s \in Slots \ {slot} : written'[s] = written[s]
    BY <1>0, <2>1, <2>2, <2>3 DEF TypeOK
  <2>9. call'[t].pc = "idle" /\ call'[t].slot = NONE /\ call'[t].value = NONE
    BY <2>6 DEF Idle
  <2> HIDE DEF taint, writer
  <2>10. TypeOK'
    <3>1. \A s \in DOMAIN taints' : taints'[s] \in Taints
      BY <1>0, <2>5, <2>7 DEF TypeOK
    <3> QED BY <1>0, <2>1, <2>2, <2>6, <2>7, <2>8, <2>9, <3>1 DEF TypeOK, Busy
  <2>11. CallTypes'
    <3>1. CallFits(Idle)
      BY DEF CallFits, Idle
    <3>2. \A u \in Threads : CallFits(call'[u])
      BY <1>0, <2>6, <3>1 DEF CallTypes
    <3> QED BY <1>0, <2>1, <2>6, <3>2 DEF CallTypes
  <2>12. WritesAlone' /\ CheckIsCurrent' /\ ReadIsAligned'
    <3>1. WritesAlone'
      BY <1>0, <2>1, <2>6, <2>9 DEF WritesAlone, Busy
    <3>2. CheckIsCurrent'
      BY <1>0, <2>1, <2>6, <2>9 DEF CheckIsCurrent
    <3>3. ReadIsAligned'
      BY <1>0, <2>1, <2>6, <2>9 DEF ReadIsAligned
    <3> QED BY <3>1, <3>2, <3>3
  <2>13. TaintIsCurrent'
    <3> SUFFICES ASSUME NEW u \in Threads, call'[u].pc = "set_taint",
                        call'[u].slot \notin contended'
                 PROVE  call'[u].taint = IF call'[u].slot \in DOMAIN taints'
                            THEN taints'[call'[u].slot] ELSE NONE
      BY DEF TaintIsCurrent
    <3>1. u # t /\ call'[u] = call[u]
      BY <2>6, <2>9
    \* u is writing too, so elsewhere.
    <3>2. call[u].slot # slot
      BY <1>0, <2>1, <2>2, <3>1 DEF WritesAlone, Busy
    <3> QED BY <1>0, <2>1, <2>7, <3>1, <3>2 DEF TaintIsCurrent
  <2>14. ValueIsAccounted'
    <3> SUFFICES ASSUME NEW s \in DOMAIN values \ contended
                 PROVE  \/ values[s].by.taint_policy \in written'[s]
                        \/ \E u \in Threads :
                               /\ call'[u].pc \in {"get_taint", "set_taint"}
                               /\ call'[u].slot = s
                               /\ call'[u].grant = values[s].by
      BY <2>1 DEF ValueIsAccounted
    <3>1. CASE s # slot
      BY <1>0, <2>1, <2>6, <2>8, <3>1 DEF ValueIsAccounted, TypeOK
    <3>2. CASE s = slot
      <4>1. ASSUME NEW u \in Threads, call[u].pc \in {"get_taint", "set_taint"},
                   call[u].slot = s
            PROVE  u = t
        BY <1>0, <2>1, <2>2, <3>2, <4>1 DEF WritesAlone, Busy
      <4> QED BY <1>0, <2>8, <3>2, <4>1 DEF ValueIsAccounted, writer
    <3> QED BY <3>1, <3>2
  \* What was looked up covers the completed writes, so does the higher taint.
  <2>15. UncontendedTaint'
    <3> SUFFICES ASSUME NEW s \in Slots \ contended, NEW policy \in written'[s]
                 PROVE  s \in DOMAIN taints' /\ Rank(policy) <= Rank(taints'[s])
      BY <2>1 DEF UncontendedTaint, NotLaundered, Rank
    <3>1. CASE s # slot
      BY <1>0, <2>7, <2>8, <3>1 DEF UncontendedTaint, NotLaundered
    <3>2. CASE s = slot /\ policy = writer
      BY <2>5, <2>7, <3>2
    <3>3. CASE s = slot /\ policy \in written[slot]
      <4>1. slot \in DOMAIN taints /\ Rank(policy) <= Rank(taints[slot])
        BY <1>0, <3>3 DEF UncontendedTaint, NotLaundered
      <4>2. call[t].taint = taints[slot]
        BY <1>0, <2>1, <3>3, <4>1 DEF TaintIsCurrent
      <4>3. taints[slot] \in Taints /\ taints[slot] # NONE /\ policy \in Taints
        BY <1>0, <2>2, <3>3, <4>1, TaintIsSome DEF TypeOK
      <4> QED BY <2>4, <2>5, <2>7, <3>3, <4>1, <4>2, <4>3
    <3> QED BY <2>8, <3>1, <3>2, <3>3
  <2>16. UncontendedReads'
    BY <1>0, <2>1, <2>6, <2>9 DEF UncontendedReads, Aligned
  <2> QED BY <2>10, <2>11, <2>12, <2>13, <2>14, <2>15, <2>16 DEF Inv
<1>6. ASSUME NEW t \in Threads, BeginRead(t) PROVE Inv'
  <2>1. PICK g \in Subjects, slot \in Slots :
            /\ ~Busy(t)
            /\ ReadFault(g, slot) = "OK"
            /\ Started(t, "read", g, slot, "read", "get_value", taints[slot])
    BY <1>6 DEF BeginRead
  <2> DEFINE perm == PermissionFor(g, slot[1])
  <2>2. /\ perm \in StatePermission
        /\ slot \in DOMAIN values /\ slot \in DOMAIN taints
        /\ TaintedReadFault(taints[slot], perm.taint_policy) = "OK"
    BY <2>1, ReadGranted
  <2>3. /\ \A u \in Threads \ {t} : call'[u] = call[u]
        /\ call'[t] = [Idle EXCEPT !.pc = "get_value", !.op = "read",
                           !.slot = slot, !.mode = "read",
                           !.taint = taints[slot], !.grant = perm]
        /\ contended \subseteq contended'
        /\ WritesAlone'
    BY <1>0, <2>1, EntryContends
  <2> HIDE DEF perm
  <2>4. /\ UNCHANGED <<values, taints, written>>
        /\ contended' \subseteq Slots
        /\ calls' \in 0 .. MaxCalls
        /\ contended \subseteq contended'
        /\ DOMAIN call' = Threads
        /\ \A u \in Threads \ {t} : call'[u] = call[u]
    BY <1>0, <2>1, <2>3, StoreBounds DEF Started, Contends, TypeOK, CallTypes
  <2>5. /\ call'[t].pc = "get_value" /\ call'[t].op = "read"
        /\ call'[t].slot = slot /\ call'[t].mode = "read"
        /\ call'[t].grant = perm /\ call'[t].value = NONE
        /\ call'[t].taint = taints[slot]
    BY <2>3 DEF Idle
  <2>6. taints[slot] \in Taints
    BY <1>0, <2>2 DEF TypeOK
  <2>7. TypeOK'
    BY <1>0, <2>2, <2>4, <2>5, <2>6 DEF TypeOK, Busy
  <2>8. CallTypes'
    <3>1. call'[t] \in Calls
      BY <2>2, <2>3, <2>6 DEF Idle, Calls
    <3>2. call' \in [Threads -> Calls]
      BY <1>0, <2>1, <2>4, <3>1 DEF CallTypes, Started
    <3>3. CallFits(call'[t])
      BY <2>5 DEF CallFits
    <3>4. \A u \in Threads : CallFits(call'[u])
      BY <1>0, <2>4, <3>3 DEF CallTypes
    <3> QED BY <1>0, <2>4, <3>2, <3>4 DEF CallTypes
  <2>9. TaintIsCurrent' /\ CheckIsCurrent'
    <3>1. TaintIsCurrent'
      BY <1>0, <2>4, <2>5 DEF TaintIsCurrent
    <3>2. CheckIsCurrent'
      BY <1>0, <2>4, <2>5 DEF CheckIsCurrent
    <3> QED BY <3>1, <3>2
  <2>10. ValueIsAccounted'
    BY <1>0, <2>1, <2>4 DEF ValueIsAccounted, Busy
  <2>11. ReadIsAligned'
    <3> SUFFICES ASSUME slot \notin contended'
                 PROVE  TaintedReadFault(values[slot].by.taint_policy,
                                         perm.taint_policy) = "OK"
      BY <1>0, <2>4, <2>5 DEF ReadIsAligned
    \* No write is in progress on the slot, so the value is a completed one.
    <3>1. ASSUME NEW u \in Threads, call[u].pc \in {"get_taint", "set_taint"}
          PROVE  call[u].slot # slot
      <4>1. u # t /\ Busy(u) /\ call[u].op = "write"
        BY <1>0, <2>1, <3>1 DEF Busy, CallTypes, CallFits
      <4> QED BY <2>1, <4>1 DEF Started, Contends
    <3>2. values[slot].by.taint_policy \in written[slot]
      BY <1>0, <2>2, <2>4, <3>1 DEF ValueIsAccounted
    <3>3. Rank(values[slot].by.taint_policy) <= Rank(taints[slot])
      BY <1>0, <2>4, <3>2 DEF UncontendedTaint, NotLaundered
    <3>4. values[slot].by.taint_policy \in Taints /\ perm.taint_policy \in Taints
      BY <1>0, <2>2, <3>2 DEF TypeOK, StatePermission
    <3> QED BY <2>2, <2>6, <3>3, <3>4, LowerTaintReads
  <2>12. UncontendedTaint'
    BY <1>0, <2>4 DEF UncontendedTaint, NotLaundered
  <2>13. UncontendedReads'
    BY <1>0, <2>4, <2>5 DEF UncontendedReads, Aligned
  <2> QED BY <2>3, <2>7, <2>8, <2>9, <2>10, <2>11, <2>12, <2>13 DEF Inv
<1>7. ASSUME NEW t \in Threads, GetValue(t) PROVE Inv'
  <2> DEFINE slot == call[t].slot
  <2>1. /\ call[t].pc = "get_value"
        /\ call' = [call EXCEPT ![t].pc = "idle", ![t].value = values[slot]]
        /\ UNCHANGED <<values, taints, written, contended, calls>>
    BY <1>7 DEF GetValue
  <2>2. slot \in DOMAIN values /\ values[slot] \in Writes /\ call[t] \in Calls
    BY <1>0, <2>1 DEF TypeOK, Busy, CallTypes
  <2>3. /\ \A u \in Threads \ {t} : call'[u] = call[u]
        /\ call'[t] = [call[t] EXCEPT !.pc = "idle", !.value = values[slot]]
        /\ DOMAIN call' = Threads
        /\ UNCHANGED <<values, taints, written, contended, calls>>
    BY <1>0, <2>1 DEF CallTypes
  <2>4. /\ call'[t] \in Calls /\ call'[t].pc = "idle"
        /\ call'[t].slot = slot /\ call'[t].grant = call[t].grant
        /\ call'[t].value = values[slot]
    BY <2>2, <2>3 DEF Calls
  <2>5. TypeOK'
    BY <1>0, <2>1, <2>3, <2>4 DEF TypeOK, Busy
  <2>6. CallTypes'
    <3>1. call' \in [Threads -> Calls]
      BY <1>0, <2>1, <2>3, <2>4 DEF CallTypes
    <3>2. CallFits(call'[t])
      BY <2>4 DEF CallFits
    <3>3. \A u \in Threads : CallFits(call'[u])
      BY <1>0, <2>3, <3>2 DEF CallTypes
    <3> QED BY <1>0, <2>3, <3>1, <3>3 DEF CallTypes
  <2>7. WritesAlone'
    <3>1. \A u \in Threads : Busy(u)' => u # t
      BY <2>4 DEF Busy
    <3>2. \A u \in Threads : u # t => call'[u] = call[u] /\ (Busy(u)' <=> Busy(u))
      BY <2>3 DEF Busy
    <3> QED BY <1>0, <2>3, <3>1, <3>2 DEF WritesAlone
  <2>8. TaintIsCurrent' /\ CheckIsCurrent' /\ ReadIsAligned'
    <3>1. TaintIsCurrent'
      BY <1>0, <2>3, <2>4 DEF TaintIsCurrent
    <3>2. CheckIsCurrent'
      BY <1>0, <2>3, <2>4 DEF CheckIsCurrent
    <3>3. ReadIsAligned'
      BY <1>0, <2>3, <2>4 DEF ReadIsAligned
    <3> QED BY <3>1, <3>2, <3>3
  <2>9. ValueIsAccounted'
    <3>1. \A u \in Threads : call[u].pc \in {"get_taint", "set_taint"} => u # t
      BY <2>1
    <3> QED BY <1>0, <2>3, <3>1 DEF ValueIsAccounted
  <2>10. UncontendedTaint'
    BY <1>0, <2>1 DEF UncontendedTaint, NotLaundered
  <2>11. UncontendedReads'
    <3> SUFFICES ASSUME NEW u \in Threads, call'[u].slot # NONE,
                        call'[u].slot \notin contended
                 PROVE  Aligned(u)'
      BY <2>1 DEF UncontendedReads
    <3>1. CASE u = t
      BY <1>0, <2>1, <2>4, <3>1 DEF ReadIsAligned, Aligned
    <3>2. CASE u # t
      BY <1>0, <2>3, <3>2 DEF UncontendedReads, Aligned
    <3> QED BY <3>1, <3>2
  <2> QED BY <2>5, <2>6, <2>7, <2>8, <2>9, <2>10, <2>11 DEF Inv
<1> QED BY <1>1, <1>2, <1>3, <1>4, <1>5, <1>6, <1>7 DEF Next

(***************************************************************************)
(* The dictionaries and the calls in progress keep their types, however    *)
(* the statements of the calls interleave.                                 *)
(***************************************************************************)
THEOREM StoreTypes == Spec => []TypeOK
<1>1. Inv => TypeOK
  BY DEF Inv
<1> QED BY InitInv, StepInv, <1>1, PTL DEF Spec

(***************************************************************************)
(* On a slot whose writes overlap no other call, the stored taint is at    *)
(* least that of each completed write, whatever happens on other slots.    *)
(***************************************************************************)
THEOREM TaintIsNotLaundered == Spec => []UncontendedTaint
<1>1. Inv => UncontendedTaint
  BY DEF Inv
<1> QED BY InitInv, StepInv, <1>1, PTL DEF Spec

(***************************************************************************)
(* A read that no write of its slot overlapped returns only what the       *)
(* writer's policy lets the reader's grant see.                            *)
(***************************************************************************)
THEOREM ReadsAreAligned == Spec => []UncontendedReads
<1>1. Inv => UncontendedReads
  BY DEF Inv
<1> QED BY InitInv, StepInv, <1>1, PTL DEF Spec

(***************************************************************************)
(* On a slot without overlapping writes only a write by a write grant      *)
(* replaces a value: an append creates.                                    *)
(***************************************************************************)
THEOREM AppendsOnlyCreate == Spec => AppendCreates
<1>1. ASSUME Inv, [Next]_vars, NEW slot \in DOMAIN values \ contended,
             Replaces(slot)
      PROVE  ByAWriter(values'[slot])
  <2>1. PICK t \in Threads : SetValue(t)
    BY <1>1 DEF Next, vars, Replaces, BeginWrite, Started, GetTaint, SetTaint,
       BeginRead, GetValue
  <2>2. values' = Put(values, call[t].slot, Provenance(t)) /\ call[t].pc = "set_value"
    BY <2>1 DEF SetValue
  <2>3. call[t].slot = slot /\ values'[slot] = Provenance(t)
    BY <1>1, <2>2 DEF Put, Replaces
  <2>4. call[t].mode = "write" /\ call[t].grant.access_mode = "write"
    BY <1>1, <2>2, <2>3 DEF Inv, CheckIsCurrent
  <2> QED BY <2>3, <2>4 DEF ByAWriter, Provenance
<1>2. Inv /\ [Next]_vars =>
          [\A slot \in DOMAIN values \ contended :
              Replaces(slot) => ByAWriter(values'[slot])]_vars
  BY <1>1
<1> QED BY InitInv, StepInv, <1>2, PTL DEF Spec, AppendCreates

(***************************************************************************)
(* The runtime's decision on an access and the store's own agree, for      *)
(* every GCO, the repeated namespace of an unvalidated one included.       *)
(***************************************************************************)
THEOREM DecisionsAgree == Spec => []RuntimeAndStoreAgree
<1>1. ASSUME NEW g \in Subjects, NEW slot \in Slots
      PROVE  ReadFault(g, slot) = "NamespaceAccessDenied"
                <=> StateAccessFault(g, slot[1], "read") # "OK"
  <2>1. CASE StateAccessFault(g, slot[1], "read") # "OK"
    BY <2>1 DEF ReadFault, StateAccessFault, Check
  <2>2. CASE StateAccessFault(g, slot[1], "read") = "OK"
    <3> DEFINE perm == PermissionFor(g, slot[1])
    <3>1. perm \in StatePermission /\ AccessAllows(perm.access_mode, "read")
      BY <2>2, AccessGranted
    <3>2. perm.access_mode \in {"read", "write"} /\ perm # NONE
      BY <3>1, PermissionIsSome
         DEF StatePermission, Modes, AccessAllows, ACCESS_ALLOWANCES
    <3>3. StoreReadFault(g, slot[1], taints[slot]) # "NamespaceAccessDenied"
      BY <3>2, FirstOfTwo
         DEF StoreReadFault, TaintedReadFault, Check, PermissionFor
    <3> QED BY <2>2, <3>2, <3>3 DEF ReadFault
  <2> QED BY <2>1, <2>2
<1>2. ASSUME NEW g \in Subjects, NEW slot \in Slots, NEW mode \in {"append", "write"},
             StateAccessFault(g, slot[1], mode) = "OK"
      PROVE  WriteFault(g, slot, mode) =
                Check(~(mode = "append" /\ slot \in DOMAIN values), "AppendExists")
  <2> DEFINE perm == PermissionFor(g, slot[1])
             sub  == SubjectForWriteMode(g, slot[1], mode)
  <2>1. perm \in StatePermission /\ perm # NONE /\ AccessAllows(perm.access_mode, mode)
    BY <1>2, AccessGranted, PermissionIsSome
  <2>2. WriteFault(g, slot, mode) = StoreWriteFault(sub, slot)
    BY <1>2, FirstOfTwo DEF WriteFault
  <2>3. PermissionFor(sub, slot[1]) # NONE
        /\ PermissionFor(sub, slot[1]).access_mode = mode
    <3>1. CASE mode = "append"
      BY <2>1, <3>1, AppendSubject
    <3>2. CASE mode = "write"
      BY <2>1, <3>2 DEF SubjectForWriteMode, StatePermission, Modes, AccessAllows,
         ACCESS_ALLOWANCES
    <3> QED BY <3>1, <3>2
  <2> HIDE DEF sub
  <2> QED BY <2>2, <2>3 DEF StoreWriteFault
<1>3. RuntimeAndStoreAgree
  BY <1>1, <1>2 DEF RuntimeAndStoreAgree
<1> QED BY <1>3, PTL
=============================================================================
