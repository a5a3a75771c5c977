----------------------------- MODULE StateStore -----------------------------
(***************************************************************************)
(* read_state and write_state of GovernanceRuntime (gco/runtime.py), once  *)
(* the subject is verified, over one GovernedStateStore                    *)
(* (gco/state_store.py) used by several threads of a host.  The store has  *)
(* no lock: _values and _taints are separate dictionaries and other        *)
(* threads run between any two statements that touch them.                 *)
(*                                                                         *)
(* What a statement reads of the dictionaries once, and what is local to a *)
(* call, is one step.  Nothing is ever removed from either dictionary, so  *)
(* "in" followed by a lookup is one look at the dictionary.  A refused     *)
(* call leaves everything as it was, so the actions are the allowed ones.  *)
(***************************************************************************)
EXTENDS Authority

CONSTANTS
    Threads,
    Keys,
    Subjects,  \* the verified, unexpired GCOs calls are made with
    Requested, \* the modes write_state is asked for, NotAMode among them
    MaxCalls   \* bound: calls that get as far as the store's dictionaries

ASSUME StoreBounds == MaxCalls \in Nat
ASSUME SubjectsAssumption == \A g \in Subjects :
    /\ "state_access_permissions" \in DOMAIN g
    /\ g.state_access_permissions \in Seq(StatePermission)

Slots == Namespaces \X Keys   \* (namespace, key)

VARIABLES
    values,     \* _values; a value is known by the write that stored it
    taints,     \* _taints
    call,       \* per thread: the call in progress, or the last read
    written,    \* history: per slot, the taint policies of completed writes
    contended,  \* history: slots on which a write overlapped another call
    calls       \* calls begun so far

vars == <<values, taints, call, written, contended, calls>>

Idle == [pc |-> "idle", op |-> NONE, slot |-> NONE, mode |-> NONE,
         grant |-> NONE, taint |-> NONE, value |-> NONE]

Init ==
    /\ values = <<>> /\ taints = <<>>
    /\ call = [t \in Threads |-> Idle]
    /\ written = [s \in Slots |-> {}]
    /\ contended = {}
    /\ calls = 0

PermissionFor(g, namespace) ==
    FirstMatch(g.state_access_permissions, "namespace", namespace)

\* Mutant: an append by a write grant is stored as a write.
SubjectForWriteModeOff(g, namespace, mode) == g

\* _subject_for_write_mode: an append by a write grant is stored as an append.
SubjectForWriteMode(g, namespace, mode) ==
    IF mode = "write" THEN g
    ELSE [g EXCEPT !.state_access_permissions =
            [i \in DOMAIN @ |-> IF @[i].namespace = namespace
                                THEN [@[i] EXCEPT !.access_mode = "append"]
                                ELSE @[i]]]

\* GovernedStateStore.write up to its first assignment.
StoreWriteFault(g, slot) ==
    LET perm == PermissionFor(g, slot[1])
    IN  IF perm = NONE THEN "NamespaceAccessDenied"
        ELSE IF perm.access_mode \notin {"write", "append"}
             THEN "NamespaceAccessDenied"
        ELSE Check(~(perm.access_mode = "append" /\ slot \in DOMAIN values),
                   "AppendExists")

\* write_state: the mode, the runtime's decision, the store's own.
WriteFault(g, slot, mode) ==
    IF mode \notin {"write", "append"} THEN "NamespaceAccessDenied"
    ELSE FirstFault(<<
        StateAccessFault(g, slot[1], mode),
        StoreWriteFault(SubjectForWriteMode(g, slot[1], mode), slot)>>)

\* read_state, and GovernedStateStore.read up to the return of the value.  The
\* runtime reports StateKeyNotFound as a denial; it is kept apart here.
ReadFault(g, slot) ==
    IF StateAccessFault(g, slot[1], "read") # "OK"
    THEN StateAccessFault(g, slot[1], "read")
    ELSE IF PermissionFor(g, slot[1]).access_mode \notin {"read", "write"}
         THEN "NamespaceAccessDenied"
    ELSE IF slot \notin DOMAIN values \/ slot \notin DOMAIN taints
         THEN "StateKeyNotFound"
    ELSE StoreReadFault(g, slot[1], taints[slot])

\* Mutant: the taint is that of the last write.
HigherTaintLast(existing, writer) == writer

\* _higher_taint; every stored policy has a rank.
HigherTaint(existing, writer) ==
    IF TAINT_RANK[existing] >= TAINT_RANK[writer] THEN existing ELSE writer

\* Mutant: storing a key forgets the others.
PutAlone(dict, key, item) == [k \in {key} |-> item]

Put(dict, key, item) ==
    [k \in DOMAIN dict \cup {key} |-> IF k = key THEN item ELSE dict[k]]

-----------------------------------------------------------------------------
Busy(t) == call[t].pc # "idle"

\* Entering with a call on a slot: contended if either call is a write.
Contends(t, op, slot) ==
    IF \E u \in Threads \ {t} : /\ Busy(u) /\ call[u].slot = slot
                                /\ "write" \in {op, call[u].op}
    THEN {slot} ELSE {}

Started(t, op, g, slot, mode, pc, taint) ==
    /\ call' = [call EXCEPT ![t] =
                  [Idle EXCEPT !.pc = pc, !.op = op, !.slot = slot,
                               !.mode = mode, !.taint = taint,
                               !.grant = PermissionFor(g, slot[1])]]
    /\ contended' = contended \cup Contends(t, op, slot)
    /\ calls < MaxCalls /\ calls' = calls + 1
    /\ UNCHANGED <<values, taints, written>>

\* The append check (line 31) has looked at _values.
BeginWrite(t) ==
    \E g \in Subjects, slot \in Slots, mode \in Requested :
        /\ ~Busy(t)
        /\ WriteFault(g, slot, mode) = "OK"
        /\ Started(t, "write", g, slot, mode, "set_value", NONE)

\* The write that stored a value: its mode and the writer's grant.
Provenance(t) == [mode |-> call[t].mode, by |-> call[t].grant]

SetValue(t) ==
    /\ call[t].pc = "set_value"
    /\ values' = Put(values, call[t].slot, Provenance(t))
    /\ call' = [call EXCEPT ![t].pc = "get_taint"]
    /\ UNCHANGED <<taints, written, contended, calls>>

\* Lines 34 and 35: the stored taint is looked up, if there is one.
GetTaint(t) ==
    /\ call[t].pc = "get_taint"
    /\ call' = [call EXCEPT ![t].pc = "set_taint",
                            ![t].taint = IF call[t].slot \in DOMAIN taints
                                         THEN taints[call[t].slot] ELSE NONE]
    /\ UNCHANGED <<values, taints, written, contended, calls>>

SetTaint(t) ==
    LET slot   == call[t].slot
        writer == call[t].grant.taint_policy
        taint  == IF call[t].taint = NONE THEN writer
                  ELSE HigherTaint(call[t].taint, writer)
    IN  /\ call[t].pc = "set_taint"
        /\ taints' = Put(taints, slot, taint)
        /\ written' = [written EXCEPT ![slot] = @ \cup {writer}]
        /\ call' = [call EXCEPT ![t] = Idle]
        /\ UNCHANGED <<values, contended, calls>>

\* The stored taint (line 46) is sampled and found readable.
BeginRead(t) ==
    \E g \in Subjects, slot \in Slots :
        /\ ~Busy(t)
        /\ ReadFault(g, slot) = "OK"
        /\ Started(t, "read", g, slot, "read", "get_value", taints[slot])

GetValue(t) ==
    /\ call[t].pc = "get_value"
    /\ call' = [call EXCEPT ![t].pc = "idle",
                            ![t].value = values[call[t].slot]]
    /\ UNCHANGED <<values, taints, written, contended, calls>>

Next == \E t \in Threads :
    \/ BeginWrite(t) \/ SetValue(t) \/ GetTaint(t) \/ SetTaint(t)
    \/ BeginRead(t) \/ GetValue(t)

Spec == Init /\ [][Next]_vars
-----------------------------------------------------------------------------
(* Type invariant. *)
WriteOK(v) == v.mode \in {"append", "write"} /\ v.by \in StatePermission

TypeOK ==
    /\ DOMAIN taints \subseteq DOMAIN values /\ DOMAIN values \subseteq Slots
    /\ \A s \in DOMAIN values : WriteOK(values[s])
    /\ \A s \in DOMAIN taints : taints[s] \in Taints
    /\ written \in [Slots -> SUBSET Taints]
    /\ contended \subseteq Slots
    /\ calls \in 0 .. MaxCalls
    /\ \A t \in Threads : Busy(t) =>
           /\ call[t].slot \in Slots
           /\ call[t].grant \in StatePermission
           /\ call[t].taint \in Taints \cup {NONE}
           /\ call[t].pc \in {"get_taint", "set_taint", "get_value"}
                  => call[t].slot \in DOMAIN values

Rank(taint) == TAINT_RANK[taint]

(***************************************************************************)
(* No write, whatever its order among the others, launders a slot: the     *)
(* stored taint is at least the taint policy of every completed write.     *)
(***************************************************************************)
NotLaundered(slot) ==
    \A policy \in written[slot] :
        slot \in DOMAIN taints /\ Rank(policy) <= Rank(taints[slot])

\* A value a read returned was written under a policy that is readable at all
\* and no higher than the taint of the reader's own grant.
Aligned(t) ==
    call[t].value # NONE =>
        TaintedReadFault(call[t].value.by.taint_policy,
                         call[t].grant.taint_policy) = "OK"

(***************************************************************************)
(* Writes that overlap no other call on their slot never launder it, and   *)
(* calls on other slots do not matter.  Overlapping writes can: both look  *)
(* the stored taint up before either stores one, and no lock prevents it.  *)
(***************************************************************************)
UncontendedTaint == \A slot \in Slots \ contended : NotLaundered(slot)

(***************************************************************************)
(* A read that no write of its slot overlapped returns aligned data only,  *)
(* although it tests the stored taint and not the writer's policy.         *)
(***************************************************************************)
UncontendedReads ==
    \A t \in Threads :
        call[t].slot # NONE /\ call[t].slot \notin contended => Aligned(t)

(***************************************************************************)
(* On a slot without overlapping writes, a value is only ever replaced by  *)
(* a write-mode request under a write grant: an append, by whichever       *)
(* grant, creates.                                                         *)
(***************************************************************************)
Replaces(slot) == values'[slot] # values[slot]
ByAWriter(v) == v.mode = "write" /\ v.by.access_mode = "write"

AppendCreates ==
    [][\A slot \in DOMAIN values \ contended :
          Replaces(slot) => ByAWriter(values'[slot])]_vars

(***************************************************************************)
(* The runtime and the store decide access one after the other, by rules   *)
(* written twice.  The store refuses no access the runtime allowed, and    *)
(* lets an existing value be rewritten exactly when the request is a       *)
(* write.                                                                  *)
(***************************************************************************)
RuntimeAndStoreAgree ==
    \A g \in Subjects, slot \in Slots :
        /\ ReadFault(g, slot) = "NamespaceAccessDenied"
              <=> StateAccessFault(g, slot[1], "read") # "OK"
        /\ \A mode \in {"append", "write"} :
              StateAccessFault(g, slot[1], mode) = "OK" =>
                  WriteFault(g, slot, mode) =
                      Check(~(mode = "append" /\ slot \in DOMAIN values),
                            "AppendExists")
=============================================================================
