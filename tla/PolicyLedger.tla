---------------------------- MODULE PolicyLedger ----------------------------
(***************************************************************************)
(* PolicyDeploymentLedger (gco/policy_ledger.py) bound to a JSONL file:    *)
(* processes that open the file, append and fsync, export over it without  *)
(* fsync, fail, crash and restart, on a machine that may go down.  The     *)
(* module promises to work for a single writer; nothing keeps a second     *)
(* one, or a gco ledger-record, from the same file.                        *)
(*                                                                         *)
(* The file is a sequence of lines, a record or TORN, and a flag saying    *)
(* that the last line has no newline yet.  A write cut short leaves some   *)
(* part of its line: Reach says which parts.  What was written and not     *)
(* fsynced may be lost with the machine; the directory entry of a file is  *)
(* taken to be there once a record in it was fsynced.                      *)
(*                                                                         *)
(* SHA-256 is taken to be injective: the hash of an entry is its body.     *)
(***************************************************************************)
EXTENDS Integers, SequencesExt

CONSTANTS
    Processes,
    Policies,
    Versions,    \* intervention versions
    EventTypes,  \* the types of event that are recorded
    Reach,       \* parts of a line a failed write can leave in the file
    NONE,        \* no hash yet (GENESIS_PREV_HASH)
    TORN,        \* a line that is no JSON record
    MaxLines,    \* bound: lines in the file, and entries
    MaxAttempts, \* bound: appends begun
    MaxClock     \* bound: the last instant

ASSUME LedgerBounds == {MaxLines, MaxAttempts, MaxClock} \subseteq Nat

ActivationEventType == {"activate", "supersede", "deactivate"}

ASSUME EventTypesAssumption == EventTypes \subseteq ActivationEventType
ASSUME ReachAssumption ==
    Reach \subseteq {"nothing", "prefix", "unterminated", "line"}

VARIABLES
    lines,         \* the file
    unterminated,  \* whether its last line lacks the newline
    disk,          \* lines and unterminated as they are safe on the disk
    exported,      \* whether an export has written over the file since
    process,       \* per process: "down", "up" or, after a storage failure of
                   \* an append, "unusable"
    entries,       \* per process: _entries
    clock,
    acked,         \* history: the chains whose last record was returned
    past,          \* history: at each passed instant, the active policies
    incidents,     \* history: "shared", two ledgers were open on the file;
                   \* "cut", an export over it failed, or was not on the
                   \* disk when the machine went down; "newline", a write
                   \* lost its newline only; "misdated", a recorded_at
                   \* other than the present was passed
    attempts       \* appends begun so far

vars == <<lines, unterminated, disk, exported, process, entries, clock, acked,
          past, incidents, attempts>>
file == <<lines, unterminated>>
stored == <<file, disk, exported>>

-----------------------------------------------------------------------------
Body(r) == [sequence |-> r.sequence, event_type |-> r.event_type,
            policy_id |-> r.policy_id,
            intervention_version |-> r.intervention_version,
            recorded_at |-> r.recorded_at,
            prev_entry_hash |-> r.prev_entry_hash]

compute_entry_hash(body) == body

HeadHash(list) == IF list = <<>> THEN NONE ELSE Last(list).entry_hash

\* Mutant: sequences count from one.
NextSequenceFromOne(list) == Len(list) + 1

NextSequence(list) == Len(list)

\* The record record_activation builds.
NewRecord(list, type, policy, version, when) ==
    LET body == [sequence |-> NextSequence(list), event_type |-> type,
                 policy_id |-> policy, intervention_version |-> version,
                 recorded_at |-> when, prev_entry_hash |-> HeadHash(list)]
    IN  [f \in DOMAIN body \cup {"entry_hash"} |->
            IF f = "entry_hash" THEN compute_entry_hash(body) ELSE body[f]]

\* Mutant: the links between the entries are not compared.
ChainHoldsUnlinked(list) ==
    \A i \in DOMAIN list : /\ list[i].sequence = i - 1
                           /\ list[i].entry_hash = compute_entry_hash(Body(list[i]))

\* The loop of verify().
ChainHolds(list) ==
    \A i \in DOMAIN list :
        /\ list[i].sequence = i - 1
        /\ list[i].prev_entry_hash = HeadHash(SubSeq(list, 1, i - 1))
        /\ list[i].entry_hash = compute_entry_hash(Body(list[i]))

\* verify(expected_head)
Verifies(list, expected) ==
    ChainHolds(list) /\ list # <<>> /\ HeadHash(list) = expected

\* gco ledger-verify, of the file as it is.
LedgerVerify(expected) ==
    TORN \notin Range(lines) /\ Verifies(lines, expected)

\* One turn of the loop of _active_snapshot.
Applied(active, r) ==
    IF r.event_type = "deactivate"
    THEN [p \in DOMAIN active \ {r.policy_id} |-> active[p]]
    ELSE [p \in DOMAIN active \cup {r.policy_id} |->
             IF p = r.policy_id THEN r ELSE active[p]]

\* _active_snapshot: policy_id -> its active record, replayed in order.
ActiveSnapshot(list) ==
    LET after[n \in 0 .. Len(list)] ==
            IF n = 0 THEN <<>> ELSE Applied(after[n - 1], list[n])
    IN  after[Len(list)]

EventsOf(list, policy) == {i \in DOMAIN list : list[i].policy_id = policy}

\* Mutant: it looks from the first event on.
LatestForPolicyFromStart(list, policy) ==
    LET events == EventsOf(list, policy)
    IN  IF events = {} THEN NONE ELSE list[Min(events)]

\* latest_for_policy
LatestForPolicy(list, policy) ==
    LET events == EventsOf(list, policy)
    IN  IF events = {} THEN NONE ELSE list[Max(events)]

\* The order of as-of replay.  (The key ends with the random event_id, which
\* tells entries apart only in a list that does not verify; here they keep
\* their order.)
Sooner(list, i, j) ==
    \/ list[i].recorded_at < list[j].recorded_at
    \/ /\ list[i].recorded_at = list[j].recorded_at
       /\ \/ list[i].sequence < list[j].sequence
          \/ list[i].sequence = list[j].sequence /\ i < j

Sorted(list, known) ==
    LET order == CHOOSE f \in [1 .. Cardinality(known) -> known] :
                     /\ Range(f) = known
                     /\ \A k, l \in DOMAIN f : k < l => Sooner(list, f[k], f[l])
    IN  [k \in 1 .. Cardinality(known) |-> list[order[k]]]

KnownAt(list, at) == {i \in DOMAIN list : list[i].recorded_at <= at}

\* Mutant: as-of replay takes the events in the order they were appended.
AsOfUnsorted(list, at) ==
    ActiveSnapshot(SelectSeq(list, LAMBDA r : r.recorded_at <= at))

\* Mutant: events of the instant asked for are left out.
AsOfExclusive(list, at) == ActiveSnapshot(Sorted(list, KnownAt(list, at - 1)))

\* active_policies(at=...)
AsOf(list, at) == ActiveSnapshot(Sorted(list, KnownAt(list, at)))

\* What a line and its newline make of a file: they complete a last line that
\* has no newline, and two records on a line are no JSON.
Appended(record) ==
    IF unterminated THEN Append(Front(lines), TORN) ELSE Append(lines, record)

-----------------------------------------------------------------------------
Init ==
    /\ lines = <<>> /\ unterminated = FALSE
    /\ disk = file /\ exported = FALSE
    /\ process = [p \in Processes |-> "down"]
    /\ entries = [p \in Processes |-> <<>>]
    /\ clock = 0
    /\ acked = <<>> /\ past = <<>> /\ incidents = {} /\ attempts = 0

Noted(incident, happened) ==
    incidents' = incidents \cup (IF happened THEN {incident} ELSE {})

\* A write that is cut short, and what else happened with it.
NotedCut(part, others) ==
    incidents' = incidents \cup others
                   \cup (IF part = "unterminated" THEN {"newline"} ELSE {})

\* _load_jsonl: a line that does not parse raises and there is no ledger.
Load(p) ==
    /\ process[p] = "down"
    /\ TORN \notin Range(lines)
    /\ process' = [process EXCEPT ![p] = "up"]
    /\ entries' = [entries EXCEPT ![p] = lines]
    /\ Noted("shared", \E q \in Processes : process[q] = "up")
    /\ UNCHANGED <<stored, clock, acked, past, attempts>>

\* The constructor with its default verify_on_load.
Open(p) == Load(p) /\ ChainHolds(lines)

\* from_jsonl(verify=False), as the commands that report on a ledger do.
OpenUnverified(p) == Load(p)

Records(p) == {NewRecord(entries[p], type, policy, version, when) :
                  type \in EventTypes, policy \in Policies,
                  version \in Versions, when \in 0 .. MaxClock}

CanAppend(p) ==
    /\ process[p] = "up"
    /\ attempts < MaxAttempts /\ attempts' = attempts + 1
    /\ Len(lines) < MaxLines /\ Len(entries[p]) < MaxLines

\* Mutant: the line is written and not fsynced.
RecordActivationUnsynced(p) ==
    /\ CanAppend(p)
    /\ \E record \in Records(p) :
           /\ lines' = Appended(record) /\ unterminated' = FALSE
           /\ entries' = [entries EXCEPT ![p] = Append(@, record)]
           /\ acked' = Append(acked, Append(entries[p], record))
           /\ Noted("misdated", record.recorded_at # clock)
    /\ UNCHANGED <<disk, exported, process, clock, past>>

\* record_activation, with any recorded_at: the line is written and fsynced,
\* and with it all of the file, then remembered.
RecordActivation(p) ==
    /\ CanAppend(p)
    /\ \E record \in Records(p) :
           /\ lines' = Appended(record) /\ unterminated' = FALSE
           /\ disk' = file' /\ exported' = FALSE
           /\ entries' = [entries EXCEPT ![p] = Append(@, record)]
           /\ acked' = Append(acked, Append(entries[p], record))
           /\ Noted("misdated", record.recorded_at # clock)
    /\ UNCHANGED <<process, clock, past>>

\* What a part of an append leaves of the file.
Left(part, record) ==
    /\ NotedCut(part, {})
    /\ UNCHANGED <<disk, exported>>
    /\ IF part = "nothing" THEN UNCHANGED file
       ELSE /\ lines' = IF part = "prefix" /\ ~unterminated
                        THEN Append(lines, TORN) ELSE Appended(record)
            /\ unterminated' = (part # "line")

\* Mutant: a ledger whose append failed goes on.
AppendFailsUsable(p) ==
    /\ CanAppend(p)
    /\ \E record \in Records(p), part \in Reach : Left(part, record)
    /\ UNCHANGED <<process, entries, clock, acked, past>>

\* _append raises: an OSError from open, write, flush or fsync.
AppendFails(p) ==
    /\ CanAppend(p)
    /\ \E record \in Records(p), part \in Reach : Left(part, record)
    /\ process' = [process EXCEPT ![p] = "unusable"]
    /\ UNCHANGED <<entries, clock, acked, past>>

Gone(p) ==
    /\ process' = [process EXCEPT ![p] = "down"]
    /\ entries' = [entries EXCEPT ![p] = <<>>]

\* The process dies in the middle of an append.
CrashAppending(p) ==
    /\ CanAppend(p)
    /\ \E record \in Records(p), part \in Reach : Left(part, record)
    /\ Gone(p)
    /\ UNCHANGED <<clock, acked, past>>

\* export_jsonl over the file itself, without fsync.
Export(p) ==
    /\ process[p] = "up"
    /\ lines' = entries[p] /\ unterminated' = FALSE /\ exported' = TRUE
    /\ UNCHANGED <<disk, process, entries, clock, acked, past, incidents, attempts>>

\* The first n lines of a list and some part of the next.
Cut(list, n, part) ==
    /\ lines' = CASE part = "nothing" -> SubSeq(list, 1, n)
                   [] part = "prefix"  -> Append(SubSeq(list, 1, n), TORN)
                   [] OTHER            -> SubSeq(list, 1, n + 1)
    /\ unterminated' = (part # "nothing")

\* write_text truncates the file first, and fails part of the way.
Truncated(p) ==
    /\ process[p] = "up"
    /\ \E n \in 0 .. Len(entries[p]) - 1, part \in Reach \ {"line"} :
           Cut(entries[p], n, part) /\ NotedCut(part, {"cut"})
    /\ exported' = TRUE /\ UNCHANGED disk

\* An OSError, after which the ledger stays usable, as after no append.
ExportFails(p) ==
    /\ Truncated(p)
    /\ UNCHANGED <<process, entries, clock, acked, past, attempts>>

\* The process dies in the middle of an export.
CrashExporting(p) ==
    /\ Truncated(p) /\ Gone(p)
    /\ UNCHANGED <<clock, acked, past, attempts>>

Stop(p) ==
    /\ process[p] # "down" /\ Gone(p)
    /\ UNCHANGED <<stored, clock, acked, past, incidents, attempts>>

\* The machine goes down.  The file is what was safe on the disk, or what was
\* written since, as far as it got there: of an export, perhaps nothing.
Lost ==
    \/ /\ lines' = disk[1] /\ unterminated' = disk[2]
       /\ Noted("cut", exported /\ disk # file)
    \/ \E n \in (IF exported THEN 0 ELSE Len(disk[1])) .. Len(lines) - 1,
          part \in Reach \ {"line"} :
           /\ Cut(lines, n, part)
           /\ NotedCut(part, IF exported THEN {"cut"} ELSE {})

PowerLoss ==
    /\ Lost \/ UNCHANGED <<file, incidents>>
    /\ disk' = file' /\ exported' = FALSE
    /\ process' = [p \in Processes |-> "down"]
    /\ entries' = [p \in Processes |-> <<>>]
    /\ UNCHANGED <<clock, acked, past, attempts>>

Returned == [i \in DOMAIN acked |-> Last(acked[i])]

Tick ==
    /\ clock < MaxClock /\ clock' = clock + 1
    /\ past' = Append(past, ActiveSnapshot(Returned))
    /\ UNCHANGED <<stored, process, entries, acked, incidents, attempts>>

Next ==
    \/ Tick
    \/ PowerLoss
    \/ \E p \in Processes :
        \/ Open(p) \/ OpenUnverified(p) \/ RecordActivation(p) \/ AppendFails(p)
        \/ CrashAppending(p) \/ Export(p) \/ ExportFails(p) \/ CrashExporting(p)
        \/ Stop(p)

Spec == Init /\ [][Next]_vars

-----------------------------------------------------------------------------
(* Type invariant. *)
IsRecord(r) ==
    /\ r.event_type \in EventTypes /\ r.policy_id \in Policies
    /\ r.intervention_version \in Versions
    /\ r.recorded_at \in 0 .. MaxClock
    /\ r.sequence \in 0 .. MaxLines - 1

TypeOK ==
    /\ \A list \in {lines, disk[1]} :
           /\ Len(list) <= MaxLines
           /\ \A i \in DOMAIN list : list[i] # TORN => IsRecord(list[i])
    /\ {unterminated, disk[2], exported} \subseteq BOOLEAN
    /\ process \in [Processes -> {"down", "up", "unusable"}]
    /\ incidents \subseteq {"shared", "cut", "newline", "misdated"}
    /\ clock \in 0 .. MaxClock /\ Len(past) = clock

\* None of the incidents that part memory, file and disk.
Undisturbed == incidents \subseteq {"misdated"}

(***************************************************************************)
(* A writer that has the file to itself answers from memory what the file  *)
(* holds, through failed appends, exports over it, crashes of the process  *)
(* and of the machine, and restarts: a failed append leaves the two apart, *)
(* and the ledger must not go on.  Undisturbed leaves out an export that   *)
(* is cut short and, where memory and file do part, a write that loses its *)
(* newline and nothing else (EachRecordIsALine).                           *)
(***************************************************************************)
MemoryIsFile ==
    Undisturbed =>
        \A p \in Processes : process[p] = "up" => entries[p] = lines

(***************************************************************************)
(* A record that record_activation returned stays in the file, at its      *)
(* sequence number, through failed appends, completed exports over it,     *)
(* crashes of the process and of the machine, and restarts.  Undisturbed   *)
(* leaves out, beside a second writer and a lost newline, the export that  *)
(* takes such records away: one that fails, that the process dies in, or   *)
(* that has returned, without fsync, when the machine goes down.           *)
(***************************************************************************)
AckedStaysInFile ==
    Undisturbed =>
        \A i \in DOMAIN acked :
            /\ Len(acked[i]) <= Len(lines)
            /\ lines[Len(acked[i])] = Last(acked[i])

Opens(list) == TORN \notin Range(list) /\ ChainHolds(list)

(***************************************************************************)
(* No silent merge: when a ledger whose own chain holds appends to a file  *)
(* that another one has changed under it, even to the same length, nobody  *)
(* opens the result as a verified ledger.                                  *)
(***************************************************************************)
StaleAppendsShow ==
    [][\A p \in Processes :
        entries'[p] # entries[p] /\ process[p] = "up" /\ process'[p] = "up"
        /\ ChainHolds(entries[p]) /\ entries[p] # lines => ~Opens(lines')]_vars

(***************************************************************************)
(* A sealed head pins the history: whatever second writers, failed exports *)
(* and crashes make of the file, gco ledger-verify --expected-head with    *)
(* the hash of a record that was returned accepts it only if it is, record *)
(* by record, what its writer held then, if that was a chain.              *)
(***************************************************************************)
SealPinsHistory ==
    \A i \in DOMAIN acked :
        ChainHolds(acked[i]) /\ LedgerVerify(HeadHash(acked[i]))
            => lines = acked[i]

\* Alterations of a file by someone who does not recompute the hashes, and
\* truncation.
Altered(list) ==
    {SubSeq(list, 1, n) : n \in 0 .. Len(list) - 1}
      \cup {RemoveAt(list, i) : i \in DOMAIN list}
      \cup {[list EXCEPT ![ij[1]] = list[ij[2]], ![ij[2]] = list[ij[1]]] :
               ij \in {kl \in (DOMAIN list) \X (DOMAIN list) : kl[1] < kl[2]}}
      \cup {[list EXCEPT ![i] = [list[i] EXCEPT !.recorded_at = @ + 1]] :
               i \in DOMAIN list}
      \cup {[list EXCEPT ![i] = NewRecord(SubSeq(list, 1, i - 1),
                                    "activate", list[i].policy_id,
                                    list[i].intervention_version, MaxClock + 1)] :
               i \in DOMAIN list}

(***************************************************************************)
(* Tamper evidence: a seal of the head accepts the ledger and no alteration *)
(* of it, one entry re-hashed in place included.                           *)
(***************************************************************************)
TamperEvident ==
    \A p \in Processes : ChainHolds(entries[p]) /\ entries[p] # <<>> =>
        /\ Verifies(entries[p], HeadHash(entries[p]))
        /\ \A list \in Altered(entries[p]) :
               ~Verifies(list, HeadHash(entries[p]))

(***************************************************************************)
(* As-of queries are history: when every recorded_at is the present of its *)
(* call and no append is unacknowledged, active_policies(at=t) is what was *)
(* active at the end of t.                                                 *)
(***************************************************************************)
AsOfIsHistory ==
    \A p \in Processes :
        (/\ process[p] = "up" /\ ChainHolds(entries[p])
         /\ entries[p] = Returned /\ "misdated" \notin incidents)
            => \A t \in DOMAIN past : AsOf(entries[p], t - 1) = past[t]

\* The record of the policy that comes last in time, sequence breaking ties.
LatestOf(list, policy, at) ==
    CHOOSE r \in Range(list) :
        /\ r.policy_id = policy /\ r.recorded_at <= at
        /\ \A s \in Range(list) :
               s.policy_id = policy /\ s.recorded_at <= at =>
                   \/ s.recorded_at < r.recorded_at
                   \/ s.recorded_at = r.recorded_at /\ s.sequence <= r.sequence

(***************************************************************************)
(* policy-ledger.md: as-of replay applies the events "in recorded_at       *)
(* order", append sequence breaking ties, whatever past or future instant  *)
(* they were recorded for: in a ledger that verifies, a policy is active   *)
(* exactly when its last event in that order is no deactivation, with that *)
(* event's record.                                                         *)
(***************************************************************************)
AsOfIsLatestByTime ==
    \A p \in Processes, at \in 0 .. MaxClock, policy \in Policies :
        LET known  == \E r \in Range(entries[p]) :
                          r.policy_id = policy /\ r.recorded_at <= at
            latest == LatestOf(entries[p], policy, at)
            active == AsOf(entries[p], at)
        IN  ChainHolds(entries[p]) =>
                /\ policy \in DOMAIN active
                     <=> known /\ latest.event_type # "deactivate"
                /\ policy \in DOMAIN active => active[policy] = latest

(***************************************************************************)
(* The queries agree: without an instant, a policy is active exactly when  *)
(* its latest event is no deactivation, and then latest_for_policy returns *)
(* the active record.                                                      *)
(***************************************************************************)
LatestIsActive ==
    \A p \in Processes, policy \in Policies :
        LET latest == LatestForPolicy(entries[p], policy)
            active == ActiveSnapshot(entries[p])
        IN  IF latest = NONE \/ latest.event_type = "deactivate"
            THEN policy \notin DOMAIN active
            ELSE policy \in DOMAIN active /\ active[policy] = latest

-----------------------------------------------------------------------------
(* Statement of the documentation that the code does not keep *)

(***************************************************************************)
(* policy-ledger.md: "append-only JSONL; each record_* call appends one    *)
(* line and fsyncs."  Each record that was returned is a line of the file. *)
(* With one writer, and after an append of which only the newline is       *)
(* missing, the ledger opens, and the next record continues that line.     *)
(***************************************************************************)
EachRecordIsALine ==
    incidents \subseteq {"misdated", "newline"} =>
        Range(Returned) \subseteq Range(lines)
=============================================================================
