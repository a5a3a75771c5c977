---------------------------- MODULE LedgerProofs ----------------------------
(***************************************************************************)
(* What PolicyLedger promises, for every number of processes, policies and *)
(* events and with every kind of interrupted write, except where a theorem *)
(* names the ones it leaves out.                                           *)
(***************************************************************************)
EXTENDS PolicyLedger, ListProofs, FiniteSetTheorems

(***************************************************************************)
(* The parts of the inductive invariant.                                   *)
(***************************************************************************)
Fields == {"sequence", "event_type", "policy_id", "intervention_version",
           "recorded_at", "prev_entry_hash", "entry_hash"}

\* A record that record_activation built.
Made(r) ==
    /\ r = [f \in Fields |-> r[f]]
    /\ r.event_type \in EventTypes /\ r.policy_id \in Policies
    /\ r.intervention_version \in Versions
    /\ r.recorded_at \in 0 .. MaxClock
    /\ r.sequence \in 0 .. MaxLines - 1

\* What a file, and what a ledger's memory, can hold.
Lines(list) ==
    /\ Listed(list) /\ Len(list) <= MaxLines
    /\ \A i \in 1 .. Len(list) : list[i] # TORN => Made(list[i])

Memory(list) ==
    /\ Listed(list) /\ Len(list) <= MaxLines
    /\ \A i \in 1 .. Len(list) : Made(list[i])

LedgerTypes ==
    /\ clock \in 0 .. MaxClock /\ Listed(past) /\ Len(past) = clock
    /\ unterminated \in BOOLEAN /\ exported \in BOOLEAN
    /\ Lines(disk[1]) /\ disk[2] \in BOOLEAN
    /\ process \in [Processes -> {"down", "up", "unusable"}]
    /\ incidents \subseteq {"shared", "cut", "newline", "misdated"}
    /\ Lines(lines)
    /\ DOMAIN entries = Processes
    /\ \A p \in Processes : Memory(entries[p])
    /\ Listed(acked)
    /\ \A i \in DOMAIN acked : Memory(acked[i]) /\ acked[i] # <<>>

Begins(short, long) ==
    /\ Len(short) <= Len(long)
    /\ \A k \in 1 .. Len(short) : short[k] = long[k]

\* What holds while no second ledger was open, no export over the file was cut
\* short and no write lost just its newline: one process at most is up, what it
\* remembers is the file, which it left terminated; the chains that were
\* returned are prefixes of what is safe on the disk, and that of the file.
OneWriter ==
    /\ \A p, q \in Processes : process[p] = "up" /\ process[q] = "up" => p = q
    /\ \A p \in Processes : process[p] = "up" => entries[p] = lines
    /\ \A p \in Processes : process[p] = "up" => ~unterminated
    /\ unterminated => TORN \in Range(lines)
    /\ disk[2] => TORN \in Range(disk[1])
    /\ \A i \in DOMAIN acked : Begins(acked[i], disk[1])
    /\ Begins(disk[1], lines)

Alone == Undisturbed => OneWriter

-----------------------------------------------------------------------------
(* Records and the lists they are put into *)

(***************************************************************************)
(* What the constructor of a record makes of a list, field by field.       *)
(***************************************************************************)
LEMMA NewRecordFields ==
    ASSUME NEW list, NEW type, NEW policy, NEW version, NEW when
    PROVE  LET r == NewRecord(list, type, policy, version, when)
           IN  /\ r = [f \in Fields |-> r[f]]
               /\ r.sequence = Len(list) /\ r.event_type = type
               /\ r.policy_id = policy /\ r.intervention_version = version
               /\ r.recorded_at = when /\ r.prev_entry_hash = HeadHash(list)
               /\ r.entry_hash = Body(r)
<1> DEFINE body == [sequence |-> NextSequence(list), event_type |-> type,
                    policy_id |-> policy, intervention_version |-> version,
                    recorded_at |-> when, prev_entry_hash |-> HeadHash(list)]
           r == NewRecord(list, type, policy, version, when)
<1>1. DOMAIN body = {"sequence", "event_type", "policy_id",
                     "intervention_version", "recorded_at", "prev_entry_hash"}
  OBVIOUS
<1>2. DOMAIN body \cup {"entry_hash"} = Fields
  BY <1>1 DEF Fields
<1>3. r = [f \in Fields |-> IF f = "entry_hash" THEN body ELSE body[f]]
  BY <1>2 DEF NewRecord, compute_entry_hash
<1>4. /\ body.sequence = Len(list) /\ body.event_type = type
      /\ body.policy_id = policy /\ body.intervention_version = version
      /\ body.recorded_at = when /\ body.prev_entry_hash = HeadHash(list)
  BY DEF NextSequence
<1> HIDE DEF r
<1>5. /\ r.sequence = body.sequence /\ r.event_type = body.event_type
      /\ r.policy_id = body.policy_id
      /\ r.intervention_version = body.intervention_version
      /\ r.recorded_at = body.recorded_at
      /\ r.prev_entry_hash = body.prev_entry_hash /\ r.entry_hash = body
  BY <1>3 DEF Fields
<1>6. Body(r) = body
  BY <1>5 DEF Body, NextSequence
<1>7. r = [f \in Fields |-> r[f]]
  BY <1>3
<1> HIDE DEF body
<1> QED BY <1>4, <1>5, <1>6, <1>7 DEF r

LEMMA NewRecordMade ==
    ASSUME NEW list, Memory(list), Len(list) < MaxLines,
           NEW type \in EventTypes, NEW policy \in Policies,
           NEW version \in Versions, NEW when \in 0 .. MaxClock
    PROVE  Made(NewRecord(list, type, policy, version, when))
<1> DEFINE r == NewRecord(list, type, policy, version, when)
<1>1. /\ r = [f \in Fields |-> r[f]]
      /\ r.sequence = Len(list) /\ r.event_type = type
      /\ r.policy_id = policy /\ r.intervention_version = version
      /\ r.recorded_at = when
  BY NewRecordFields
<1>2. Len(list) \in 0 .. MaxLines - 1
  BY ListedFacts, LedgerBounds DEF Memory
<1> HIDE DEF r
<1> QED BY <1>1, <1>2 DEF Made, r

\* A file that loads is a memory; a memory is a file that loads.
LEMMA LinesAndMemory ==
    ASSUME NEW list
    PROVE  /\ Memory(list) => Lines(list)
           /\ Lines(list) /\ TORN \notin Range(list) => Memory(list)
<1>1. ASSUME Lines(list), TORN \notin Range(list)
      PROVE  Memory(list)
  <2>1. \A i \in 1 .. Len(list) : list[i] # TORN
    BY <1>1, ListedFacts DEF Lines, Range
  <2> QED BY <1>1, <2>1 DEF Lines, Memory
<1> QED BY <1>1 DEF Lines, Memory

LEMMA LinesAppend ==
    ASSUME NEW list, Len(list) < MaxLines, NEW r
    PROVE  /\ Lines(list) /\ (r # TORN => Made(r)) => Lines(Append(list, r))
           /\ Memory(list) /\ Made(r) => Memory(Append(list, r))
<1>1. ASSUME Listed(list)
      PROVE  /\ Listed(Append(list, r))
             /\ Len(Append(list, r)) <= MaxLines
             /\ \A i \in 1 .. Len(Append(list, r)) :
                    \/ i \in 1 .. Len(list) /\ Append(list, r)[i] = list[i]
                    \/ Append(list, r)[i] = r
  BY <1>1, ListedAppend, ListedFacts, LedgerBounds
<1>2. ASSUME Lines(list), r # TORN => Made(r)
      PROVE  Lines(Append(list, r))
  BY <1>1, <1>2 DEF Lines
<1>3. ASSUME Memory(list), Made(r)
      PROVE  Memory(Append(list, r))
  BY <1>1, <1>3 DEF Memory
<1> QED BY <1>2, <1>3

LEMMA LinesPrefix ==
    ASSUME NEW list, NEW n \in 0 .. Len(list), Lines(list)
    PROVE  Lines(SubSeq(list, 1, n))
<1>1. Listed(list) /\ Len(list) \in Nat /\ Len(list) <= MaxLines
  BY ListedFacts DEF Lines
<1>2. /\ Listed(SubSeq(list, 1, n)) /\ Len(SubSeq(list, 1, n)) = n
      /\ \A i \in 1 .. n : SubSeq(list, 1, n)[i] = list[i]
  BY <1>1, ListedPrefix
<1>3. n <= MaxLines /\ \A i \in 1 .. n : i \in 1 .. Len(list)
  BY <1>1, LedgerBounds
<1> QED BY <1>2, <1>3 DEF Lines

-----------------------------------------------------------------------------
(* Chains *)

LEMMA HeadOfPrefix ==
    ASSUME NEW list, Listed(list), NEW n \in 1 .. Len(list)
    PROVE  HeadHash(SubSeq(list, 1, n)) = list[n].entry_hash
<1> DEFINE prefix == SubSeq(list, 1, n)
<1>1. Len(list) \in Nat /\ n \in 0 .. Len(list) /\ n \in 1 .. n
  BY ListedFacts
<1>2. Listed(prefix) /\ Len(prefix) = n /\ prefix[n] = list[n]
  BY <1>1, ListedPrefix
<1> HIDE DEF prefix
<1>3. prefix # <<>>
  BY <1>2, ListedFacts
<1> QED BY <1>2, <1>3 DEF HeadHash, Last, prefix

LEMMA HeadOfList ==
    ASSUME NEW list, Listed(list), list # <<>>
    PROVE  Len(list) \in 1 .. Len(list) /\ HeadHash(list) = list[Len(list)].entry_hash
BY ListedFacts DEF HeadHash, Last

\* What equal hashes of two bodies say of their records.
LEMMA BodiesAgree ==
    ASSUME NEW r, NEW s, Body(r) = Body(s)
    PROVE  /\ r.sequence = s.sequence /\ r.event_type = s.event_type
           /\ r.policy_id = s.policy_id
           /\ r.intervention_version = s.intervention_version
           /\ r.recorded_at = s.recorded_at
           /\ r.prev_entry_hash = s.prev_entry_hash
BY DEF Body

\* Two chains with the same head hash have the same length, since the hash of
\* an entry covers its sequence number.
LEMMA SameLength ==
    ASSUME NEW a, NEW b, Listed(a), Listed(b), ChainHolds(a), ChainHolds(b),
           a # <<>>, b # <<>>, HeadHash(a) = HeadHash(b)
    PROVE  Len(a) = Len(b)
<1>1. /\ Len(a) \in Nat /\ Len(b) \in Nat
      /\ DOMAIN a = 1 .. Len(a) /\ DOMAIN b = 1 .. Len(b)
      /\ Len(a) \in 1 .. Len(a) /\ Len(b) \in 1 .. Len(b)
  BY ListedFacts, HeadOfList
<1>2. PICK n \in Nat, l \in Nat : n = Len(a) /\ l = Len(b)
  BY <1>1
<1>3. /\ a[n].sequence = n - 1 /\ a[n].entry_hash = Body(a[n])
      /\ b[l].sequence = l - 1 /\ b[l].entry_hash = Body(b[l])
  BY <1>1, <1>2 DEF ChainHolds, compute_entry_hash
<1>4. a[n].entry_hash = b[l].entry_hash
  BY <1>1, <1>2, HeadOfList
<1>5. a[n].sequence = b[l].sequence
  <2>1. Body(a[n]) = Body(b[l])
    BY <1>3, <1>4
  <2> QED BY <2>1, BodiesAgree
<1>6. n - 1 = l - 1
  BY <1>3, <1>5
<1> QED BY <1>2, <1>6

\* A list of records, of any kind.
Shaped(list) ==
    /\ Listed(list)
    /\ \A i \in 1 .. Len(list) : list[i] = [f \in Fields |-> list[i][f]]

LEMMA MemoryShaped ==
    ASSUME NEW list, Memory(list)
    PROVE  Shaped(list)
BY DEF Memory, Made, Shaped

(***************************************************************************)
(* The seal: two chains with the same head hash are the same chain, since  *)
(* an entry's hash covers its sequence number and the hash before it.      *)
(***************************************************************************)
LEMMA ChainsAgree ==
    ASSUME NEW a, NEW b, Shaped(a), Shaped(b), ChainHolds(a), ChainHolds(b),
           a # <<>>, b # <<>>, HeadHash(a) = HeadHash(b)
    PROVE  a = b
<1>1. /\ Listed(a) /\ Listed(b) /\ Len(a) \in Nat /\ Len(b) = Len(a)
      /\ DOMAIN a = 1 .. Len(a) /\ DOMAIN b = 1 .. Len(b)
      /\ Len(a) \in 1 .. Len(a)
  BY ListedFacts, HeadOfList, SameLength DEF Shaped
<1>2. PICK n \in Nat : n = Len(a) /\ n = Len(b)
  BY <1>1
<1>3. \A i \in 1 .. n :
          /\ a[i].sequence = i - 1
          /\ a[i].prev_entry_hash = HeadHash(SubSeq(a, 1, i - 1))
          /\ a[i].entry_hash = Body(a[i])
  BY <1>1, <1>2 DEF ChainHolds, compute_entry_hash
<1>4. \A i \in 1 .. n :
          /\ b[i].sequence = i - 1
          /\ b[i].prev_entry_hash = HeadHash(SubSeq(b, 1, i - 1))
          /\ b[i].entry_hash = Body(b[i])
  BY <1>1, <1>2 DEF ChainHolds, compute_entry_hash
<1>5. n \in 1 .. n /\ a[n].entry_hash = b[n].entry_hash
  BY <1>1, <1>2, HeadOfList
<1> DEFINE Differ == {k \in 1 .. n : a[k].entry_hash # b[k].entry_hash}
<1>6. Differ = {}
  <2> SUFFICES ASSUME Differ # {} PROVE FALSE
    OBVIOUS
  <2>1. Differ \subseteq 1 .. n
    OBVIOUS
  <2>2. PICK m : m = Max(Differ)
    OBVIOUS
  <2>3. m \in Differ /\ \A k \in Differ : m >= k
    <3> HIDE DEF Differ
    <3> QED BY <2>1, <2>2, MaxInSet
  <2>4. m \in 1 .. n /\ a[m].entry_hash # b[m].entry_hash
    BY <2>3
  <2>5. m # n
    BY <1>5, <2>4
  <2>6. m + 1 \in 1 .. n /\ (m + 1) - 1 = m
    <3> HIDE DEF Differ
    <3> QED BY <2>4, <2>5
  <2>7. m + 1 \notin Differ
    <3> SUFFICES ASSUME m + 1 \in Differ PROVE FALSE
      OBVIOUS
    <3>1. m >= m + 1
      <4> HIDE DEF Differ
      <4> QED BY <2>3
    <3> QED BY <2>4, <3>1
  <2>8. a[m + 1].entry_hash = b[m + 1].entry_hash
    BY <2>6, <2>7
  <2> HIDE DEF Differ
  <2>9. Body(a[m + 1]) = Body(b[m + 1])
    BY <1>3, <1>4, <2>6, <2>8
  <2>10. HeadHash(SubSeq(a, 1, m)) = HeadHash(SubSeq(b, 1, m))
    <3>1. a[m + 1].prev_entry_hash = b[m + 1].prev_entry_hash
      BY <2>9, BodiesAgree
    <3> QED BY <1>3, <1>4, <2>6, <3>1
  <2> QED BY <1>1, <1>2, <2>4, <2>10, HeadOfPrefix
<1>7. ASSUME NEW k \in 1 .. n
      PROVE  a[k] = b[k]
  <2>1. a[k].entry_hash = b[k].entry_hash
    BY <1>6
  <2>2. Body(a[k]) = Body(b[k])
    BY <1>3, <1>4, <2>1
  <2>3. /\ a[k] = [f \in Fields |-> a[k][f]]
        /\ b[k] = [f \in Fields |-> b[k][f]]
    BY <1>2 DEF Shaped
  <2>4. \A f \in Fields : a[k][f] = b[k][f]
    BY <2>1, <2>2, BodiesAgree DEF Fields
  <2> QED BY <2>3, <2>4
<1> QED BY <1>1, <1>2, <1>7, ListedEqual

\* A prefix of a chain is one.
LEMMA ChainPrefix ==
    ASSUME NEW list, NEW r, Listed(list), ChainHolds(Append(list, r))
    PROVE  /\ ChainHolds(list)
           /\ r.sequence = Len(list)
           /\ r.prev_entry_hash = HeadHash(list)
<1> DEFINE long == Append(list, r)
           n == Len(list)
<1>1. /\ n \in Nat /\ DOMAIN list = 1 .. n /\ DOMAIN long = 1 .. n + 1
      /\ Len(long) = n + 1 /\ Listed(long) /\ long[n + 1] = r
      /\ \A i \in 1 .. n : long[i] = list[i]
  BY ListedFacts, ListedAppend
<1>2. \A k \in 0 .. n : SubSeq(long, 1, k) = SubSeq(list, 1, k)
  <2> TAKE k \in 0 .. n
  <2>1. k \in 0 .. n + 1 /\ \A i \in 1 .. k : i \in 1 .. n
    BY <1>1
  <2>2. /\ Listed(SubSeq(long, 1, k)) /\ Len(SubSeq(long, 1, k)) = k
        /\ \A i \in 1 .. k : SubSeq(long, 1, k)[i] = long[i]
    <3> HIDE DEF long
    <3> QED BY <1>1, <2>1, ListedPrefix
  <2>3. /\ Listed(SubSeq(list, 1, k)) /\ Len(SubSeq(list, 1, k)) = k
        /\ \A i \in 1 .. k : SubSeq(list, 1, k)[i] = list[i]
    BY ListedPrefix
  <2> HIDE DEF long, n
  <2> QED BY <1>1, <2>1, <2>2, <2>3, ListedEqual
<1>3. \A i \in 1 .. n + 1 :
          /\ long[i].sequence = i - 1
          /\ long[i].prev_entry_hash = HeadHash(SubSeq(long, 1, i - 1))
          /\ long[i].entry_hash = compute_entry_hash(Body(long[i]))
  BY <1>1 DEF ChainHolds
<1>4. SubSeq(list, 1, n) = list
  <2>1. n \in 0 .. n
    BY <1>1
  <2> QED BY <1>1, <2>1, ListedPrefix, ListedEqual
<1> HIDE DEF long, n
<1>5. n + 1 \in 1 .. n + 1 /\ (n + 1) - 1 = n /\ n \in 0 .. n
  BY <1>1
<1>6. r.sequence = n /\ r.prev_entry_hash = HeadHash(list)
  BY <1>1, <1>2, <1>3, <1>4, <1>5
<1>7. ASSUME NEW i \in 1 .. n
      PROVE  /\ list[i].sequence = i - 1
             /\ list[i].prev_entry_hash = HeadHash(SubSeq(list, 1, i - 1))
             /\ list[i].entry_hash = compute_entry_hash(Body(list[i]))
  <2>1. i \in 1 .. n + 1 /\ i - 1 \in 0 .. n
    BY <1>1
  <2> QED BY <1>1, <1>2, <1>3, <2>1
<1>8. ChainHolds(list)
  BY <1>1, <1>7 DEF ChainHolds
<1> QED BY <1>6, <1>8 DEF n

-----------------------------------------------------------------------------
(* Types *)

LEMMA LinesFront ==
    ASSUME NEW list, Lines(list)
    PROVE  Lines(Front(list)) /\ Len(Front(list)) <= Len(list)
<1>1. PICK n \in Nat : n = Len(list)
  BY ListedFacts DEF Lines
<1>2. CASE n = 0
  <2>1. 0 \in 0 .. Len(list) /\ Len(list) = 0
    BY <1>1, <1>2
  <2>2. Front(list) = SubSeq(list, 1, 0 - 1)
    BY <2>1 DEF Front
  <2>3. /\ SubSeq(list, 1, 0 - 1) \in Seq({})
        /\ Len(SubSeq(list, 1, 0 - 1)) = 0
    <3>1. \A i \in 1 .. 0 - 1 : list[i] \in {}
      OBVIOUS
    <3>2. /\ SubSeq(list, 1, 0 - 1) \in Seq({})
          /\ Len(SubSeq(list, 1, 0 - 1)) = IF 1 <= 0 - 1 THEN (0 - 1) - 1 + 1 ELSE 0
      BY <3>1, SubSeqProperties, 1 \in Int, 0 - 1 \in Int
    <3> QED BY <3>2
  <2>4. Listed(Front(list)) /\ Len(Front(list)) = 0
    BY <2>2, <2>3, SeqListed
  <2> QED BY <2>1, <2>4, LedgerBounds DEF Lines
<1>3. CASE n # 0
  <2>1. n - 1 \in 0 .. Len(list) /\ n - 1 <= Len(list)
    BY <1>1, <1>3
  <2>2. Front(list) = SubSeq(list, 1, n - 1)
    BY <1>1 DEF Front
  <2>3. Lines(SubSeq(list, 1, n - 1))
    BY <2>1, LinesPrefix
  <2>4. Len(SubSeq(list, 1, n - 1)) = n - 1
    BY <2>1, ListedPrefix DEF Lines
  <2> QED BY <1>1, <2>1, <2>2, <2>3, <2>4
<1> QED BY <1>2, <1>3

\* What is written of a record of p, whole or in part, keeps the file well
\* formed.
LEMMA RecordsMade ==
    ASSUME LedgerTypes, NEW p \in Processes, Len(entries[p]) < MaxLines,
           NEW record \in Records(p)
    PROVE  Made(record)
<1>1. PICK type \in EventTypes, policy \in Policies, version \in Versions,
           when \in 0 .. MaxClock :
               record = NewRecord(entries[p], type, policy, version, when)
  BY DEF Records
<1>2. Memory(entries[p])
  BY DEF LedgerTypes
<1> QED BY <1>1, <1>2, NewRecordMade

LEMMA AppendedLines ==
    ASSUME LedgerTypes, Len(lines) < MaxLines, NEW record, Made(record)
    PROVE  Lines(Appended(record))
<1>1. Lines(lines) /\ Len(lines) \in Nat
  BY ListedFacts DEF LedgerTypes, Lines
<1>2. Lines(Front(lines)) /\ Len(Front(lines)) <= Len(lines)
  BY <1>1, LinesFront
<1>3. Len(Front(lines)) < MaxLines
  BY <1>1, <1>2, ListedFacts, LedgerBounds DEF Lines
<1>4. Lines(Append(Front(lines), TORN))
  BY <1>2, <1>3, LinesAppend
<1>5. Lines(Append(lines, record))
  BY <1>1, LinesAppend
<1> QED BY <1>4, <1>5 DEF Appended

LEMMA LeftLines ==
    ASSUME LedgerTypes, Len(lines) < MaxLines, NEW part, NEW record,
           Made(record), Left(part, record)
    PROVE  Lines(lines') /\ unterminated' \in BOOLEAN
<1>1. Lines(Appended(record))
  BY AppendedLines
<1>2. Lines(Append(lines, TORN))
  BY LinesAppend DEF LedgerTypes
<1>3. CASE part = "nothing"
  BY <1>3 DEF Left, file, LedgerTypes
<1>4. CASE part # "nothing"
  BY <1>1, <1>2, <1>4 DEF Left
<1> QED BY <1>3, <1>4

LEMMA CutLines ==
    ASSUME NEW list, Lines(list), NEW n \in 0 .. Len(list) - 1, NEW part,
           Cut(list, n, part)
    PROVE  Lines(lines') /\ unterminated' \in BOOLEAN
<1>1. /\ lines' = CASE part = "nothing" -> SubSeq(list, 1, n)
                     [] part = "prefix"  -> Append(SubSeq(list, 1, n), TORN)
                     [] OTHER -> SubSeq(list, 1, n + 1)
      /\ unterminated' = (part # "nothing")
  BY DEF Cut
<1>2. Listed(list) /\ Len(list) \in Nat /\ Len(list) <= MaxLines
  BY ListedFacts DEF Lines
<1>3. n \in 0 .. Len(list) /\ n + 1 \in 0 .. Len(list) /\ n < MaxLines
  BY <1>2, LedgerBounds
<1>4. /\ Lines(SubSeq(list, 1, n)) /\ Lines(SubSeq(list, 1, n + 1))
      /\ Len(SubSeq(list, 1, n)) = n
  BY <1>2, <1>3, LinesPrefix, ListedPrefix
<1>5. Lines(Append(SubSeq(list, 1, n), TORN))
  BY <1>3, <1>4, LinesAppend
<1> QED BY <1>1, <1>4, <1>5

LEMMA TruncatedLines ==
    ASSUME LedgerTypes, NEW p \in Processes, Truncated(p)
    PROVE  Lines(lines') /\ unterminated' \in BOOLEAN
<1>1. PICK n \in 0 .. Len(entries[p]) - 1, part \in Reach \ {"line"} :
          Cut(entries[p], n, part)
  BY DEF Truncated
<1>2. Lines(entries[p])
  BY LinesAndMemory DEF LedgerTypes
<1> QED BY <1>1, <1>2, CutLines

LEMMA LostLines ==
    ASSUME LedgerTypes, Lost
    PROVE  Lines(lines') /\ unterminated' \in BOOLEAN
<1>1. CASE lines' = disk[1] /\ unterminated' = disk[2]
  BY <1>1 DEF LedgerTypes
<1>2. ASSUME NEW n \in (IF exported THEN 0 ELSE Len(disk[1])) .. Len(lines) - 1,
             NEW part, Cut(lines, n, part)
      PROVE  Lines(lines') /\ unterminated' \in BOOLEAN
  <2>1. Lines(lines) /\ Len(lines) \in Nat /\ Len(disk[1]) \in Nat
    BY ListedFacts DEF LedgerTypes, Lines
  <2>2. n \in 0 .. Len(lines) - 1
    BY <2>1
  <2> QED BY <1>2, <2>1, <2>2, CutLines
<1> QED BY <1>1, <1>2 DEF Lost

Statuses == {"down", "up", "unusable"}
Kinds == {"shared", "cut", "newline", "misdated"}

LEMMA EmptyMemory == Memory(<<>>)
<1>1. Listed(<<>>)
  <2>1. <<>> \in Seq({})
    OBVIOUS
  <2> QED BY <2>1, SeqListed
<1>2. Len(<<>>) = 0
  OBVIOUS
<1> QED BY <1>1, <1>2, LedgerBounds DEF Memory

\* A process that stops holds nothing; the others are as they were.
LEMMA GoneTypes ==
    ASSUME LedgerTypes, NEW p \in Processes, Gone(p)
    PROVE  /\ process' \in [Processes -> Statuses]
           /\ DOMAIN entries' = Processes
           /\ \A q \in Processes : Memory(entries'[q])
<1>1. DOMAIN entries' = Processes
  BY DEF Gone, LedgerTypes
<1>2. \A q \in Processes : entries'[q] = IF q = p THEN <<>> ELSE entries[q]
  BY DEF Gone, LedgerTypes
<1>3. \A q \in Processes : Memory(entries'[q])
  BY <1>2, EmptyMemory DEF LedgerTypes
<1>4. process' \in [Processes -> Statuses]
  BY DEF Gone, LedgerTypes, Statuses
<1> QED BY <1>1, <1>3, <1>4

LEMMA NotedTypes ==
    ASSUME LedgerTypes, NEW incident \in Kinds, NEW happened,
           Noted(incident, happened)
    PROVE  incidents' \subseteq Kinds
BY DEF Noted, LedgerTypes, Kinds

LEMMA NotedCutTypes ==
    ASSUME LedgerTypes, NEW part, NEW others, others \subseteq Kinds,
           NotedCut(part, others)
    PROVE  incidents' \subseteq Kinds
BY DEF NotedCut, LedgerTypes, Kinds

\* What is left to show of a step that returns no record and takes no time.
LEMMA KeptTypes ==
    ASSUME LedgerTypes, UNCHANGED <<clock, past, acked>>,
           Lines(lines'), unterminated' \in BOOLEAN,
           Lines(disk'[1]), disk'[2] \in BOOLEAN, exported' \in BOOLEAN,
           process' \in [Processes -> Statuses], incidents' \subseteq Kinds,
           DOMAIN entries' = Processes,
           \A q \in Processes : Memory(entries'[q])
    PROVE  LedgerTypes'
BY DEF LedgerTypes, Statuses, Kinds

LEMMA TypesNow ==
    ASSUME LedgerTypes
    PROVE  /\ Lines(lines) /\ unterminated \in BOOLEAN
           /\ Lines(disk[1]) /\ disk[2] \in BOOLEAN /\ exported \in BOOLEAN
           /\ process \in [Processes -> Statuses] /\ incidents \subseteq Kinds
           /\ DOMAIN entries = Processes
           /\ \A q \in Processes : Memory(entries[q])
BY DEF LedgerTypes, Statuses, Kinds

LEMMA TickTypes ==
    ASSUME LedgerTypes, Tick
    PROVE  LedgerTypes'
<1>1. clock' \in 0 .. MaxClock /\ clock' = clock + 1
  BY LedgerBounds DEF LedgerTypes, Tick
<1>2. Listed(past') /\ Len(past') = clock'
  BY <1>1, ListedAppend DEF LedgerTypes, Tick
<1> QED BY <1>1, <1>2 DEF LedgerTypes, Tick, stored, file

LEMMA LoadTypes ==
    ASSUME LedgerTypes, NEW p \in Processes, Load(p)
    PROVE  LedgerTypes'
<1>1. Memory(lines)
  BY LinesAndMemory DEF LedgerTypes, Load
<1>2. /\ DOMAIN entries' = Processes
      /\ \A q \in Processes : entries'[q] = IF q = p THEN lines ELSE entries[q]
  BY DEF LedgerTypes, Load
<1>3. \A q \in Processes : Memory(entries'[q])
  BY <1>1, <1>2, TypesNow
<1>4. process' \in [Processes -> Statuses]
  BY TypesNow DEF Load, Statuses
<1>5. incidents' \subseteq Kinds
  <2>1. Noted("shared", \E q \in Processes : process[q] = "up")
    BY DEF Load
  <2> QED BY <2>1, NotedTypes DEF Kinds
<1>6. UNCHANGED <<lines, unterminated, disk, exported, clock, past, acked>>
  BY DEF Load, stored, file
<1> QED BY <1>2, <1>3, <1>4, <1>5, <1>6, TypesNow, KeptTypes

LEMMA RecordTypes ==
    ASSUME LedgerTypes, NEW p \in Processes, RecordActivation(p)
    PROVE  LedgerTypes'
<1>1. PICK record \in Records(p) :
          /\ lines' = Appended(record) /\ unterminated' = FALSE
          /\ disk' = file' /\ exported' = FALSE
          /\ entries' = [entries EXCEPT ![p] = Append(@, record)]
          /\ acked' = Append(acked, Append(entries[p], record))
          /\ Noted("misdated", record.recorded_at # clock)
  BY DEF RecordActivation
<1>2. /\ Len(lines) < MaxLines /\ Len(entries[p]) < MaxLines
      /\ UNCHANGED <<process, clock, past>>
  BY DEF RecordActivation, CanAppend
<1>3. Made(record)
  BY <1>2, RecordsMade
<1>4. Lines(lines')
  BY <1>1, <1>2, <1>3, AppendedLines
<1>5. Memory(Append(entries[p], record))
  BY <1>2, <1>3, LinesAppend, TypesNow
<1>6. /\ DOMAIN entries' = Processes
      /\ \A q \in Processes :
             entries'[q] = IF q = p THEN Append(entries[p], record) ELSE entries[q]
  BY <1>1 DEF LedgerTypes
<1>7. \A q \in Processes : Memory(entries'[q])
  BY <1>5, <1>6, TypesNow
<1>8. incidents' \subseteq Kinds
  BY <1>1, NotedTypes DEF Kinds
<1>9. /\ Listed(acked')
      /\ \A i \in DOMAIN acked' : Memory(acked'[i]) /\ acked'[i] # <<>>
  <2>1. Append(entries[p], record) # <<>>
    OBVIOUS
  <2>2. Listed(acked) /\ DOMAIN acked = 1 .. Len(acked) /\ Len(acked) \in Nat
    BY ListedFacts DEF LedgerTypes
  <2>3. /\ Listed(acked') /\ DOMAIN acked' = 1 .. Len(acked) + 1
        /\ \A i \in 1 .. Len(acked) : acked'[i] = acked[i]
        /\ acked'[Len(acked) + 1] = Append(entries[p], record)
    BY <1>1, <2>2, ListedAppend
  <2>4. \A i \in 1 .. Len(acked) + 1 : i \in 1 .. Len(acked) \/ i = Len(acked) + 1
    BY <2>2
  <2>5. \A i \in 1 .. Len(acked) : Memory(acked[i]) /\ acked[i] # <<>>
    BY <2>2 DEF LedgerTypes
  <2> QED BY <1>5, <2>1, <2>3, <2>4, <2>5
<1>10. disk'[1] = lines' /\ disk'[2] = unterminated'
  BY <1>1 DEF file
<1> QED BY <1>1, <1>2, <1>4, <1>6, <1>7, <1>8, <1>9, <1>10, TypesNow
        DEF LedgerTypes, Statuses, Kinds

LEMMA StepTypes ==
    ASSUME LedgerTypes, [Next]_vars
    PROVE  LedgerTypes'
<1>1. CASE UNCHANGED vars
  BY <1>1 DEF LedgerTypes, vars
<1>2. CASE Tick
  BY <1>2, TickTypes
<1>9. CASE PowerLoss
  <2>1. Lines(lines') /\ unterminated' \in BOOLEAN
    BY <1>9, TypesNow, LostLines DEF PowerLoss, file
  <2>2. incidents' \subseteq Kinds
    <3>1. CASE Noted("cut", exported /\ disk # file)
      BY <3>1, NotedTypes DEF Kinds
    <3>2. ASSUME NEW part, NotedCut(part, IF exported THEN {"cut"} ELSE {})
          PROVE  incidents' \subseteq Kinds
      BY <3>2, NotedCutTypes DEF Kinds
    <3>3. CASE incidents' = incidents
      BY <3>3, TypesNow
    <3> QED BY <1>9, <3>1, <3>2, <3>3 DEF PowerLoss, Lost
  <2>3. disk'[1] = lines' /\ disk'[2] = unterminated' /\ exported' = FALSE
    BY <1>9 DEF PowerLoss, file
  <2>4. /\ process' \in [Processes -> Statuses] /\ DOMAIN entries' = Processes
        /\ \A q \in Processes : Memory(entries'[q])
    BY <1>9, EmptyMemory DEF PowerLoss, Statuses
  <2>5. UNCHANGED <<clock, past, acked>>
    BY <1>9 DEF PowerLoss
  <2> QED BY <2>1, <2>2, <2>3, <2>4, <2>5, KeptTypes
<1>3. ASSUME NEW p \in Processes, Open(p) \/ OpenUnverified(p)
      PROVE  LedgerTypes'
  BY <1>3, LoadTypes DEF Open, OpenUnverified
<1>4. ASSUME NEW p \in Processes, RecordActivation(p)
      PROVE  LedgerTypes'
  BY <1>4, RecordTypes
<1>5. ASSUME NEW p \in Processes, AppendFails(p) \/ CrashAppending(p)
      PROVE  LedgerTypes'
  <2>1. PICK record \in Records(p), part \in Reach : Left(part, record)
    BY <1>5 DEF AppendFails, CrashAppending
  <2>2. Len(lines) < MaxLines /\ Len(entries[p]) < MaxLines
    BY <1>5 DEF AppendFails, CrashAppending, CanAppend
  <2>3. Lines(lines') /\ unterminated' \in BOOLEAN
    BY <2>1, <2>2, RecordsMade, LeftLines
  <2>4. UNCHANGED <<clock, past, acked, disk, exported>> /\ incidents' \subseteq Kinds
    BY <1>5, <2>1, NotedCutTypes DEF AppendFails, CrashAppending, Left
  <2>5. /\ process' \in [Processes -> Statuses] /\ DOMAIN entries' = Processes
        /\ \A q \in Processes : Memory(entries'[q])
    <3>1. CASE AppendFails(p)
      BY <3>1, TypesNow DEF AppendFails, Statuses
    <3>2. CASE CrashAppending(p)
      BY <3>2, GoneTypes DEF CrashAppending
    <3> QED BY <1>5, <3>1, <3>2
  <2> QED BY <2>3, <2>4, <2>5, TypesNow, KeptTypes
<1>6. ASSUME NEW p \in Processes, Export(p)
      PROVE  LedgerTypes'
  <2>1. Lines(lines') /\ unterminated' \in BOOLEAN
    BY <1>6, TypesNow, LinesAndMemory DEF Export
  <2>2. /\ UNCHANGED <<clock, past, acked, incidents, process, entries, disk>>
        /\ exported' = TRUE
    BY <1>6 DEF Export
  <2> QED BY <2>1, <2>2, TypesNow, KeptTypes
<1>7. ASSUME NEW p \in Processes, ExportFails(p) \/ CrashExporting(p)
      PROVE  LedgerTypes'
  <2>1. /\ Truncated(p) /\ UNCHANGED <<clock, past, acked, disk>>
        /\ exported' = TRUE
    BY <1>7 DEF ExportFails, CrashExporting, Truncated
  <2>2. Lines(lines') /\ unterminated' \in BOOLEAN
    BY <2>1, TruncatedLines
  <2>3. incidents' \subseteq Kinds
    <3>1. PICK part : NotedCut(part, {"cut"})
      BY <2>1 DEF Truncated
    <3> QED BY <3>1, NotedCutTypes DEF Kinds
  <2>4. /\ process' \in [Processes -> Statuses] /\ DOMAIN entries' = Processes
        /\ \A q \in Processes : Memory(entries'[q])
    <3>1. CASE ExportFails(p)
      BY <3>1, TypesNow DEF ExportFails
    <3>2. CASE CrashExporting(p)
      BY <3>2, GoneTypes DEF CrashExporting
    <3> QED BY <1>7, <3>1, <3>2
  <2> QED BY <2>1, <2>2, <2>3, <2>4, TypesNow, KeptTypes
<1>8. ASSUME NEW p \in Processes, Stop(p)
      PROVE  LedgerTypes'
  <2>1. /\ UNCHANGED <<clock, past, acked, incidents, disk, exported>>
        /\ lines' = lines /\ unterminated' = unterminated /\ Gone(p)
    BY <1>8 DEF Stop, stored, file
  <2> QED BY <2>1, TypesNow, GoneTypes, KeptTypes
<1> QED BY <1>1, <1>2, <1>3, <1>4, <1>5, <1>6, <1>7, <1>8, <1>9 DEF Next

LEMMA InitTypes == Init => LedgerTypes
<1> SUFFICES ASSUME Init PROVE LedgerTypes
  OBVIOUS
<1>1. Memory(<<>>) /\ Listed(<<>>) /\ Len(<<>>) = 0 /\ DOMAIN <<>> = {}
  BY EmptyMemory DEF Memory
<1>2. Lines(<<>>)
  BY <1>1, LinesAndMemory
<1>3. clock = 0 /\ clock \in 0 .. MaxClock
  BY LedgerBounds DEF Init
<1>4. /\ Listed(past) /\ Len(past) = clock /\ Listed(acked) /\ DOMAIN acked = {}
      /\ Lines(lines) /\ Lines(disk[1]) /\ disk[2] \in BOOLEAN /\ exported \in BOOLEAN
  BY <1>1, <1>2, <1>3 DEF Init, file
<1>5. DOMAIN entries = Processes /\ \A p \in Processes : Memory(entries[p])
  BY <1>1, <1>3 DEF Init
<1>6. /\ unterminated \in BOOLEAN
      /\ incidents \subseteq {"shared", "cut", "newline", "misdated"}
      /\ process \in [Processes -> {"down", "up", "unusable"}]
  BY DEF Init
<1> QED BY <1>3, <1>4, <1>5, <1>6 DEF LedgerTypes

LEMMA AlwaysTypes == Spec => []LedgerTypes
BY InitTypes, StepTypes, PTL DEF Spec

(***************************************************************************)
(* The type invariant: nothing that a failed or interrupted write leaves,  *)
(* no export and no load puts into the file, or into memory, a record that *)
(* record_activation did not build.                                        *)
(***************************************************************************)
THEOREM LedgerTypeSafety == Spec => []TypeOK
<1>1. ASSUME LedgerTypes
      PROVE  TypeOK
  <2>1. ASSUME NEW list, Lines(list)
        PROVE  /\ Len(list) <= MaxLines
               /\ \A i \in DOMAIN list : list[i] # TORN => IsRecord(list[i])
    <3>1. /\ DOMAIN list = 1 .. Len(list) /\ Len(list) <= MaxLines
          /\ \A i \in 1 .. Len(list) : list[i] # TORN => Made(list[i])
      BY <2>1, ListedFacts DEF Lines
    <3> QED BY <3>1 DEF Made, IsRecord
  <2> QED BY <1>1, <2>1 DEF TypeOK, LedgerTypes
<1> QED BY <1>1, AlwaysTypes, PTL

-----------------------------------------------------------------------------
(* Seals, tampering and stale writers *)

(***************************************************************************)
(* A seal of a returned head pins the history, whatever second writers,    *)
(* failed exports and crashes did to the file: by ChainsAgree.             *)
(***************************************************************************)
THEOREM SealedHistory == Spec => []SealPinsHistory
<1>1. ASSUME LedgerTypes
      PROVE  SealPinsHistory
  <2> SUFFICES ASSUME NEW i \in DOMAIN acked, ChainHolds(acked[i]),
                      LedgerVerify(HeadHash(acked[i]))
               PROVE  lines = acked[i]
    BY DEF SealPinsHistory
  <2>1. Memory(acked[i]) /\ acked[i] # <<>>
    BY <1>1 DEF LedgerTypes
  <2>2. Memory(lines)
    BY <1>1, LinesAndMemory DEF LedgerTypes, LedgerVerify
  <2>3. ChainHolds(lines) /\ lines # <<>> /\ HeadHash(lines) = HeadHash(acked[i])
    BY DEF LedgerVerify, Verifies
  <2> QED BY <2>1, <2>2, <2>3, ChainsAgree, MemoryShaped
<1> QED BY <1>1, AlwaysTypes, PTL

(***************************************************************************)
(* No silent merge: the record a stale ledger appends carries the sequence *)
(* number and the head of its own memory; if the file passes with it, the  *)
(* file before it has that length and that head, so it is that memory.     *)
(***************************************************************************)
LEMMA StaleStep ==
    ASSUME LedgerTypes, [Next]_vars, NEW p \in Processes,
           entries'[p] # entries[p], process[p] = "up", process'[p] = "up",
           ChainHolds(entries[p]), entries[p] # lines
    PROVE  ~Opens(lines')
<1>1. RecordActivation(p)
  <2>1. entries' # entries
    OBVIOUS
  <2>2. PICK q \in Processes :
            \/ Load(q) \/ RecordActivation(q) \/ AppendFails(q)
            \/ CrashAppending(q) \/ Export(q) \/ ExportFails(q)
            \/ CrashExporting(q) \/ Stop(q)
    BY <2>1 DEF Next, vars, Tick, PowerLoss, Open, OpenUnverified
  <2>3. CASE Load(q)
    <3>1. q # p
      BY <2>3 DEF Load
    <3> QED BY <2>3, <3>1 DEF Load, LedgerTypes
  <2>4. CASE RecordActivation(q)
    BY <2>4 DEF RecordActivation, LedgerTypes
  <2>5. CASE CrashAppending(q) \/ CrashExporting(q) \/ Stop(q)
    <3>1. Gone(q)
      BY <2>5 DEF CrashAppending, CrashExporting, Stop
    <3>2. q # p
      BY <3>1, TypesNow DEF Gone
    <3> QED BY <3>1, <3>2 DEF Gone, LedgerTypes
  <2>6. CASE AppendFails(q) \/ Export(q) \/ ExportFails(q)
    BY <2>1, <2>6 DEF AppendFails, Export, ExportFails
  <2> QED BY <2>2, <2>3, <2>4, <2>5, <2>6
<1>2. PICK record \in Records(p) : lines' = Appended(record)
  BY <1>1 DEF RecordActivation
<1>3. /\ record.sequence = Len(entries[p])
      /\ record.prev_entry_hash = HeadHash(entries[p])
  BY NewRecordFields DEF Records
<1>4. Listed(lines) /\ Len(lines) \in Nat
  BY ListedFacts DEF LedgerTypes, Lines
<1>5. CASE unterminated
  <2>1. Listed(Front(lines))
    BY LinesFront DEF LedgerTypes, Lines
  <2>2. TORN \in Range(Append(Front(lines), TORN))
    <3>1. /\ Len(Front(lines)) + 1 \in DOMAIN Append(Front(lines), TORN)
          /\ Append(Front(lines), TORN)[Len(Front(lines)) + 1] = TORN
      BY <2>1, ListedAppend, ListedFacts
    <3> QED BY <3>1 DEF Range
  <2> QED BY <1>2, <1>5, <2>2 DEF Opens, Appended
<1>6. CASE ~unterminated
  <2> SUFFICES ASSUME Opens(Append(lines, record)) PROVE FALSE
    BY <1>2, <1>6 DEF Appended
  <2>1. ChainHolds(lines)
    BY <1>4, ChainPrefix DEF Opens
  <2>2. Len(lines) = Len(entries[p]) /\ HeadHash(lines) = HeadHash(entries[p])
    BY <1>3, <1>4, ChainPrefix DEF Opens
  <2>3. TORN \notin Range(lines)
    <3>1. \A i \in 1 .. Len(lines) :
              i \in DOMAIN Append(lines, record) /\ Append(lines, record)[i] = lines[i]
      BY <1>4, ListedAppend
    <3> QED BY <1>4, <3>1, ListedFacts DEF Opens, Range
  <2>4. Memory(lines) /\ Memory(entries[p])
    BY <2>3, LinesAndMemory DEF LedgerTypes
  <2>5. CASE lines = <<>>
    <3>1. Len(lines) = 0
      BY <2>5
    <3>2. entries[p] = <<>>
      BY <2>2, <2>4, <3>1, ListedFacts DEF Memory
    <3> QED BY <2>5, <3>2
  <2>6. CASE lines # <<>>
    <3>1. entries[p] # <<>>
      BY <1>4, <2>2, <2>4, <2>6, ListedFacts DEF Memory
    <3> QED BY <2>1, <2>2, <2>4, <2>6, <3>1, ChainsAgree, MemoryShaped
  <2> QED BY <2>5, <2>6
<1> QED BY <1>5, <1>6

THEOREM NoSilentMerge == Spec => StaleAppendsShow
<1>1. ASSUME LedgerTypes, [Next]_vars
      PROVE  [\A p \in Processes :
                 entries'[p] # entries[p] /\ process[p] = "up" /\ process'[p] = "up"
                 /\ ChainHolds(entries[p]) /\ entries[p] # lines
                     => ~Opens(lines')]_vars
  BY <1>1, StaleStep
<1> QED BY <1>1, AlwaysTypes, PTL DEF Spec, StaleAppendsShow

(***************************************************************************)
(* No alteration passes the seal of the list it alters: truncation and     *)
(* removal change the length, a swap the sequence numbers, an edit the     *)
(* hash of the entry, and re-hashing the entry breaks the chain or, in the *)
(* last entry, the seal.                                                   *)
(***************************************************************************)
LEMMA RemovedList ==
    ASSUME NEW list, Listed(list), NEW i \in DOMAIN list
    PROVE  Listed(RemoveAt(list, i)) /\ Len(RemoveAt(list, i)) # Len(list)
<1>1. PICK n \in Nat : n = Len(list)
  BY ListedFacts
<1>2. i \in 1 .. n
  BY <1>1, ListedFacts
<1> DEFINE R == Range(list)
<1>3. \A k \in 1 .. n : list[k] \in R
  BY <1>1, ListedFacts DEF Range
<1> HIDE DEF R
<1>4. /\ SubSeq(list, 1, i - 1) \in Seq(R)
      /\ Len(SubSeq(list, 1, i - 1)) = i - 1
  <2>1. \A k \in 1 .. i - 1 : list[k] \in R
    BY <1>2, <1>3
  <2>2. /\ SubSeq(list, 1, i - 1) \in Seq(R)
        /\ Len(SubSeq(list, 1, i - 1)) = IF 1 <= i - 1 THEN (i - 1) - 1 + 1 ELSE 0
    BY <1>2, <2>1, SubSeqProperties, 1 \in Int, i - 1 \in Int
  <2> QED BY <1>2, <2>2
<1>5. /\ SubSeq(list, i + 1, n) \in Seq(R)
      /\ Len(SubSeq(list, i + 1, n)) = n - i
  <2>1. \A k \in i + 1 .. n : list[k] \in R
    BY <1>2, <1>3
  <2>2. /\ SubSeq(list, i + 1, n) \in Seq(R)
        /\ Len(SubSeq(list, i + 1, n)) = IF i + 1 <= n THEN n - (i + 1) + 1 ELSE 0
    BY <1>2, <2>1, SubSeqProperties, n \in Int, i + 1 \in Int
  <2> QED BY <1>2, <2>2
<1>6. RemoveAt(list, i) = SubSeq(list, 1, i - 1) \o SubSeq(list, i + 1, n)
  BY <1>1 DEF RemoveAt
<1>7. RemoveAt(list, i) \in Seq(R) /\ Len(RemoveAt(list, i)) = (i - 1) + (n - i)
  BY <1>4, <1>5, <1>6, ConcatProperties
<1>8. (i - 1) + (n - i) # n
  BY <1>2
<1> QED BY <1>1, <1>7, <1>8, SeqListed

\* Entries put in the place of others leave a list of the same length.
LEMMA ReplacedList ==
    ASSUME NEW list, Listed(list), NEW i \in DOMAIN list, NEW e
    PROVE  LET new == [list EXCEPT ![i] = e]
           IN  /\ Listed(new) /\ Len(new) = Len(list) /\ new[i] = e
               /\ \A k \in DOMAIN list \ {i} : new[k] = list[k]
<1> DEFINE R == Range(list) \cup {e}
           new == [list EXCEPT ![i] = e]
<1>1. list \in Seq(R) /\ e \in R
  <2>1. \A k \in DOMAIN list : list[k] \in R
    BY DEF Range
  <2>2. e \in R
    OBVIOUS
  <2> HIDE DEF R
  <2> QED BY <2>1, <2>2 DEF Listed
<1> HIDE DEF R
<1>2. i \in 1 .. Len(list)
  BY ListedFacts
<1>3. new \in Seq(R) /\ Len(new) = Len(list)
  BY <1>1, <1>2, ExceptSeq
<1>4. Listed(new)
  BY <1>3, SeqListed
<1> QED BY <1>3, <1>4

LEMMA NoAlterationPasses ==
    ASSUME NEW list, Memory(list), ChainHolds(list), list # <<>>,
           NEW other,
           \/ \E n \in 0 .. Len(list) - 1 : other = SubSeq(list, 1, n)
           \/ \E i \in DOMAIN list : other = RemoveAt(list, i)
           \/ \E i, j \in DOMAIN list :
                  i < j /\ other = [list EXCEPT ![i] = list[j], ![j] = list[i]]
           \/ \E i \in DOMAIN list :
                  other = [list EXCEPT ![i] = [list[i] EXCEPT !.recorded_at = @ + 1]]
           \/ \E i \in DOMAIN list : \E type, policy, version :
                  other = [list EXCEPT ![i] =
                              NewRecord(SubSeq(list, 1, i - 1), type, policy,
                                        version, MaxClock + 1)]
    PROVE  ~Verifies(other, HeadHash(list))
<1> SUFFICES ASSUME Verifies(other, HeadHash(list)) PROVE FALSE
  OBVIOUS
<1>1. ChainHolds(other) /\ other # <<>> /\ HeadHash(other) = HeadHash(list)
  BY DEF Verifies
<1>2. /\ Listed(list) /\ DOMAIN list = 1 .. Len(list) /\ Len(list) \in Nat
      /\ Shaped(list)
      /\ \A i \in DOMAIN list : list[i].recorded_at \in 0 .. MaxClock
  BY ListedFacts, MemoryShaped DEF Memory, Made
<1>3. \A i \in DOMAIN list :
          list[i].sequence = i - 1 /\ list[i].entry_hash = Body(list[i])
  BY DEF ChainHolds, compute_entry_hash
<1>4. \A i \in DOMAIN other :
          other[i].sequence = i - 1 /\ other[i].entry_hash = Body(other[i])
  BY <1>1 DEF ChainHolds, compute_entry_hash
<1>5. Listed(other) => Len(other) = Len(list)
  BY <1>1, <1>2, SameLength
<1>6. ASSUME NEW n \in 0 .. Len(list) - 1, other = SubSeq(list, 1, n)
      PROVE  FALSE
  <2>1. n \in 0 .. Len(list) /\ n # Len(list)
    BY <1>2
  <2> QED BY <1>2, <1>5, <1>6, <2>1, ListedPrefix
<1>7. ASSUME NEW i \in DOMAIN list, other = RemoveAt(list, i)
      PROVE  FALSE
  BY <1>2, <1>5, <1>7, RemovedList
<1>8. ASSUME NEW i \in DOMAIN list, NEW j \in DOMAIN list, i < j,
             other = [list EXCEPT ![i] = list[j], ![j] = list[i]]
      PROVE  FALSE
  <2>1. i \in 1 .. Len(list) /\ j \in 1 .. Len(list)
    BY <1>2
  <2>2. i # j /\ i - 1 # j - 1
    BY <1>2, <1>8, <2>1
  <2>3. i \in DOMAIN other /\ other[i] = list[j]
    BY <1>8, <2>2
  <2>4. other[i].sequence = i - 1 /\ list[j].sequence = j - 1
    BY <1>3, <1>4, <2>3
  <2> QED BY <2>2, <2>3, <2>4
<1>9. ASSUME NEW i \in DOMAIN list,
             other = [list EXCEPT ![i] = [list[i] EXCEPT !.recorded_at = @ + 1]]
      PROVE  FALSE
  <2> DEFINE r == list[i]
             s == [r EXCEPT !.recorded_at = @ + 1]
  <2>1. i \in DOMAIN other /\ other[i] = s
    BY <1>9
  <2>2. r = [f \in Fields |-> r[f]] /\ r.recorded_at \in Nat
    BY <1>2 DEF Shaped
  <2>3. s.recorded_at = r.recorded_at + 1 /\ s.entry_hash = r.entry_hash
    <3> HIDE DEF r
    <3> QED BY <2>2 DEF Fields
  <2>4. Body(s) = Body(r)
    BY <1>3, <1>4, <2>1, <2>3
  <2>5. s.recorded_at = r.recorded_at
    <3> HIDE DEF r, s
    <3> QED BY <2>4, BodiesAgree
  <2> HIDE DEF r, s
  <2> QED BY <2>2, <2>3, <2>5
<1>10. ASSUME NEW i \in DOMAIN list, NEW type, NEW policy, NEW version,
              other = [list EXCEPT ![i] =
                          NewRecord(SubSeq(list, 1, i - 1), type, policy,
                                    version, MaxClock + 1)]
       PROVE  FALSE
  <2> DEFINE r == NewRecord(SubSeq(list, 1, i - 1), type, policy, version, MaxClock + 1)
  <2>1. r = [f \in Fields |-> r[f]] /\ r.recorded_at = MaxClock + 1
    BY NewRecordFields
  <2> HIDE DEF r
  <2>2. other = [list EXCEPT ![i] = r]
    BY <1>10 DEF r
  <2>3. /\ Listed(other) /\ Len(other) = Len(list) /\ other[i] = r
        /\ \A k \in DOMAIN list \ {i} : other[k] = list[k]
    BY <1>2, <2>2, ReplacedList
  <2>4. Shaped(other)
    <3>1. \A k \in 1 .. Len(other) : k = i \/ k \in DOMAIN list \ {i}
      BY <1>2, <2>3
    <3>2. \A k \in DOMAIN list : list[k] = [f \in Fields |-> list[k][f]]
      BY <1>2 DEF Shaped
    <3> QED BY <2>1, <2>3, <3>1, <3>2 DEF Shaped
  <2>5. other = list
    BY <1>1, <1>2, <2>4, ChainsAgree
  <2>6. list[i].recorded_at = MaxClock + 1
    BY <2>1, <2>3, <2>5
  <2>7. list[i].recorded_at \in 0 .. MaxClock
    BY <1>2
  <2> QED BY <2>6, <2>7, LedgerBounds
<1> QED BY <1>6, <1>7, <1>8, <1>9, <1>10

THEOREM TamperingShows == Spec => []TamperEvident
<1>1. ASSUME LedgerTypes
      PROVE  TamperEvident
  <2> SUFFICES ASSUME NEW p \in Processes, ChainHolds(entries[p]),
                      entries[p] # <<>>
               PROVE  /\ Verifies(entries[p], HeadHash(entries[p]))
                      /\ \A list \in Altered(entries[p]) :
                             ~Verifies(list, HeadHash(entries[p]))
    BY DEF TamperEvident
  <2>1. Memory(entries[p]) /\ clock \in Nat
    BY <1>1, LedgerBounds DEF LedgerTypes
  <2>2. ASSUME NEW other \in Altered(entries[p])
        PROVE  ~Verifies(other, HeadHash(entries[p]))
    <3> DEFINE list == entries[p]
    <3>1. \/ \E n \in 0 .. Len(list) - 1 : other = SubSeq(list, 1, n)
          \/ \E i \in DOMAIN list : other = RemoveAt(list, i)
          \/ \E i, j \in DOMAIN list :
                 i < j /\ other = [list EXCEPT ![i] = list[j], ![j] = list[i]]
          \/ \E i \in DOMAIN list :
                 other = [list EXCEPT ![i] = [list[i] EXCEPT !.recorded_at = @ + 1]]
          \/ \E i \in DOMAIN list : \E type, policy, version :
                 other = [list EXCEPT ![i] =
                             NewRecord(SubSeq(list, 1, i - 1), type, policy,
                                       version, MaxClock + 1)]
      BY <2>2 DEF Altered
    <3> HIDE DEF list
    <3>2. Memory(list) /\ ChainHolds(list) /\ list # <<>>
      BY <2>1 DEF list
    <3> QED BY <2>1, <3>1, <3>2, NoAlterationPasses DEF list
  <2> QED BY <2>2 DEF Verifies
<1> QED BY <1>1, AlwaysTypes, PTL

-----------------------------------------------------------------------------
(* A single writer *)

LEMMA BeginsLonger ==
    ASSUME NEW short, NEW list, Listed(short), Listed(list), Begins(short, list), NEW e
    PROVE  Begins(short, Append(list, e))
<1>1. PICK n \in Nat, m \in Nat : n = Len(short) /\ m = Len(list)
  BY ListedFacts
<1>2. n <= m + 1 /\ \A k \in 1 .. n : k \in 1 .. m
  BY <1>1 DEF Begins
<1>3. Len(Append(list, e)) = m + 1 /\ \A k \in 1 .. m : Append(list, e)[k] = list[k]
  BY <1>1, ListedAppend
<1> QED BY <1>1, <1>2, <1>3 DEF Begins

LEMMA BeginsItself ==
    ASSUME NEW list, Listed(list)
    PROVE  Begins(list, list)
<1>1. Len(list) <= Len(list)
  BY ListedFacts
<1> QED BY <1>1 DEF Begins

LEMMA BeginsAgain ==
    ASSUME NEW a, NEW b, NEW c, Listed(a), Listed(b), Listed(c), Begins(a, b), Begins(b, c)
    PROVE  Begins(a, c)
<1>1. PICK l \in Nat, m \in Nat, n \in Nat : l = Len(a) /\ m = Len(b) /\ n = Len(c)
  BY ListedFacts
<1>2. l <= n /\ \A k \in 1 .. l : k \in 1 .. m
  BY <1>1 DEF Begins
<1> QED BY <1>1, <1>2 DEF Begins

LEMMA TornAtEnd ==
    ASSUME NEW list, Listed(list)
    PROVE  TORN \in Range(Append(list, TORN))
<1>1. /\ Len(list) + 1 \in DOMAIN Append(list, TORN)
      /\ Append(list, TORN)[Len(list) + 1] = TORN
  BY ListedAppend, ListedFacts
<1> QED BY <1>1 DEF Range

\* An interrupted append of the only writer, of which more than the newline is
\* lost, adds to the file, if at all, and leaves it terminated or torn.
LEMMA LeftAlone ==
    ASSUME LedgerTypes, ~unterminated, NEW part \in Reach, part # "unterminated",
           NEW record, Left(part, record)
    PROVE  /\ lines' = lines \/ \E e : lines' = Append(lines, e)
           /\ unterminated' => TORN \in Range(lines')
<1>1. part \in {"nothing", "prefix", "line"}
  BY ReachAssumption
<1>2. CASE part = "nothing"
  BY <1>2 DEF Left, file
<1>3. CASE part = "line"
  <2>1. lines' = Append(lines, record) /\ unterminated' = FALSE
    BY <1>3 DEF Left, Appended
  <2> QED BY <2>1
<1>4. CASE part = "prefix"
  <2>1. lines' = Append(lines, TORN)
    BY <1>4 DEF Left, Appended
  <2> QED BY <2>1, TornAtEnd DEF LedgerTypes, Lines
<1> QED BY <1>1, <1>2, <1>3, <1>4

\* A list that is cut after n lines still begins as it did, up to there.
LEMMA CutAlone ==
    ASSUME NEW list, Listed(list), NEW n \in 0 .. Len(list) - 1, NEW part \in Reach \ {"line"},
           part # "unterminated", Cut(list, n, part),
           NEW short, Listed(short), Begins(short, list), Len(short) <= n
    PROVE  /\ Begins(short, lines')
           /\ unterminated' => TORN \in Range(lines')
<1>1. PICK first, l, m :
          first = SubSeq(list, 1, n) /\ l = Len(short) /\ m = Len(list)
  OBVIOUS
<1>2. l \in Nat /\ n \in 0 .. m /\ n \in Nat /\ l <= n
  <2>1. l \in Nat /\ m \in Nat /\ n \in 0 .. m - 1 /\ l <= n
    BY <1>1, ListedFacts
  <2> QED BY <2>1
<1>3. Listed(first) /\ Len(first) = n /\ \A k \in 1 .. n : first[k] = list[k]
  BY <1>1, <1>2, ListedPrefix
<1>4. Begins(short, first)
  <2>1. \A k \in 1 .. l : k \in 1 .. n
    BY <1>2
  <2> QED BY <1>1, <1>2, <1>3, <2>1 DEF Begins
<1>5. part \in {"nothing", "prefix"}
  BY ReachAssumption
<1>6. CASE part = "nothing"
  BY <1>1, <1>4, <1>6 DEF Cut
<1>7. CASE part = "prefix"
  <2>1. lines' = Append(first, TORN)
    BY <1>1, <1>7 DEF Cut
  <2> QED BY <1>3, <1>4, <2>1, BeginsLonger, TornAtEnd
<1> QED BY <1>5, <1>6, <1>7

LEMMA ListsListed ==
    ASSUME LedgerTypes
    PROVE  /\ Listed(lines) /\ Listed(disk[1])
           /\ \A i \in DOMAIN acked : Listed(acked[i])
BY DEF LedgerTypes, Memory, Lines

LEMMA LoadAlone ==
    ASSUME LedgerTypes, OneWriter, NEW p \in Processes, Load(p),
           \A q \in Processes : process[q] # "up"
    PROVE  OneWriter'
<1>1. /\ process' = [process EXCEPT ![p] = "up"]
      /\ lines' = lines /\ unterminated' = unterminated /\ acked' = acked
      /\ disk' = disk /\ TORN \notin Range(lines)
  BY DEF Load, stored, file
<1>2. entries'[p] = lines
  BY DEF Load, LedgerTypes
<1>3. \A q \in Processes : process'[q] = "up" => q = p
  BY <1>1, TypesNow
<1>4. ~unterminated
  BY <1>1 DEF OneWriter
<1> QED BY <1>1, <1>2, <1>3, <1>4 DEF OneWriter

LEMMA RecordAlone ==
    ASSUME LedgerTypes, OneWriter, NEW p \in Processes, RecordActivation(p)
    PROVE  OneWriter'
<1>1. PICK record \in Records(p) :
          /\ lines' = Appended(record) /\ unterminated' = FALSE
          /\ disk' = file'
          /\ entries' = [entries EXCEPT ![p] = Append(@, record)]
          /\ acked' = Append(acked, Append(entries[p], record))
  BY DEF RecordActivation
<1>2. process[p] = "up" /\ process' = process
  BY DEF RecordActivation, CanAppend
<1>3. entries[p] = lines /\ ~unterminated
  BY <1>2 DEF OneWriter
<1>4. lines' = Append(lines, record) /\ entries'[p] = Append(lines, record)
  BY <1>1, <1>3 DEF Appended, LedgerTypes
<1>5. \A q \in Processes : process'[q] = "up" => q = p
  BY <1>2 DEF OneWriter
<1>6. disk'[1] = lines' /\ disk'[2] = FALSE
  BY <1>1 DEF file
<1>7. Listed(lines') /\ Begins(lines', lines') /\ Begins(lines, lines')
  BY <1>4, ListsListed, ListedAppend, BeginsItself, BeginsLonger
<1>8. \A i \in DOMAIN acked' : Begins(acked'[i], lines')
  <2>1. \A i \in DOMAIN acked : Begins(acked[i], lines')
    <3> TAKE i \in DOMAIN acked
    <3>1. Begins(acked[i], lines)
      BY ListsListed, BeginsAgain DEF OneWriter
    <3> QED BY <1>7, <3>1, ListsListed, BeginsAgain
  <2>2. Listed(acked) /\ DOMAIN acked = 1 .. Len(acked) /\ Len(acked) \in Nat
    BY ListedFacts DEF LedgerTypes
  <2>3. /\ DOMAIN acked' = 1 .. Len(acked) + 1
        /\ \A i \in 1 .. Len(acked) : acked'[i] = acked[i]
        /\ acked'[Len(acked) + 1] = lines'
    BY <1>1, <1>3, <1>4, <2>2, ListedAppend
  <2>4. \A i \in 1 .. Len(acked) + 1 : i \in 1 .. Len(acked) \/ i = Len(acked) + 1
    BY <2>2
  <2> QED BY <1>7, <2>1, <2>2, <2>3, <2>4
<1> QED BY <1>1, <1>4, <1>5, <1>6, <1>7, <1>8 DEF OneWriter

\* When the machine goes down, what was safe on the disk stays, unless an export
\* had written over it and is cut short.
LEMMA PowerLossAlone ==
    ASSUME LedgerTypes, OneWriter, PowerLoss, Undisturbed'
    PROVE  OneWriter'
<1>1. /\ disk'[1] = lines' /\ disk'[2] = unterminated' /\ acked' = acked
      /\ \A p \in Processes : process'[p] # "up"
  BY DEF PowerLoss, file
<1>2. /\ unterminated' => TORN \in Range(lines')
      /\ Listed(lines') /\ Begins(disk[1], lines')
  <2>1. CASE lines' = disk[1] /\ unterminated' = disk[2]
    BY <2>1, ListsListed, BeginsItself DEF OneWriter
  <2>2. ASSUME NEW n \in (IF exported THEN 0 ELSE Len(disk[1])) .. Len(lines) - 1,
               NEW part \in Reach \ {"line"}, Cut(lines, n, part),
               NotedCut(part, IF exported THEN {"cut"} ELSE {})
        PROVE  /\ unterminated' => TORN \in Range(lines')
               /\ Listed(lines') /\ Begins(disk[1], lines')
    <3>1. part # "unterminated" /\ ~exported
      BY <2>2 DEF NotedCut, Undisturbed
    <3>2. Len(disk[1]) \in Nat /\ Len(lines) \in Nat
      BY ListsListed, ListedFacts
    <3>3. n \in 0 .. Len(lines) - 1 /\ Len(disk[1]) <= n
      BY <3>1, <3>2
    <3>4. Listed(lines')
      BY <2>2, <3>3, CutLines DEF LedgerTypes, Lines
    <3> QED BY <2>2, <3>1, <3>3, <3>4, ListsListed, CutAlone DEF OneWriter
  <2>3. CASE UNCHANGED file
    BY <2>3, ListsListed DEF OneWriter, file
  <2> QED BY <2>1, <2>2, <2>3 DEF PowerLoss, Lost
<1>3. \A i \in DOMAIN acked : Begins(acked[i], lines')
  BY <1>2, ListsListed, BeginsAgain DEF OneWriter
<1> QED BY <1>1, <1>2, <1>3, BeginsItself DEF OneWriter

LEMMA StepAlone ==
    ASSUME LedgerTypes, Alone, [Next]_vars
    PROVE  Alone'
<1> SUFFICES ASSUME Undisturbed'
             PROVE  OneWriter'
  BY DEF Alone
<1>0. Undisturbed <=> incidents \subseteq {"misdated"}
  BY DEF Undisturbed
<1>10. Undisturbed' <=> incidents' \subseteq {"misdated"}
  BY DEF Undisturbed
<1>1. CASE UNCHANGED vars
  BY <1>0, <1>1, <1>10 DEF Alone, OneWriter, vars
<1>2. CASE Tick
  BY <1>0, <1>2, <1>10 DEF Alone, OneWriter, Tick, stored, file
<1>9. CASE PowerLoss
  <2>1. incidents \subseteq incidents'
    BY <1>9 DEF PowerLoss, Lost, Noted, NotedCut
  <2>2. OneWriter
    BY <1>0, <1>10, <2>1 DEF Alone
  <2> QED BY <1>9, <2>2, PowerLossAlone
<1>3. ASSUME NEW p \in Processes, Open(p) \/ OpenUnverified(p)
      PROVE  OneWriter'
  <2>1. Load(p)
    BY <1>3 DEF Open, OpenUnverified
  <2>2. /\ incidents \subseteq incidents'
        /\ (\E q \in Processes : process[q] = "up") => "shared" \in incidents'
    BY <2>1 DEF Load, Noted
  <2>3. OneWriter /\ \A q \in Processes : process[q] # "up"
    BY <1>0, <1>10, <2>2 DEF Alone
  <2> QED BY <2>1, <2>3, LoadAlone
<1>4. ASSUME NEW p \in Processes, RecordActivation(p)
      PROVE  OneWriter'
  <2>1. incidents \subseteq incidents'
    BY <1>4 DEF RecordActivation, Noted
  <2>2. OneWriter
    BY <1>0, <1>10, <2>1 DEF Alone
  <2> QED BY <1>4, <2>2, RecordAlone
<1>5. ASSUME NEW p \in Processes, AppendFails(p) \/ CrashAppending(p)
      PROVE  OneWriter'
  <2>1. PICK record \in Records(p), part \in Reach : Left(part, record)
    BY <1>5 DEF AppendFails, CrashAppending
  <2>2. incidents \subseteq incidents' /\ part # "unterminated"
    BY <1>10, <2>1 DEF Left, NotedCut
  <2>3. acked' = acked /\ process[p] = "up" /\ disk' = disk
    BY <1>5, <2>1 DEF AppendFails, CrashAppending, CanAppend, Left
  <2>4. OneWriter
    BY <1>0, <1>10, <2>2 DEF Alone
  <2>5. ~unterminated
    BY <2>3, <2>4 DEF OneWriter
  <2>6. /\ lines' = lines \/ \E e : lines' = Append(lines, e)
        /\ unterminated' => TORN \in Range(lines')
    BY <2>1, <2>2, <2>5, LeftAlone
  <2>7. Begins(disk'[1], lines')
    BY <2>3, <2>4, <2>6, ListsListed, BeginsLonger DEF OneWriter
  <2>8. \A q \in Processes : process'[q] # "up"
    <3>1. \A q \in Processes : process[q] = "up" => q = p
      BY <2>3, <2>4 DEF OneWriter
    <3>2. \A q \in Processes : process'[q] = IF q = p THEN process'[p] ELSE process[q]
      BY <1>5, TypesNow DEF AppendFails, CrashAppending, Gone
    <3>3. process'[p] # "up"
      BY <1>5, TypesNow DEF AppendFails, CrashAppending, Gone
    <3> QED BY <3>1, <3>2, <3>3
  <2> QED BY <2>3, <2>4, <2>6, <2>7, <2>8 DEF OneWriter
<1>6. ASSUME NEW p \in Processes, Export(p)
      PROVE  OneWriter'
  <2>1. /\ process[p] = "up" /\ lines' = entries[p] /\ unterminated' = FALSE
        /\ process' = process /\ entries' = entries /\ acked' = acked
        /\ incidents' = incidents /\ disk' = disk
    BY <1>6 DEF Export
  <2>2. OneWriter
    BY <1>0, <1>10, <2>1 DEF Alone
  <2>3. lines' = lines
    BY <2>1, <2>2 DEF OneWriter
  <2> QED BY <2>1, <2>2, <2>3 DEF OneWriter
<1>7. ASSUME NEW p \in Processes, ExportFails(p) \/ CrashExporting(p)
      PROVE  FALSE
  <2>1. "cut" \in incidents'
    BY <1>7 DEF ExportFails, CrashExporting, Truncated, NotedCut
  <2> QED BY <1>10, <2>1
<1>8. ASSUME NEW p \in Processes, Stop(p)
      PROVE  OneWriter'
  <2>1. /\ lines' = lines /\ unterminated' = unterminated /\ acked' = acked
        /\ disk' = disk /\ incidents' = incidents /\ Gone(p)
    BY <1>8 DEF Stop, stored, file
  <2>2. OneWriter
    BY <1>0, <1>10, <2>1 DEF Alone
  <2>3. \A q \in Processes : process'[q] = "up" =>
            q # p /\ process[q] = "up" /\ entries'[q] = entries[q]
    BY <2>1, TypesNow DEF Gone
  <2> QED BY <2>1, <2>2, <2>3 DEF OneWriter
<1> QED BY <1>1, <1>2, <1>3, <1>4, <1>5, <1>6, <1>7, <1>8, <1>9 DEF Next

LEMMA AlwaysAlone == Spec => [](LedgerTypes /\ Alone)
<1>1. Init => Alone
  <2> SUFFICES ASSUME Init PROVE OneWriter
    BY DEF Alone
  <2>1. disk[1] = lines /\ disk[2] = FALSE /\ acked = <<>>
    BY DEF Init, file
  <2>2. Begins(disk[1], lines)
    BY <2>1, InitTypes, ListsListed, BeginsItself
  <2> QED BY <2>1, <2>2 DEF Init, OneWriter
<1> QED BY <1>1, InitTypes, StepTypes, StepAlone, PTL DEF Spec

(***************************************************************************)
(* A writer that has the file to itself remembers what the file holds,     *)
(* while no export over it was cut short or lost with the machine and no   *)
(* write lost its newline only: then the file still loads, the next record *)
(* continues that line, and file and memory part (EachRecordIsALine).      *)
(***************************************************************************)
THEOREM LoneWriterRemembersFile == Spec => []MemoryIsFile
<1>1. Alone => MemoryIsFile
  BY DEF Alone, OneWriter, MemoryIsFile
<1> QED BY <1>1, AlwaysAlone, PTL

(***************************************************************************)
(* Where AckedStaysInFile does not except it, what record_activation       *)
(* returned stays in the file: every chain it returned begins what is safe *)
(* on the disk, and that begins the file.                                  *)
(***************************************************************************)
THEOREM ReturnedRecordsStay == Spec => []AckedStaysInFile
<1>1. ASSUME LedgerTypes, Alone
      PROVE  AckedStaysInFile
  <2> SUFFICES ASSUME Undisturbed, NEW i \in DOMAIN acked
               PROVE  /\ Len(acked[i]) <= Len(lines)
                      /\ lines[Len(acked[i])] = Last(acked[i])
    BY DEF AckedStaysInFile
  <2>1. Begins(acked[i], lines)
    BY <1>1, ListsListed, BeginsAgain DEF Alone, OneWriter
  <2>2. Len(acked[i]) \in 1 .. Len(acked[i])
    BY <1>1, HeadOfList DEF LedgerTypes, Memory
  <2> QED BY <2>1, <2>2 DEF Begins, Last
<1> QED BY <1>1, AlwaysAlone, PTL

-----------------------------------------------------------------------------
(* Replay *)

\* What active is after each event: the function ActiveSnapshot recurs on.
Replays(after, list, n) ==
    after = [k \in 0 .. n |->
                IF k = 0 THEN <<>> ELSE Applied(after[k - 1], list[k])]

LEMMA ReplayExists ==
    ASSUME NEW list, NEW n \in Nat
    PROVE  \E after : Replays(after, list, n)
<1> DEFINE Bad == {k \in Nat : ~ \E after : Replays(after, list, k)}
<1>1. 0 \notin Bad
  <2>1. PICK none : none = [k \in 0 .. 0 |-> <<>>]
    OBVIOUS
  <2>2. Replays(none, list, 0)
    BY <2>1 DEF Replays
  <2> QED BY <2>2
<1>2. ASSUME NEW k \in Nat, NEW before, Replays(before, list, k)
      PROVE  \E after : Replays(after, list, k + 1)
  <2>1. PICK last : last = Applied(before[k], list[k + 1])
    OBVIOUS
  <2>2. PICK after : after = [i \in 0 .. k + 1 |-> IF i = k + 1 THEN last ELSE before[i]]
    OBVIOUS
  <2>3. \A i \in 0 .. k : before[i] = IF i = 0 THEN <<>> ELSE Applied(before[i - 1], list[i])
    BY <1>2 DEF Replays
  <2>4. after[k + 1] = last /\ \A i \in 0 .. k : after[i] = before[i]
    BY <2>2
  <2>5. \A i \in 0 .. k + 1 :
            after[i] = IF i = 0 THEN <<>> ELSE Applied(after[i - 1], list[i])
    <3> TAKE i \in 0 .. k + 1
    <3>1. CASE i = k + 1
      <4>1. i # 0 /\ i - 1 = k /\ k \in 0 .. k
        BY <3>1
      <4> QED BY <2>1, <2>4, <3>1, <4>1
    <3>2. CASE i # k + 1
      <4>1. i \in 0 .. k /\ (i # 0 => i - 1 \in 0 .. k)
        BY <3>2
      <4> QED BY <2>3, <2>4, <4>1
    <3> QED BY <3>1, <3>2
  <2>6. after = [i \in 0 .. k + 1 |->
                    IF i = 0 THEN <<>> ELSE Applied(after[i - 1], list[i])]
    BY <2>2, <2>5
  <2> QED BY <2>6 DEF Replays
<1>3. Bad = {}
  <2> SUFFICES ASSUME Bad # {} PROVE FALSE
    OBVIOUS
  <2>1. Bad \subseteq Nat
    OBVIOUS
  <2>2. Min(Bad) \in Bad /\ \A k \in Bad : Min(Bad) <= k
    <3> HIDE DEF Bad
    <3> QED BY <2>1, MinInSet
  <2>3. PICK m \in Bad : m = Min(Bad)
    BY <2>2
  <2>4. m \in Nat /\ m # 0
    BY <1>1, <2>3
  <2>5. m - 1 \in Nat /\ m - 1 \notin Bad
    <3>1. m - 1 \in Nat /\ ~(m <= m - 1)
      BY <2>4
    <3> HIDE DEF Bad
    <3> QED BY <2>2, <2>3, <3>1
  <2>6. PICK before : Replays(before, list, m - 1)
    BY <2>5
  <2>7. \E after : Replays(after, list, (m - 1) + 1)
    BY <1>2, <2>5, <2>6
  <2>8. (m - 1) + 1 = m
    BY <2>4
  <2> QED BY <2>3, <2>7, <2>8
<1> QED BY <1>3

LEMMA SnapshotReplays ==
    ASSUME NEW list, Listed(list)
    PROVE  \E after : Replays(after, list, Len(list)) /\ ActiveSnapshot(list) = after[Len(list)]
<1>1. Len(list) \in Nat
  BY ListedFacts
<1>2. \E after : after = [k \in 0 .. Len(list) |->
                             IF k = 0 THEN <<>> ELSE Applied(after[k - 1], list[k])]
  BY <1>1, ReplayExists DEF Replays
<1> QED BY <1>2 DEF ActiveSnapshot, Replays

-----------------------------------------------------------------------------
(* What is active after a replay *)

\* r is the last of its policy's events among the first n.
Newest(list, n, r) ==
    \E i \in 1 .. n : /\ list[i] = r
                      /\ \A j \in i + 1 .. n : list[j].policy_id # r.policy_id

\* A policy is active, with its newest event, unless that deactivated it.
Shows(active, list, n) ==
    /\ active = [p \in DOMAIN active |-> active[p]]
    /\ \A p : p \in DOMAIN active <=>
           \E r : Newest(list, n, r) /\ r.policy_id = p /\ r.event_type # "deactivate"
    /\ \A r : Newest(list, n, r) /\ r.event_type # "deactivate" =>
           active[r.policy_id] = r

LEMMA NewestNext ==
    ASSUME NEW list, NEW n \in Nat, NEW r
    PROVE  Newest(list, n + 1, r) <=>
               \/ r = list[n + 1]
               \/ Newest(list, n, r) /\ list[n + 1].policy_id # r.policy_id
<1>1. ASSUME NEW i \in 1 .. n
      PROVE  (\A j \in i + 1 .. n + 1 : list[j].policy_id # r.policy_id) <=>
                 /\ \A j \in i + 1 .. n : list[j].policy_id # r.policy_id
                 /\ list[n + 1].policy_id # r.policy_id
  <2>1. /\ n + 1 \in i + 1 .. n + 1
        /\ \A j \in i + 1 .. n + 1 : j = n + 1 \/ j \in i + 1 .. n
        /\ \A j \in i + 1 .. n : j \in i + 1 .. n + 1
    BY <1>1
  <2> QED BY <2>1
<1>2. /\ \A i \in 1 .. n + 1 : i = n + 1 \/ i \in 1 .. n
      /\ \A i \in 1 .. n : i \in 1 .. n + 1
      /\ n + 1 \in 1 .. n + 1 /\ (n + 1) + 1 .. n + 1 = {}
  OBVIOUS
<1>3. CASE Newest(list, n + 1, r)
  <2>1. PICK i \in 1 .. n + 1 :
            list[i] = r /\ \A j \in i + 1 .. n + 1 : list[j].policy_id # r.policy_id
    BY <1>3 DEF Newest
  <2> QED BY <1>1, <1>2, <2>1 DEF Newest
<1>4. ASSUME r = list[n + 1]
      PROVE  Newest(list, n + 1, r)
  BY <1>2, <1>4 DEF Newest
<1>5. ASSUME Newest(list, n, r), list[n + 1].policy_id # r.policy_id
      PROVE  Newest(list, n + 1, r)
  <2>1. PICK i \in 1 .. n :
            list[i] = r /\ \A j \in i + 1 .. n : list[j].policy_id # r.policy_id
    BY <1>5 DEF Newest
  <2> QED BY <1>1, <1>2, <1>5, <2>1 DEF Newest
<1> QED BY <1>3, <1>4, <1>5

LEMMA NewestIsOne ==
    ASSUME NEW list, NEW n \in Nat, NEW r, NEW q, Newest(list, n, r),
           Newest(list, n, q), r.policy_id = q.policy_id
    PROVE  r = q
<1>1. PICK i \in 1 .. n :
          list[i] = r /\ \A j \in i + 1 .. n : list[j].policy_id # r.policy_id
  BY DEF Newest
<1>2. PICK k \in 1 .. n :
          list[k] = q /\ \A j \in k + 1 .. n : list[j].policy_id # q.policy_id
  BY DEF Newest
<1>3. i = k \/ k \in i + 1 .. n \/ i \in k + 1 .. n
  OBVIOUS
<1> QED BY <1>1, <1>2, <1>3

LEMMA AppliedShows ==
    ASSUME NEW list, NEW n \in Nat, NEW active, Shows(active, list, n)
    PROVE  Shows(Applied(active, list[n + 1]), list, n + 1)
<1>1. PICK r : r = list[n + 1]
  OBVIOUS
<1>2. PICK next : next = Applied(active, r)
  OBVIOUS
<1>3. /\ next = [p \in DOMAIN next |-> next[p]]
      /\ \A p : p \in DOMAIN next <=>
             \/ p \in DOMAIN active /\ p # r.policy_id
             \/ p = r.policy_id /\ r.event_type # "deactivate"
      /\ r.event_type # "deactivate" => next[r.policy_id] = r
      /\ \A p \in DOMAIN active : p # r.policy_id => next[p] = active[p]
  <2>1. CASE r.event_type = "deactivate"
    <3>1. next = [p \in DOMAIN active \ {r.policy_id} |-> active[p]]
      BY <1>2, <2>1 DEF Applied
    <3> QED BY <2>1, <3>1
  <2>2. CASE r.event_type # "deactivate"
    <3>1. next = [p \in DOMAIN active \cup {r.policy_id} |->
                     IF p = r.policy_id THEN r ELSE active[p]]
      BY <1>2, <2>2 DEF Applied
    <3> QED BY <2>2, <3>1
  <2> QED BY <2>1, <2>2
<1>4. \A q : Newest(list, n + 1, q) <=>
                 q = r \/ (Newest(list, n, q) /\ r.policy_id # q.policy_id)
  <2> TAKE q
  <2>1. Newest(list, n + 1, q) <=>
            \/ q = list[n + 1]
            \/ Newest(list, n, q) /\ list[n + 1].policy_id # q.policy_id
    BY NewestNext
  <2> QED BY <1>1, <2>1, Zenon
<1>5. /\ \A p : p \in DOMAIN active <=>
             \E q : Newest(list, n, q) /\ q.policy_id = p /\ q.event_type # "deactivate"
      /\ \A q : Newest(list, n, q) /\ q.event_type # "deactivate" =>
             active[q.policy_id] = q
  BY DEF Shows
<1>6. ASSUME NEW p
      PROVE  p \in DOMAIN next <=>
             \E q : Newest(list, n + 1, q) /\ q.policy_id = p /\ q.event_type # "deactivate"
  <2>1. CASE p = r.policy_id
    <3>1. \A q : Newest(list, n + 1, q) /\ q.policy_id = p => q = r
      BY <1>4, <2>1, Zenon
    <3>2. Newest(list, n + 1, r)
      BY <1>4
    <3>3. p \in DOMAIN next <=> r.event_type # "deactivate"
      BY <1>3, <2>1
    <3> QED BY <2>1, <3>1, <3>2, <3>3, Zenon
  <2>2. CASE p # r.policy_id
    <3>1. \A q : q.policy_id = p => (Newest(list, n + 1, q) <=> Newest(list, n, q))
      BY <1>4, <2>2, Zenon
    <3>2. p \in DOMAIN next <=> p \in DOMAIN active
      BY <1>3, <2>2
    <3>3. p \in DOMAIN active <=>
              \E q : Newest(list, n, q) /\ q.policy_id = p /\ q.event_type # "deactivate"
      BY <1>5, Zenon
    <3> QED BY <3>1, <3>2, <3>3, Zenon
  <2> QED BY <2>1, <2>2
<1>7. ASSUME NEW q, Newest(list, n + 1, q), q.event_type # "deactivate"
      PROVE  next[q.policy_id] = q
  BY <1>3, <1>4, <1>5, <1>7
<1> QED BY <1>1, <1>2, <1>3, <1>6, <1>7 DEF Shows

LEMMA SnapshotShows ==
    ASSUME NEW list, Listed(list)
    PROVE  Shows(ActiveSnapshot(list), list, Len(list))
<1>1. PICK after : /\ Replays(after, list, Len(list))
                   /\ ActiveSnapshot(list) = after[Len(list)]
  BY SnapshotReplays
<1>2. Len(list) \in Nat
  BY ListedFacts
<1> DEFINE Bad == {k \in 0 .. Len(list) : ~Shows(after[k], list, k)}
<1>3. \A k \in 0 .. Len(list) :
          after[k] = IF k = 0 THEN <<>> ELSE Applied(after[k - 1], list[k])
  BY <1>1 DEF Replays
<1>4. 0 \notin Bad
  <2>1. after[0] = <<>>
    BY <1>2, <1>3
  <2>2. \A r : ~Newest(list, 0, r)
    BY DEF Newest
  <2>3. DOMAIN <<>> = {} /\ <<>> = [p \in DOMAIN <<>> |-> <<>>[p]]
    OBVIOUS
  <2>4. Shows(<<>>, list, 0)
    BY <2>2, <2>3 DEF Shows
  <2> QED BY <2>1, <2>4
<1>5. Bad = {}
  <2> SUFFICES ASSUME Bad # {} PROVE FALSE
    OBVIOUS
  <2>1. Bad \subseteq Nat
    OBVIOUS
  <2>2. Min(Bad) \in Bad /\ \A k \in Bad : Min(Bad) <= k
    <3> HIDE DEF Bad
    <3> QED BY <2>1, MinInSet
  <2>3. PICK m \in Bad : m = Min(Bad)
    BY <2>2
  <2>4. m \in 1 .. Len(list) /\ m \in 0 .. Len(list)
    BY <1>2, <1>4, <2>3
  <2>5. PICK k : k = m - 1
    OBVIOUS
  <2>6. k \in 0 .. Len(list) /\ k \in Nat /\ k + 1 = m /\ ~(m <= k) /\ m # 0
    BY <1>2, <2>4, <2>5
  <2>7. k \notin Bad
    <3> HIDE DEF Bad
    <3> QED BY <2>2, <2>3, <2>6
  <2>8. Shows(after[k], list, k)
    BY <2>6, <2>7
  <2>9. after[m] = Applied(after[k], list[m])
    BY <1>3, <2>4, <2>5, <2>6
  <2>10. Shows(after[m], list, m)
    BY <2>6, <2>8, <2>9, AppliedShows
  <2> QED BY <2>3, <2>10
<1>6. Len(list) \in 0 .. Len(list)
  BY <1>2
<1> QED BY <1>1, <1>5, <1>6

\* So the newest events say what is active.
LEMMA SameShown ==
    ASSUME NEW one, NEW two, NEW list, NEW other, NEW n, NEW m,
           Shows(one, list, n), Shows(two, other, m),
           \A r : Newest(list, n, r) <=> Newest(other, m, r)
    PROVE  one = two
<1>1. DOMAIN one = DOMAIN two
  BY DEF Shows
<1>2. \A p \in DOMAIN one : one[p] = two[p]
  <2> TAKE p \in DOMAIN one
  <2>1. PICK r : Newest(list, n, r) /\ r.policy_id = p /\ r.event_type # "deactivate"
    BY DEF Shows
  <2> QED BY <2>1 DEF Shows
<1>3. one = [p \in DOMAIN one |-> one[p]] /\ two = [p \in DOMAIN two |-> two[p]]
  BY DEF Shows
<1> QED BY <1>1, <1>2, <1>3

-----------------------------------------------------------------------------
(* The order of as-of replay *)

LEMMA MemoryEntries ==
    ASSUME NEW list, Memory(list)
    PROVE  /\ DOMAIN list = 1 .. Len(list) /\ Len(list) \in Nat
           /\ \A i \in DOMAIN list : /\ list[i].recorded_at \in 0 .. MaxClock
                                     /\ list[i].sequence \in 0 .. MaxLines
<1>1. DOMAIN list = 1 .. Len(list) /\ Len(list) \in Nat
  BY ListedFacts DEF Memory
<1>2. MaxLines \in Nat
  BY LedgerBounds
<1>3. ASSUME NEW i \in DOMAIN list
      PROVE  list[i].recorded_at \in 0 .. MaxClock /\ list[i].sequence \in 0 .. MaxLines
  <2>1. Made(list[i])
    BY <1>1 DEF Memory
  <2>2. list[i].sequence \in 0 .. MaxLines - 1
    BY <2>1 DEF Made
  <2>3. 0 .. MaxLines - 1 \subseteq 0 .. MaxLines
    BY <1>2
  <2> QED BY <2>1, <2>2, <2>3 DEF Made
<1> QED BY <1>1, <1>3

\* Sooner is a strict order of a memory's entries.
LEMMA SoonerOrders ==
    ASSUME NEW list, Memory(list)
    PROVE  /\ \A i, j \in DOMAIN list : i = j \/ Sooner(list, i, j) \/ Sooner(list, j, i)
           /\ \A i, j \in DOMAIN list : ~(Sooner(list, i, j) /\ Sooner(list, j, i))
<1>1. \A i \in DOMAIN list :
          i \in Int /\ list[i].recorded_at \in Int /\ list[i].sequence \in Int
  BY MemoryEntries
<1> QED BY <1>1 DEF Sooner

\* There is a last one, by time, then by sequence, then by position.
LEMMA LastSooner ==
    ASSUME NEW list, Memory(list),
           NEW S, S \subseteq DOMAIN list, S # {}
    PROVE  \E x \in S : \A y \in S \ {x} : Sooner(list, y, x)
<1>1. /\ DOMAIN list = 1 .. Len(list) /\ Len(list) \in Nat /\ MaxLines \in Nat
      /\ \A i \in S : /\ i \in 0 .. Len(list)
                      /\ list[i].recorded_at \in 0 .. MaxClock
                      /\ list[i].sequence \in 0 .. MaxLines
  <2>1. MaxLines \in Nat
    BY LedgerBounds
  <2> QED BY <2>1, MemoryEntries
<1>2. PICK a \in {list[i].recorded_at : i \in S} :
          \A b \in {list[i].recorded_at : i \in S} : a >= b
  <2> DEFINE Times == {list[i].recorded_at : i \in S}
  <2>1. Times \subseteq 0 .. MaxClock /\ Times # {}
    BY <1>1
  <2> HIDE DEF Times
  <2>2. \E x \in Times : \A y \in Times : x >= y
    BY <2>1, LedgerBounds, Greatest
  <2> QED BY <2>2 DEF Times
<1> DEFINE T == {i \in S : list[i].recorded_at = a}
<1>3. PICK b \in {list[i].sequence : i \in T} :
          \A c \in {list[i].sequence : i \in T} : b >= c
  <2> DEFINE Numbers == {list[i].sequence : i \in T}
  <2>1. Numbers \subseteq 0 .. MaxLines /\ Numbers # {}
    BY <1>1, <1>2
  <2> HIDE DEF Numbers
  <2>2. \E x \in Numbers : \A y \in Numbers : x >= y
    BY <1>1, <2>1, Greatest
  <2> QED BY <2>2 DEF Numbers
<1> DEFINE U == {i \in T : list[i].sequence = b}
<1>4. PICK x \in U : \A y \in U : x >= y
  <2>1. U \subseteq 0 .. Len(list) /\ U # {}
    BY <1>1, <1>3
  <2> HIDE DEF U
  <2> QED BY <1>1, <2>1, Greatest
<1>5. /\ x \in S /\ list[x].recorded_at = a /\ list[x].sequence = b
      /\ x \in Int /\ a \in Int /\ b \in Int
  BY <1>1, <1>4
<1>6. ASSUME NEW y \in S \ {x}
      PROVE  Sooner(list, y, x)
  <2>1. /\ y \in Int /\ list[y].recorded_at \in Int /\ list[y].sequence \in Int
        /\ a >= list[y].recorded_at
    BY <1>1, <1>2
  <2>2. list[y].recorded_at = a => b >= list[y].sequence
    BY <1>3
  <2>3. list[y].recorded_at = a /\ list[y].sequence = b => x >= y
    BY <1>4
  <2> QED BY <1>5, <2>1, <2>2, <2>3 DEF Sooner
<1> QED BY <1>5, <1>6

\* What Sorted chooses: the indices in S in their order.
Orders(f, list, S, n) ==
    /\ f \in [1 .. n -> S] /\ Range(f) = S
    /\ \A k, l \in 1 .. n : k < l => Sooner(list, f[k], f[l])

\* The last comes after an order of the others.
LEMMA OrderLonger ==
    ASSUME NEW list, NEW S, NEW n \in Nat, NEW x \in S, NEW g,
           Orders(g, list, S \ {x}, n), \A y \in S \ {x} : Sooner(list, y, x)
    PROVE  \E f : Orders(f, list, S, n + 1)
<1>1. PICK f : f = [k \in 1 .. n + 1 |-> IF k = n + 1 THEN x ELSE g[k]]
  OBVIOUS
<1>2. /\ \A k \in 1 .. n : k \in 1 .. n + 1 /\ k # n + 1
      /\ \A k \in 1 .. n + 1 : k \in 1 .. n \/ k = n + 1
      /\ n + 1 \in 1 .. n + 1
  OBVIOUS
<1>3. g \in [1 .. n -> S \ {x}] /\ Range(g) = S \ {x}
  BY DEF Orders
<1>4. f[n + 1] = x /\ \A k \in 1 .. n : f[k] = g[k] /\ f[k] \in S \ {x}
  BY <1>1, <1>2, <1>3
<1>5. f \in [1 .. n + 1 -> S]
  BY <1>1, <1>2, <1>4
<1>6. Range(f) = S
  <2>1. ASSUME NEW y \in S
        PROVE  \E k \in 1 .. n + 1 : f[k] = y
    <3>1. CASE y = x
      BY <1>2, <1>4, <3>1
    <3>2. CASE y # x
      <4>1. PICK k \in 1 .. n : g[k] = y
        BY <1>3, <3>2 DEF Range
      <4> QED BY <1>2, <1>4, <4>1
    <3> QED BY <3>1, <3>2
  <2> QED BY <1>5, <2>1 DEF Range
<1>7. \A k, l \in 1 .. n + 1 : k < l => Sooner(list, f[k], f[l])
  <2> SUFFICES ASSUME NEW k \in 1 .. n + 1, NEW l \in 1 .. n + 1, k < l
               PROVE  Sooner(list, f[k], f[l])
    OBVIOUS
  <2>1. k \in 1 .. n
    OBVIOUS
  <2>2. CASE l = n + 1
    BY <1>4, <2>1, <2>2
  <2>3. CASE l \in 1 .. n
    BY <1>4, <2>1, <2>3 DEF Orders
  <2> QED BY <1>2, <2>2, <2>3
<1> QED BY <1>5, <1>6, <1>7 DEF Orders

LEMMA OrderExists ==
    ASSUME NEW list, Memory(list), NEW S, S \subseteq DOMAIN list
    PROVE  IsFiniteSet(S) /\ Cardinality(S) \in Nat
           /\ \E f : Orders(f, list, S, Cardinality(S))
<1>1. \A T \in SUBSET DOMAIN list : IsFiniteSet(T) /\ Cardinality(T) \in Nat
  <2>1. DOMAIN list = 1 .. Len(list) /\ Len(list) \in Nat
    BY ListedFacts DEF Memory
  <2>2. IsFiniteSet(DOMAIN list)
    BY <2>1, FS_Interval
  <2> QED BY <2>2, FS_Subset, FS_CardinalityType
<1> DEFINE Unordered(T) == T \subseteq DOMAIN list /\ ~ \E f : Orders(f, list, T, Cardinality(T))
           Bad == {n \in Nat : \E T : Unordered(T) /\ Cardinality(T) = n}
<1>2. Bad = {}
  <2> SUFFICES ASSUME Bad # {} PROVE FALSE
    OBVIOUS
  <2>1. Bad \subseteq Nat
    OBVIOUS
  <2>2. Min(Bad) \in Bad /\ \A k \in Bad : Min(Bad) <= k
    <3> HIDE DEF Bad
    <3> QED BY <2>1, MinInSet
  <2>3. PICK T : Unordered(T) /\ Cardinality(T) = Min(Bad)
    BY <2>2
  <2>4. T \in SUBSET DOMAIN list /\ IsFiniteSet(T) /\ Cardinality(T) \in Nat
    BY <1>1, <2>3
  <2>5. CASE T = {}
    <3>1. Cardinality(T) = 0
      BY <2>5, FS_EmptySet
    <3>2. PICK none : none = [k \in 1 .. 0 |-> 0]
      OBVIOUS
    <3>3. Orders(none, list, T, 0)
      BY <2>5, <3>2 DEF Orders, Range
    <3> QED BY <2>3, <3>1, <3>3
  <2>6. CASE T # {}
    <3>1. PICK x \in T : \A y \in T \ {x} : Sooner(list, y, x)
      BY <2>4, <2>6, LastSooner
    <3>2. PICK n : n = Cardinality(T \ {x})
      OBVIOUS
    <3>3. /\ T \ {x} \in SUBSET DOMAIN list /\ n \in Nat
          /\ Cardinality(T) = n + 1
      <4>1. T \ {x} \in SUBSET DOMAIN list
        BY <2>4
      <4>2. n \in Nat /\ n = Cardinality(T) - 1
        BY <1>1, <2>4, <3>1, <3>2, <4>1, FS_RemoveElement
      <4> QED BY <2>4, <4>1, <4>2
    <3>4. n \notin Bad
      <4>1. ~(Min(Bad) <= n)
        BY <2>3, <2>4, <3>3
      <4> HIDE DEF Bad
      <4> QED BY <2>2, <4>1
    <3>5. ~Unordered(T \ {x})
      BY <3>2, <3>3, <3>4
    <3>6. PICK g : Orders(g, list, T \ {x}, n)
      BY <3>2, <3>3, <3>5
    <3>7. \E f : Orders(f, list, T, n + 1)
      BY <3>1, <3>3, <3>6, OrderLonger
    <3> QED BY <2>3, <3>3, <3>7
  <2> QED BY <2>5, <2>6
<1>3. ~Unordered(S)
  BY <1>1, <1>2
<1> QED BY <1>1, <1>3

\* The newest of the sorted list are the last of their policies in the order.
LEMMA SortedNewest ==
    ASSUME NEW list, Memory(list), NEW S, S \subseteq DOMAIN list,
           NEW n, n = Cardinality(S)
    PROVE  /\ n \in Nat /\ Listed(Sorted(list, S)) /\ Len(Sorted(list, S)) = n
           /\ \A r : Newest(Sorted(list, S), n, r) <=>
                  \E i \in S :
                      /\ list[i] = r
                      /\ \A j \in S \ {i} :
                             list[j].policy_id = r.policy_id => Sooner(list, j, i)
<1>1. n \in Nat /\ \E f : Orders(f, list, S, n)
  BY OrderExists
<1>2. \E f \in [1 .. n -> S] :
          /\ Range(f) = S
          /\ \A k, l \in DOMAIN f : k < l => Sooner(list, f[k], f[l])
  BY <1>1 DEF Orders
<1>3. PICK f : f = CHOOSE g \in [1 .. n -> S] :
                       /\ Range(g) = S
                       /\ \A k, l \in DOMAIN g : k < l => Sooner(list, g[k], g[l])
  OBVIOUS
<1>4. /\ f \in [1 .. n -> S] /\ Range(f) = S
      /\ \A k, l \in DOMAIN f : k < l => Sooner(list, f[k], f[l])
  BY <1>2, <1>3
<1>5. PICK s : s = [k \in 1 .. n |-> list[f[k]]]
  OBVIOUS
<1>6. s = Sorted(list, S)
  BY <1>3, <1>5 DEF Sorted
<1>7. /\ \A k \in 1 .. n : f[k] \in S /\ s[k] = list[f[k]]
      /\ \A i \in S : \E k \in 1 .. n : f[k] = i
      /\ \A k, l \in 1 .. n : k < l => Sooner(list, f[k], f[l])
  BY <1>4, <1>5 DEF Range
<1>8. Listed(s) /\ Len(s) = n
  <2>1. s \in Seq({list[i] : i \in S})
    BY <1>1, <1>5, <1>7
  <2> QED BY <1>1, <1>5, <2>1, SeqListed
<1>9. ASSUME NEW r, Newest(s, n, r)
      PROVE  \E i \in S :
                 /\ list[i] = r
                 /\ \A j \in S \ {i} :
                        list[j].policy_id = r.policy_id => Sooner(list, j, i)
  <2>1. PICK k \in 1 .. n :
            s[k] = r /\ \A l \in k + 1 .. n : s[l].policy_id # r.policy_id
    BY <1>9 DEF Newest
  <2>2. ASSUME NEW j \in S \ {f[k]}, list[j].policy_id = r.policy_id
        PROVE  Sooner(list, j, f[k])
    <3>1. PICK l \in 1 .. n : f[l] = j
      BY <1>7
    <3>2. l \notin k + 1 .. n /\ l # k
      BY <1>7, <2>1, <2>2, <3>1
    <3>3. l < k
      BY <1>1, <3>2
    <3> QED BY <1>7, <3>1, <3>3
  <2> QED BY <1>7, <2>1, <2>2
<1>10. ASSUME NEW r, NEW i \in S, list[i] = r,
              \A j \in S \ {i} :
                  list[j].policy_id = r.policy_id => Sooner(list, j, i)
       PROVE  Newest(s, n, r)
  <2>1. PICK k \in 1 .. n : f[k] = i
    BY <1>7
  <2>2. ASSUME NEW l \in k + 1 .. n, s[l].policy_id = r.policy_id
        PROVE  FALSE
    <3>1. l \in 1 .. n /\ k < l
      BY <1>1
    <3>2. f[l] \in S /\ s[l] = list[f[l]] /\ Sooner(list, i, f[l])
      BY <1>7, <2>1, <3>1
    <3>3. f[l] # i /\ ~Sooner(list, f[l], i)
      BY <3>2, SoonerOrders
    <3> QED BY <1>10, <2>2, <3>2, <3>3
  <2> QED BY <1>7, <1>10, <2>1, <2>2 DEF Newest
<1> QED BY <1>1, <1>6, <1>8, <1>9, <1>10

-----------------------------------------------------------------------------
(* What the queries answer *)

LEMMA KnownEntries ==
    ASSUME NEW list, NEW at
    PROVE  /\ KnownAt(list, at) \subseteq DOMAIN list
           /\ \A i \in KnownAt(list, at) : list[i].recorded_at <= at
           /\ \A i \in DOMAIN list : list[i].recorded_at <= at => i \in KnownAt(list, at)
BY DEF KnownAt

\* The event that comes last in the order is the one LatestOf names.
LEMMA LatestIsLast ==
    ASSUME NEW list, Memory(list), ChainHolds(list),
           NEW at, NEW policy, NEW K,
           K = {i \in KnownAt(list, at) : list[i].policy_id = policy},
           NEW x \in K, \A y \in K \ {x} : Sooner(list, y, x)
    PROVE  LatestOf(list, policy, at) = list[x]
<1> DEFINE Latest(r) ==
        /\ r.policy_id = policy /\ r.recorded_at <= at
        /\ \A s \in Range(list) :
               s.policy_id = policy /\ s.recorded_at <= at =>
                   \/ s.recorded_at < r.recorded_at
                   \/ s.recorded_at = r.recorded_at /\ s.sequence <= r.sequence
<1>1. /\ \A i \in DOMAIN list : /\ i \in Int /\ list[i].recorded_at \in Int
                                /\ list[i].sequence \in Int /\ list[i].sequence = i - 1
      /\ K \subseteq DOMAIN list
      /\ \A i \in K : list[i].policy_id = policy /\ list[i].recorded_at <= at
      /\ \A s \in Range(list) : s.policy_id = policy /\ s.recorded_at <= at =>
             \E i \in K : s = list[i]
  BY MemoryEntries, KnownEntries DEF ChainHolds, Range
<1>2. \A i \in K : list[i] \in Range(list)
  BY <1>1 DEF Range
<1>3. Latest(list[x])
  <2>1. ASSUME NEW s \in Range(list), s.policy_id = policy, s.recorded_at <= at
        PROVE  \/ s.recorded_at < list[x].recorded_at
               \/ s.recorded_at = list[x].recorded_at /\ s.sequence <= list[x].sequence
    <3>1. PICK y \in K : s = list[y]
      BY <1>1, <2>1
    <3>2. CASE y = x
      BY <1>1, <3>1, <3>2
    <3>3. CASE y # x
      <4>1. Sooner(list, y, x)
        BY <3>3
      <4> QED BY <1>1, <3>1, <4>1 DEF Sooner
    <3> QED BY <3>2, <3>3
  <2> QED BY <1>1, <2>1
<1>4. ASSUME NEW q \in Range(list), Latest(q)
      PROVE  q = list[x]
  <2>1. PICK y \in K : q = list[y]
    BY <1>1, <1>4
  <2>2. \/ list[x].recorded_at < q.recorded_at
        \/ list[x].recorded_at = q.recorded_at /\ list[x].sequence <= q.sequence
    BY <1>1, <1>2, <1>4
  <2>3. CASE y # x
    <3>1. Sooner(list, y, x)
      BY <2>3
    <3> QED BY <1>1, <2>1, <2>2, <3>1 DEF Sooner
  <2> QED BY <2>1, <2>3
<1>5. LatestOf(list, policy, at) = CHOOSE r \in Range(list) : Latest(r)
  BY DEF LatestOf
<1> HIDE DEF Latest
<1>6. /\ Latest(CHOOSE r \in Range(list) : Latest(r))
      /\ (CHOOSE r \in Range(list) : Latest(r)) \in Range(list)
  BY <1>2, <1>3
<1> QED BY <1>4, <1>5, <1>6

\* A policy is active at an instant exactly when the last of its events by then
\* deactivates nothing, and with that event's record.
FollowsTime(list, policy, at) ==
    LET known  == \E r \in Range(list) :
                      r.policy_id = policy /\ r.recorded_at <= at
        latest == LatestOf(list, policy, at)
        active == AsOf(list, at)
    IN  /\ policy \in DOMAIN active
              <=> known /\ latest.event_type # "deactivate"
        /\ policy \in DOMAIN active => active[policy] = latest

LEMMA LatestByTime ==
    ASSUME NEW list, Memory(list), ChainHolds(list),
           NEW at, NEW policy
    PROVE  FollowsTime(list, policy, at)
<1> DEFINE known == \E r \in Range(list) : r.policy_id = policy /\ r.recorded_at <= at
<1>1. PICK S, n, s, active, latest :
          /\ S = KnownAt(list, at) /\ n = Cardinality(S) /\ s = Sorted(list, S)
          /\ active = ActiveSnapshot(s) /\ latest = LatestOf(list, policy, at)
  OBVIOUS
<1>2. S \subseteq DOMAIN list
  BY <1>1, KnownEntries
<1>3. /\ n \in Nat /\ Listed(s) /\ Len(s) = n
      /\ \A r : Newest(s, n, r) <=>
             \E i \in S : /\ list[i] = r
                         /\ \A j \in S \ {i} :
                                list[j].policy_id = r.policy_id => Sooner(list, j, i)
  BY <1>1, <1>2, SortedNewest
<1>4. Shows(active, s, n)
  BY <1>1, <1>3, SnapshotShows
<1>5. PICK K : K = {i \in S : list[i].policy_id = policy}
  OBVIOUS
<1>6. known <=> K # {}
  BY <1>1, <1>5, KnownEntries DEF Range
<1>7. CASE K = {}
  <2>1. \A r : ~(Newest(s, n, r) /\ r.policy_id = policy)
    BY <1>3, <1>5, <1>7
  <2>2. policy \notin DOMAIN active
    BY <1>4, <2>1 DEF Shows
  <2>3. ~known
    BY <1>6, <1>7
  <2> HIDE DEF known
  <2>4. /\ policy \in DOMAIN active <=> known /\ latest.event_type # "deactivate"
        /\ policy \in DOMAIN active => active[policy] = latest
    BY <2>2, <2>3
  <2> QED BY <1>1, <2>4 DEF known, AsOf, FollowsTime
<1>8. CASE K # {}
  <2>1. PICK x \in K : \A y \in K \ {x} : Sooner(list, y, x)
    BY <1>2, <1>5, <1>8, LastSooner
  <2>2. latest = list[x]
    BY <1>1, <1>5, <2>1, LatestIsLast
  <2>3. x \in S /\ latest.policy_id = policy
    BY <1>5, <2>1, <2>2
  <2>4. Newest(s, n, latest)
    BY <1>3, <1>5, <2>1, <2>2, <2>3
  <2>5. \A r : Newest(s, n, r) /\ r.policy_id = policy => r = latest
    BY <1>3, <2>3, <2>4, NewestIsOne
  <2>6. /\ policy \in DOMAIN active <=> latest.event_type # "deactivate"
        /\ policy \in DOMAIN active => active[policy] = latest
    BY <1>4, <2>3, <2>4, <2>5 DEF Shows
  <2>7. known
    BY <1>6, <1>8
  <2> HIDE DEF known
  <2>8. /\ policy \in DOMAIN active <=> known /\ latest.event_type # "deactivate"
        /\ policy \in DOMAIN active => active[policy] = latest
    BY <2>6, <2>7
  <2> QED BY <1>1, <2>8 DEF known, AsOf, FollowsTime
<1> QED BY <1>7, <1>8

\* As-of replay applies the events in recorded_at order, append sequence breaking
\* ties, whatever time they were recorded for: in a ledger that verifies, a policy is
\* active at an instant exactly when the last of its events by then deactivates
\* nothing, and with that event's record.
THEOREM AsOfFollowsTime == Spec => []AsOfIsLatestByTime
<1>1. ASSUME LedgerTypes
      PROVE  AsOfIsLatestByTime
  <2>1. \A p \in Processes : Memory(entries[p])
    BY <1>1 DEF LedgerTypes
  <2>2. ASSUME NEW p \in Processes, NEW at \in 0 .. MaxClock, NEW policy \in Policies
        PROVE  ChainHolds(entries[p]) => FollowsTime(entries[p], policy, at)
    BY <2>1, LatestByTime
  <2> QED BY <2>2 DEF AsOfIsLatestByTime, FollowsTime
<1> QED BY <1>1, AlwaysTypes, PTL

\* The value that stands for Python's None is no record.
NoneIsNoRecord == NONE # [f \in Fields |-> NONE[f]]

LEMMA LatestIsNewest ==
    ASSUME NEW list, Memory(list), NEW policy
    PROVE  IF EventsOf(list, policy) = {}
           THEN \A r : ~(Newest(list, Len(list), r) /\ r.policy_id = policy)
           ELSE /\ Newest(list, Len(list), LatestForPolicy(list, policy))
                /\ LatestForPolicy(list, policy) \in Range(list)
                /\ LatestForPolicy(list, policy).policy_id = policy
<1>1. PICK n : n = Len(list)
  OBVIOUS
<1>2. n \in Nat /\ DOMAIN list = 1 .. n
  BY <1>1, MemoryEntries
<1>3. PICK E : E = EventsOf(list, policy)
  OBVIOUS
<1>4. E = {i \in 1 .. n : list[i].policy_id = policy}
  BY <1>2, <1>3 DEF EventsOf
<1>5. CASE E = {}
  <2>1. \A r : ~(Newest(list, n, r) /\ r.policy_id = policy)
    BY <1>4, <1>5 DEF Newest
  <2> QED BY <1>1, <1>3, <1>5, <2>1
<1>6. CASE E # {}
  <2>1. E \subseteq 1 .. n
    BY <1>4
  <2>2. Max(E) \in E /\ \A j \in E : Max(E) >= j
    BY <1>2, <1>6, <2>1, MaxInSet
  <2>3. PICK i \in E : i = Max(E)
    BY <2>2
  <2>4. i \in 1 .. n /\ list[i].policy_id = policy
    BY <1>4
  <2>5. \A j \in i + 1 .. n : list[j].policy_id # policy
    <3> SUFFICES ASSUME NEW j \in i + 1 .. n, list[j].policy_id = policy PROVE FALSE
      OBVIOUS
    <3>1. j \in 1 .. n /\ ~(i >= j)
      BY <1>2, <2>4
    <3>2. j \in E
      BY <1>4, <3>1
    <3> QED BY <2>2, <2>3, <3>1, <3>2
  <2>6. LatestForPolicy(list, policy) = list[i]
    BY <1>3, <1>6, <2>3 DEF LatestForPolicy
  <2>7. Newest(list, n, list[i])
    BY <2>4, <2>5 DEF Newest
  <2>8. list[i] \in Range(list)
    BY <1>2, <2>4 DEF Range
  <2> QED BY <1>1, <1>3, <1>6, <2>4, <2>6, <2>7, <2>8
<1> QED BY <1>5, <1>6

(***************************************************************************)
(* The two queries for now agree: a policy is active exactly when          *)
(* latest_for_policy finds an event that deactivates nothing, and then its *)
(* record is the active one.                                               *)
(***************************************************************************)
THEOREM QueriesAgree ==
    ASSUME NoneIsNoRecord
    PROVE  Spec => []LatestIsActive
<1>1. ASSUME LedgerTypes
      PROVE  LatestIsActive
  <2> SUFFICES ASSUME NEW p \in Processes, NEW policy \in Policies,
                      NEW list, list = entries[p],
                      NEW latest, latest = LatestForPolicy(list, policy),
                      NEW active, active = ActiveSnapshot(list)
               PROVE  IF latest = NONE \/ latest.event_type = "deactivate"
                      THEN policy \notin DOMAIN active
                      ELSE policy \in DOMAIN active /\ active[policy] = latest
    BY DEF LatestIsActive
  <2>1. clock \in Nat /\ Memory(list)
    BY <1>1, LedgerBounds DEF LedgerTypes
  <2>2. Shows(active, list, Len(list)) /\ Len(list) \in Nat
    BY <2>1, SnapshotShows, MemoryEntries DEF Memory
  <2>3. CASE EventsOf(list, policy) = {}
    <3>1. latest = NONE
      BY <2>3 DEF LatestForPolicy
    <3>2. policy \notin DOMAIN active
      BY <2>1, <2>2, <2>3, LatestIsNewest DEF Shows
    <3> QED BY <3>1, <3>2
  <2>4. CASE EventsOf(list, policy) # {}
    <3>1. /\ Newest(list, Len(list), latest) /\ latest.policy_id = policy
          /\ latest \in Range(list)
      BY <2>1, <2>4, LatestIsNewest
    <3>2. latest # NONE
      <4>1. Made(latest)
        BY <2>1, <3>1, MemoryEntries DEF Memory, Range
      <4> QED BY <4>1 DEF Made, NoneIsNoRecord
    <3>3. \A r : Newest(list, Len(list), r) /\ r.policy_id = policy => r = latest
      BY <2>2, <3>1, NewestIsOne
    <3>4. /\ policy \in DOMAIN active <=> latest.event_type # "deactivate"
          /\ policy \in DOMAIN active => active[policy] = latest
      BY <2>2, <3>1, <3>3 DEF Shows
    <3> QED BY <3>2, <3>4
  <2> QED BY <2>3, <2>4
<1> QED BY <1>1, AlwaysTypes, PTL

-----------------------------------------------------------------------------
(* What was active *)

(***************************************************************************)
(* While nothing is misdated, the returned records are in the order of     *)
(* their recorded_at, and the snapshot of each passed instant is that of   *)
(* the records up to it: the first m, which are the ones before its end.   *)
(***************************************************************************)
Recalled(snapshot, returned, t) ==
    \E m \in 0 .. Len(returned) :
        /\ snapshot = ActiveSnapshot(SubSeq(returned, 1, m))
        /\ \A i \in 1 .. Len(returned) : i <= m <=> returned[i].recorded_at < t

InOrder(returned) ==
    \A i, j \in 1 .. Len(returned) :
        i <= j => returned[i].recorded_at <= returned[j].recorded_at

History == "misdated" \notin incidents =>
    /\ InOrder(Returned)
    /\ \A i \in 1 .. Len(Returned) : Returned[i].recorded_at <= clock
    /\ \A t \in 1 .. Len(past) : Recalled(past[t], Returned, t)

LEMMA LastRecords ==
    ASSUME NEW chains, Listed(chains), NEW lasts,
           \A i \in DOMAIN chains : Memory(chains[i]) /\ chains[i] # <<>>,
           lasts = [i \in DOMAIN chains |-> Last(chains[i])]
    PROVE  /\ Listed(lasts) /\ Len(lasts) = Len(chains) /\ Len(chains) \in Nat
           /\ \A i \in 1 .. Len(chains) : /\ lasts[i] = chains[i][Len(chains[i])]
                                         /\ lasts[i].recorded_at \in 0 .. MaxClock
<1>1. PICK n : n = Len(chains)
  OBVIOUS
<1>2. DOMAIN chains = 1 .. n /\ n \in Nat
  BY <1>1, ListedFacts
<1>3. lasts = [i \in 1 .. n |-> chains[i][Len(chains[i])]]
  BY <1>2 DEF Last
<1>4. Listed(lasts) /\ Len(lasts) = n
  <2>1. PICK S : S = {chains[i][Len(chains[i])] : i \in 1 .. n}
    OBVIOUS
  <2>2. lasts \in [1 .. n -> S]
    BY <1>3, <2>1
  <2>3. lasts \in Seq(S) /\ Len(lasts) = n
    BY <1>2, <2>2
  <2> QED BY <2>3, SeqListed
<1>5. ASSUME NEW i \in 1 .. n
      PROVE  lasts[i] = chains[i][Len(chains[i])] /\ lasts[i].recorded_at \in 0 .. MaxClock
  <2>1. Memory(chains[i]) /\ chains[i] # <<>>
    BY <1>2
  <2>2. Made(chains[i][Len(chains[i])])
    BY <2>1, HeadOfList DEF Memory
  <2> QED BY <1>3, <2>2 DEF Made
<1> QED BY <1>1, <1>2, <1>4, <1>5

LEMMA ReturnedRecords ==
    ASSUME LedgerTypes
    PROVE  /\ Listed(Returned) /\ Len(Returned) = Len(acked) /\ Len(acked) \in Nat
           /\ \A i \in 1 .. Len(acked) : /\ Returned[i] = acked[i][Len(acked[i])]
                                        /\ Returned[i].recorded_at \in 0 .. MaxClock
BY LastRecords DEF LedgerTypes, Returned

\* A record appended later changes nothing of what an instant recalls.
LEMMA RecalledLater ==
    ASSUME NEW returned, Listed(returned), NEW longer, Listed(longer),
           Len(longer) = Len(returned) + 1,
           \A i \in 1 .. Len(returned) : longer[i] = returned[i],
           NEW snapshot, NEW t, Recalled(snapshot, returned, t),
           ~(longer[Len(longer)].recorded_at < t)
    PROVE  Recalled(snapshot, longer, t)
<1>1. PICK n : n = Len(returned)
  OBVIOUS
<1>2. n \in Nat /\ Len(longer) = n + 1
  BY <1>1, ListedFacts
<1>3. PICK m \in 0 .. n :
          /\ snapshot = ActiveSnapshot(SubSeq(returned, 1, m))
          /\ \A i \in 1 .. n : i <= m <=> returned[i].recorded_at < t
  BY <1>1 DEF Recalled
<1>4. m \in 0 .. n + 1 /\ ~(n + 1 <= m)
  BY <1>2
<1>5. SubSeq(longer, 1, m) = SubSeq(returned, 1, m)
  <2>1. PICK a, b : a = SubSeq(longer, 1, m) /\ b = SubSeq(returned, 1, m)
    OBVIOUS
  <2>2. /\ Listed(a) /\ Len(a) = m /\ \A i \in 1 .. m : a[i] = longer[i]
        /\ Listed(b) /\ Len(b) = m /\ \A i \in 1 .. m : b[i] = returned[i]
    BY <1>1, <1>2, <1>4, <2>1, ListedPrefix
  <2>3. \A i \in 1 .. m : i \in 1 .. n
    BY <1>2
  <2>4. a = b
    BY <1>1, <2>2, <2>3, ListedEqual
  <2> QED BY <2>1, <2>4
<1>6. \A i \in 1 .. n + 1 : i <= m <=> longer[i].recorded_at < t
  <2> TAKE i \in 1 .. n + 1
  <2>1. i \in 1 .. n \/ i = n + 1
    BY <1>2
  <2>2. CASE i \in 1 .. n
    BY <1>1, <1>3, <2>2
  <2>3. CASE i = n + 1
    BY <1>2, <1>4, <2>3
  <2> QED BY <2>1, <2>2, <2>3
<1> QED BY <1>2, <1>3, <1>4, <1>5, <1>6 DEF Recalled

LEMMA RecordHistory ==
    ASSUME LedgerTypes, History, NEW p \in Processes, RecordActivation(p)
    PROVE  History'
<1> SUFFICES ASSUME "misdated" \notin incidents'
             PROVE  (/\ InOrder(Returned)
                     /\ \A i \in 1 .. Len(Returned) : Returned[i].recorded_at <= clock
                     /\ \A t \in 1 .. Len(past) : Recalled(past[t], Returned, t))'
  BY DEF History
<1>1. PICK record \in Records(p) :
          /\ acked' = Append(acked, Append(entries[p], record))
          /\ Noted("misdated", record.recorded_at # clock)
  BY DEF RecordActivation
<1>2. record.recorded_at = clock /\ "misdated" \notin incidents
  BY <1>1 DEF Noted
<1>3. PICK n, before, after : n = Len(acked) /\ before = Returned /\ after = Returned'
  OBVIOUS
<1>4. /\ InOrder(before) /\ past' = past /\ clock' = clock
      /\ \A i \in 1 .. Len(before) : before[i].recorded_at <= clock
      /\ \A t \in 1 .. Len(past) : Recalled(past[t], before, t)
  BY <1>2, <1>3 DEF History, RecordActivation
<1>5. /\ n \in Nat /\ Listed(acked) /\ Listed(entries[p])
      /\ clock \in Nat /\ Len(past) = clock
  BY <1>3, ListedFacts, LedgerBounds DEF LedgerTypes, Memory
<1>6. /\ Listed(before) /\ Len(before) = n
      /\ \A i \in 1 .. n : /\ before[i] = acked[i][Len(acked[i])]
                          /\ before[i].recorded_at \in 0 .. clock
  <2>1. /\ Listed(before) /\ Len(before) = n
        /\ \A i \in 1 .. n : /\ before[i] = acked[i][Len(acked[i])]
                            /\ before[i].recorded_at \in 0 .. MaxClock
    BY <1>3, ReturnedRecords
  <2>2. \A i \in 1 .. n : before[i].recorded_at \in 0 .. clock
    BY <1>4, <1>5, <2>1, LedgerBounds
  <2> QED BY <2>1, <2>2
<1>7. /\ Listed(after) /\ Len(after) = Len(acked')
      /\ \A i \in 1 .. Len(acked') : after[i] = acked'[i][Len(acked'[i])]
  <2>1. /\ Listed(acked')
        /\ \A i \in DOMAIN acked' : Memory(acked'[i]) /\ acked'[i] # <<>>
    BY RecordTypes DEF LedgerTypes
  <2>2. after = [i \in DOMAIN acked' |-> Last(acked'[i])]
    BY <1>3 DEF Returned
  <2> QED BY <2>1, <2>2, LastRecords
<1>8. /\ Len(acked') = n + 1 /\ \A i \in 1 .. n : acked'[i] = acked[i]
      /\ acked'[n + 1] = Append(entries[p], record)
  BY <1>1, <1>3, <1>5, ListedAppend
<1>9. /\ Len(after) = n + 1 /\ \A i \in 1 .. n : after[i] = before[i]
      /\ after[n + 1] = record
  <2>1. PICK chain : chain = Append(entries[p], record)
    OBVIOUS
  <2>2. chain[Len(chain)] = record
    BY <1>5, <2>1, ListedAppend
  <2>3. \A i \in 1 .. n : i \in 1 .. n + 1
    BY <1>5
  <2>4. n + 1 \in 1 .. n + 1
    BY <1>5
  <2> QED BY <1>6, <1>7, <1>8, <2>1, <2>2, <2>3, <2>4
<1>10. InOrder(after)
  <2> SUFFICES ASSUME NEW i \in 1 .. n + 1, NEW j \in 1 .. n + 1, i <= j
               PROVE  after[i].recorded_at <= after[j].recorded_at
    BY <1>9 DEF InOrder
  <2>1. CASE j \in 1 .. n
    <3>1. i \in 1 .. n
      BY <1>5, <2>1
    <3> QED BY <1>4, <1>6, <1>9, <2>1, <3>1 DEF InOrder
  <2>2. CASE j = n + 1
    <3>1. i = n + 1 \/ i \in 1 .. n
      BY <1>5
    <3>2. after[i].recorded_at \in 0 .. clock
      BY <1>2, <1>5, <1>6, <1>9, <3>1
    <3> QED BY <1>2, <1>5, <1>9, <2>2, <3>2
  <2> QED BY <1>5, <2>1, <2>2
<1>11. \A t \in 1 .. Len(past') : Recalled(past'[t], after, t)
  <2> TAKE t \in 1 .. Len(past')
  <2>1. t \in 1 .. Len(past) /\ past'[t] = past[t]
    BY <1>4
  <2>2. ~(after[n + 1].recorded_at < t)
    BY <1>2, <1>5, <1>9, <2>1
  <2> QED BY <1>4, <1>5, <1>6, <1>7, <1>9, <2>1, <2>2, RecalledLater
<1>12. \A i \in 1 .. Len(after) : after[i].recorded_at <= clock
  <2>1. \A i \in 1 .. n + 1 : i \in 1 .. n \/ i = n + 1
    BY <1>5
  <2> QED BY <1>2, <1>4, <1>5, <1>6, <1>9, <2>1
<1> QED BY <1>3, <1>4, <1>10, <1>11, <1>12

LEMMA TickHistory ==
    ASSUME LedgerTypes, History, Tick
    PROVE  History'
<1> SUFFICES ASSUME "misdated" \notin incidents'
             PROVE  (/\ InOrder(Returned)
                     /\ \A i \in 1 .. Len(Returned) : Returned[i].recorded_at <= clock
                     /\ \A t \in 1 .. Len(past) : Recalled(past[t], Returned, t))'
  BY DEF History
<1>1. PICK n, returned : n = Len(acked) /\ returned = Returned
  OBVIOUS
<1>2. clock' = clock + 1 /\ acked' = acked /\ "misdated" \notin incidents /\ past' = Append(past, ActiveSnapshot(returned))
  BY <1>1 DEF Tick
<1>3. returned = Returned'
  BY <1>1, <1>2 DEF Returned
<1>4. /\ InOrder(returned) /\ \A i \in 1 .. Len(returned) : returned[i].recorded_at <= clock
      /\ \A t \in 1 .. Len(past) : Recalled(past[t], returned, t)
  BY <1>1, <1>2 DEF History
<1>5. /\ n \in Nat /\ Listed(returned) /\ Len(returned) = n
      /\ \A i \in 1 .. n : returned[i].recorded_at \in 0 .. clock
  <2>1. /\ n \in Nat /\ Listed(returned) /\ Len(returned) = n
        /\ \A i \in 1 .. n : returned[i].recorded_at \in 0 .. MaxClock
    BY <1>1, ReturnedRecords
  <2>2. clock \in Nat
    BY LedgerBounds DEF LedgerTypes
  <2>3. \A i \in 1 .. n : returned[i].recorded_at \in 0 .. clock
    BY <1>4, <2>1, <2>2, LedgerBounds
  <2> QED BY <2>1, <2>3
<1>6. Listed(past) /\ Len(past) = clock /\ clock \in Nat
  BY LedgerBounds DEF LedgerTypes
<1>7. Recalled(ActiveSnapshot(returned), returned, clock + 1)
  <2>1. n \in 0 .. n /\ \A i \in 1 .. n : i <= n <=> returned[i].recorded_at < clock + 1
    BY <1>5, <1>6
  <2>2. SubSeq(returned, 1, n) = returned
    <3>1. PICK whole : whole = SubSeq(returned, 1, n)
      OBVIOUS
    <3>2. Listed(whole) /\ Len(whole) = n /\ \A i \in 1 .. n : whole[i] = returned[i]
      BY <1>5, <2>1, <3>1, ListedPrefix
    <3> QED BY <1>5, <3>1, <3>2, ListedEqual
  <2> QED BY <1>5, <2>1, <2>2 DEF Recalled
<1>8. /\ Len(past') = clock + 1 /\ \A t \in 1 .. clock : past'[t] = past[t]
      /\ past'[clock + 1] = ActiveSnapshot(returned)
  BY <1>2, <1>6, ListedAppend
<1>9. \A t \in 1 .. Len(past') : Recalled(past'[t], returned, t)
  <2> TAKE t \in 1 .. Len(past')
  <2>1. t \in 1 .. clock \/ t = clock + 1
    BY <1>6, <1>8
  <2> QED BY <1>4, <1>6, <1>7, <1>8, <2>1
<1>10. \A i \in 1 .. Len(returned) : returned[i].recorded_at <= clock'
  BY <1>2, <1>5, <1>6
<1> QED BY <1>3, <1>4, <1>9, <1>10

LEMMA KeptHistory ==
    ASSUME History, UNCHANGED <<acked, past, clock>>, incidents \subseteq incidents'
    PROVE  History'
<1>1. Returned' = Returned /\ past' = past /\ clock' = clock
  BY DEF Returned
<1> QED BY <1>1 DEF History

LEMMA StepHistory ==
    ASSUME LedgerTypes, History, [Next]_vars
    PROVE  History'
<1>1. CASE UNCHANGED vars
  BY <1>1, KeptHistory DEF vars
<1>2. CASE Tick
  BY <1>2, TickHistory
<1>3. ASSUME NEW p \in Processes, RecordActivation(p)
      PROVE  History'
  BY <1>3, RecordHistory
<1>4. ASSUME NEW p \in Processes,
             \/ Open(p) \/ OpenUnverified(p) \/ AppendFails(p) \/ CrashAppending(p)
             \/ Export(p) \/ ExportFails(p) \/ CrashExporting(p) \/ Stop(p)
      PROVE  History'
  <2>1. UNCHANGED <<acked, past, clock>> /\ incidents \subseteq incidents'
    BY <1>4 DEF Open, OpenUnverified, Load, AppendFails, CrashAppending, Left, Export,
                ExportFails, CrashExporting, Truncated, Stop, Noted, NotedCut
  <2> QED BY <2>1, KeptHistory
<1>5. CASE PowerLoss
  <2>1. UNCHANGED <<acked, past, clock>> /\ incidents \subseteq incidents'
    BY <1>5 DEF PowerLoss, Lost, Noted, NotedCut
  <2> QED BY <2>1, KeptHistory
<1> QED BY <1>1, <1>2, <1>3, <1>4, <1>5 DEF Next

LEMMA AlwaysHistory == Spec => [](LedgerTypes /\ History)
<1>1. Init => History
  <2> SUFFICES ASSUME Init PROVE History
    OBVIOUS
  <2>1. Len(past) = 0 /\ Len(Returned) = 0 /\ 1 .. 0 = {}
    <3>1. acked = <<>> /\ past = <<>> /\ DOMAIN acked = {}
      BY DEF Init
    <3>2. LedgerTypes
      BY InitTypes
    <3> QED BY <3>1, <3>2, ReturnedRecords
  <2> QED BY <2>1 DEF History, InOrder
<1> QED BY <1>1, InitTypes, StepTypes, StepHistory, PTL DEF Spec

\* Among records that are in the order of their time, the last is the newest.
LEMMA OrderKept ==
    ASSUME NEW list, Memory(list), ChainHolds(list), InOrder(list),
           NEW i \in DOMAIN list, NEW j \in DOMAIN list
    PROVE  Sooner(list, i, j) <=> i < j
<1>1. \A k \in DOMAIN list : /\ k \in Int /\ list[k].recorded_at \in Int
                             /\ list[k].sequence \in Int /\ list[k].sequence = k - 1
  BY MemoryEntries DEF ChainHolds
<1>2. ASSUME NEW k \in DOMAIN list, NEW l \in DOMAIN list, k < l
      PROVE  Sooner(list, k, l)
  <2>1. k \in 1 .. Len(list) /\ l \in 1 .. Len(list) /\ k <= l
    BY <1>1, <1>2, MemoryEntries
  <2>2. list[k].recorded_at <= list[l].recorded_at
    BY <2>1 DEF InOrder
  <2> QED BY <1>1, <1>2, <2>2 DEF Sooner
<1>3. CASE i < j
  BY <1>2, <1>3
<1>4. CASE i = j
  <2>1. ~Sooner(list, i, j)
    BY <1>4, SoonerOrders
  <2> QED BY <1>1, <1>4, <2>1
<1>5. CASE j < i
  <2>1. ~Sooner(list, i, j)
    BY <1>2, <1>5, SoonerOrders
  <2> QED BY <1>1, <1>5, <2>1
<1> QED BY <1>1, <1>3, <1>4, <1>5

LEMMA ReplayOfFirst ==
    ASSUME NEW list, Memory(list), ChainHolds(list), InOrder(list),
           NEW m \in 0 .. Len(list), NEW S, S = 1 .. m
    PROVE  ActiveSnapshot(Sorted(list, S)) = ActiveSnapshot(SubSeq(list, 1, m))
<1>1. PICK n, s, first : n = Cardinality(S) /\ s = Sorted(list, S) /\ first = SubSeq(list, 1, m)
  OBVIOUS
<1>2. /\ DOMAIN list = 1 .. Len(list) /\ Len(list) \in Nat /\ Listed(list) /\ m \in Nat
  BY MemoryEntries DEF Memory
<1>3. /\ n \in Nat /\ Listed(s) /\ Len(s) = n
      /\ \A r : Newest(s, n, r) <=>
             \E i \in S : /\ list[i] = r
                         /\ \A j \in S \ {i} :
                                list[j].policy_id = r.policy_id => Sooner(list, j, i)
  <2>1. S \subseteq DOMAIN list
    BY <1>2
  <2> QED BY <1>1, <2>1, SortedNewest
<1>4. Listed(first) /\ Len(first) = m /\ \A i \in 1 .. m : first[i] = list[i]
  BY <1>1, <1>2, ListedPrefix
<1>5. ASSUME NEW r
      PROVE  Newest(s, n, r) <=> Newest(first, m, r)
  <2>1. ASSUME NEW i \in 1 .. m
        PROVE  (\A j \in S \ {i} : list[j].policy_id = r.policy_id => Sooner(list, j, i))
                   <=> \A j \in i + 1 .. m : first[j].policy_id # r.policy_id
    <3>1. \A j \in S \ {i} : Sooner(list, j, i) <=> j \notin i + 1 .. m
      <4> TAKE j \in S \ {i}
      <4>1. i \in DOMAIN list /\ j \in DOMAIN list
        BY <1>2
      <4>2. Sooner(list, j, i) <=> j < i
        BY <4>1, OrderKept
      <4> QED BY <1>2, <4>2
    <3>2. \A j \in i + 1 .. m : j \in S \ {i} /\ first[j] = list[j]
      BY <1>2, <1>4
    <3> QED BY <3>1, <3>2
  <2>2. Newest(first, m, r) <=>
            \E i \in 1 .. m : /\ list[i] = r
                             /\ \A j \in i + 1 .. m : first[j].policy_id # r.policy_id
    BY <1>4 DEF Newest
  <2> QED BY <1>3, <2>1, <2>2
<1>6. Shows(ActiveSnapshot(s), s, n) /\ Shows(ActiveSnapshot(first), first, m)
  BY <1>3, <1>4, SnapshotShows
<1>7. ActiveSnapshot(s) = ActiveSnapshot(first)
  BY <1>5, <1>6, SameShown
<1> QED BY <1>1, <1>7

(***************************************************************************)
(* As-of queries are history: when every event is recorded for the present, a ledger that      *)
(* holds the returned records answers for an instant what was active at    *)
(* its end.                                                                *)
(***************************************************************************)
THEOREM AsOfAnswersHistory == Spec => []AsOfIsHistory
<1>1. ASSUME LedgerTypes, History
      PROVE  AsOfIsHistory
  <2> SUFFICES ASSUME NEW p \in Processes, NEW list, list = entries[p],
                      ChainHolds(list), list = Returned, "misdated" \notin incidents,
                      NEW t \in DOMAIN past
               PROVE  AsOf(list, t - 1) = past[t]
    BY DEF AsOfIsHistory
  <2>1. clock \in Nat /\ Memory(list) /\ DOMAIN past = 1 .. Len(past) /\ Len(past) \in Nat
    BY <1>1, ListedFacts, LedgerBounds DEF LedgerTypes
  <2>2. /\ DOMAIN list = 1 .. Len(list) /\ Len(list) \in Nat
        /\ \A i \in DOMAIN list : list[i].recorded_at \in Int
    BY <2>1, MemoryEntries
  <2>3. InOrder(list) /\ Recalled(past[t], list, t)
    BY <1>1, <2>1 DEF History
  <2>4. PICK m \in 0 .. Len(list) :
            /\ past[t] = ActiveSnapshot(SubSeq(list, 1, m))
            /\ \A i \in 1 .. Len(list) : i <= m <=> list[i].recorded_at < t
    BY <2>3 DEF Recalled
  <2>5. KnownAt(list, t - 1) = 1 .. m
    <3>1. \A i \in 1 .. Len(list) : i <= m <=> list[i].recorded_at <= t - 1
      BY <2>1, <2>2, <2>4
    <3>2. \A i : i \in 1 .. m <=> i \in 1 .. Len(list) /\ i <= m
      BY <2>2
    <3> QED BY <2>2, <3>1, <3>2 DEF KnownAt
  <2> QED BY <2>1, <2>3, <2>4, <2>5, ReplayOfFirst DEF AsOf
<1> QED BY <1>1, AlwaysHistory, PTL
=============================================================================
