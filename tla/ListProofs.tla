----------------------------- MODULE ListProofs -----------------------------
(***************************************************************************)
(* Lemmas about sets of naturals and about sequences whose elements belong *)
(* to no set given in advance, on which the other proof modules rest.      *)
(***************************************************************************)
EXTENDS Integers, SequencesExt, NaturalsInduction, WellFoundedInduction,
        SequenceTheorems, TLAPS

(***************************************************************************)
(* A non-empty set of naturals has a least element, so Min is in the set.  *)
(***************************************************************************)
LEMMA MinInSet ==
    ASSUME NEW S, S \subseteq Nat, S # {}
    PROVE  Min(S) \in S /\ \A y \in S : Min(S) <= y
<1>1. \E x \in S : \A y \in S : ~ (<<y, x>> \in OpToRel(<, Nat))
  BY NatLessThanWellFounded, WFMin
<1>2. PICK x \in S : \A y \in S : ~ (<<y, x>> \in OpToRel(<, Nat))
  BY <1>1
<1>3. OpToRel(<, Nat) = {ss \in Nat \X Nat : ss[1] < ss[2]}
  BY Zenon DEF OpToRel
<1>4. \A y \in S : x <= y
  <2> TAKE y \in S
  <2>1. ~ (<<y, x>> \in {ss \in Nat \X Nat : ss[1] < ss[2]})
    BY <1>2, <1>3, Zenon
  <2> QED BY <2>1, x \in Nat, y \in Nat
<1> QED BY <1>4 DEF Min

\* A bounded non-empty set of naturals has a greatest element.
LEMMA Greatest ==
    ASSUME NEW n \in Nat, NEW S, S \subseteq 0 .. n, S # {}
    PROVE  \E x \in S : \A y \in S : x >= y
<1> DEFINE T == {n - x : x \in S}
<1>1. T \subseteq Nat /\ T # {}
  <2>1. \A x \in S : n - x \in Nat
    OBVIOUS
  <2>2. PICK x \in S : TRUE
    OBVIOUS
  <2>3. n - x \in T
    BY <2>2
  <2> QED BY <2>1, <2>3
<1>2. Min(T) \in T /\ \A y \in T : Min(T) <= y
  <2> HIDE DEF T
  <2> QED BY <1>1, MinInSet
<1>3. PICK x \in S : Min(T) = n - x
  BY <1>2
<1>4. \A y \in S : x >= y
  <2> TAKE y \in S
  <2>1. n - y \in T
    OBVIOUS
  <2>2. n - x <= n - y
    BY <1>2, <1>3, <2>1
  <2> QED BY <2>2
<1> QED BY <1>4

LEMMA MaxInSet ==
    ASSUME NEW n \in Nat, NEW S, S \subseteq 1 .. n, S # {}
    PROVE  Max(S) \in S /\ \A y \in S : Max(S) >= y
<1>1. S \subseteq 0 .. n
  OBVIOUS
<1>2. \E x \in S : \A y \in S : x >= y
  BY <1>1, Greatest
<1> QED BY <1>2 DEF Max

-----------------------------------------------------------------------------
\* A sequence, whatever its elements are.
Listed(s) == s \in Seq(Range(s))

\* What is a sequence over some set is one, and what that gives.
LEMMA SeqListed ==
    ASSUME NEW T, NEW s \in Seq(T)
    PROVE  Listed(s)
<1>1. \A i \in DOMAIN s : s[i] \in Range(s)
  BY DEF Range
<1> QED BY <1>1 DEF Listed

LEMMA ListedFacts ==
    ASSUME NEW s, Listed(s)
    PROVE  /\ Len(s) \in Nat /\ DOMAIN s = 1 .. Len(s)
           /\ s = <<>> <=> Len(s) = 0
BY DEF Listed

LEMMA ListedAppend ==
    ASSUME NEW s, NEW e, Listed(s)
    PROVE  /\ Listed(Append(s, e))
           /\ Len(Append(s, e)) = Len(s) + 1
           /\ DOMAIN Append(s, e) = 1 .. Len(s) + 1
           /\ \A i \in 1 .. Len(s) : Append(s, e)[i] = s[i]
           /\ Append(s, e)[Len(s) + 1] = e
<1> DEFINE R == Range(s) \cup {e}
<1>1. s \in Seq(R) /\ e \in R
  <2>1. \A i \in DOMAIN s : s[i] \in R
    BY DEF Range
  <2>2. e \in R
    OBVIOUS
  <2> HIDE DEF R
  <2> QED BY <2>1, <2>2 DEF Listed
<1> HIDE DEF R
<1>2. Append(s, e) \in Seq(R)
  BY <1>1
<1>3. Listed(Append(s, e))
  BY <1>2, SeqListed
<1> QED BY <1>1, <1>3

LEMMA ListedPrefix ==
    ASSUME NEW s, Listed(s), NEW n \in 0 .. Len(s)
    PROVE  /\ Listed(SubSeq(s, 1, n))
           /\ Len(SubSeq(s, 1, n)) = n
           /\ \A i \in 1 .. n : SubSeq(s, 1, n)[i] = s[i]
<1> DEFINE R == Range(s)
<1>1. s \in Seq(R)
  BY DEF Listed
<1> HIDE DEF R
<1>2. \A i \in 1 .. n : s[i] \in R
  BY <1>1
<1>3. /\ SubSeq(s, 1, n) \in Seq(R)
      /\ Len(SubSeq(s, 1, n)) = IF 1 <= n THEN n - 1 + 1 ELSE 0
      /\ \A i \in 1 .. n - 1 + 1 : SubSeq(s, 1, n)[i] = s[1 + i - 1]
  BY <1>2, SubSeqProperties, n \in Int
<1>4. Listed(SubSeq(s, 1, n))
  BY <1>3, SeqListed
<1>5. n - 1 + 1 = n /\ \A i \in 1 .. n : 1 + i - 1 = i
  OBVIOUS
<1>6. Len(SubSeq(s, 1, n)) = n
  BY <1>3
<1> QED BY <1>3, <1>4, <1>5, <1>6

\* Two sequences of one length with the same elements are equal.
LEMMA ListedEqual ==
    ASSUME NEW s, NEW t, Listed(s), Listed(t), Len(s) = Len(t),
           \A i \in 1 .. Len(s) : s[i] = t[i]
    PROVE  s = t
BY ListedFacts DEF Listed

\* The sequence b is a, and then d.
Concats(b, a, d) ==
    /\ Listed(b) /\ Len(b) = Len(a) + Len(d)
    /\ DOMAIN b = 1 .. Len(a) + Len(d)
    /\ \A i \in 1 .. Len(a) : b[i] = a[i]
    /\ \A i \in 1 .. Len(d) : b[Len(a) + i] = d[i]

LEMMA ListedConcat ==
    ASSUME NEW p, NEW q, Listed(p), Listed(q)
    PROVE  Concats(p \o q, p, q)
<1> DEFINE T == Range(p) \cup Range(q)
<1>1. p \in Seq(T) /\ q \in Seq(T)
  BY DEF Listed, Range
<1> HIDE DEF T
<1>2. /\ p \o q \in Seq(T) /\ Len(p \o q) = Len(p) + Len(q)
      /\ \A i \in 1 .. Len(p) : (p \o q)[i] = p[i]
      /\ \A i \in 1 .. Len(q) : (p \o q)[Len(p) + i] = q[i]
  BY <1>1
<1>3. Listed(p \o q)
  BY <1>2, SeqListed
<1> QED BY <1>2, <1>3 DEF Concats
=============================================================================
