---------------------------- MODULE Lists_proof ----------------------------
(***************************************************************************)
(* What the operations on lists do to a sequence of any length, element by *)
(* element, and that a loop over positions has a first one: the facts the  *)
(* other proofs share.                                                     *)
(***************************************************************************)
EXTENDS Lists, WellFoundedInduction, TLAPS

\* dll_add (Append) puts its element last.
LEMMA AppendElement ==
  ASSUME NEW S, NEW s \in Seq(S), NEW e \in S
  PROVE  /\ Append(s, e) \in Seq(S)
         /\ Len(Append(s, e)) = Len(s) + 1
         /\ \A k \in 1 .. Len(s) + 1 : Append(s, e)[k] = IF k = Len(s) + 1 THEN e ELSE s[k]
OBVIOUS

\* Two parts of a sequence, cut after i and continued from k + 1.
LEMMA Parts ==
  ASSUME NEW S, NEW s \in Seq(S), NEW i \in Nat, NEW k \in Nat,
         i <= Len(s), k <= Len(s)
  PROVE  /\ SubSeq(s, 1, i) \in Seq(S) /\ Len(SubSeq(s, 1, i)) = i
         /\ \A j \in 1 .. i : SubSeq(s, 1, i)[j] = s[j]
         /\ SubSeq(s, k + 1, Len(s)) \in Seq(S)
         /\ Len(SubSeq(s, k + 1, Len(s))) = Len(s) - k
         /\ \A j \in 1 .. Len(s) - k : SubSeq(s, k + 1, Len(s))[j] = s[j + k]
OBVIOUS

\* The elements of two sequences, one after the other.
LEMMA Concatenation ==
  ASSUME NEW S, NEW a \in Seq(S), NEW b \in Seq(S)
  PROVE  /\ a \o b \in Seq(S) /\ Len(a \o b) = Len(a) + Len(b)
         /\ \A j \in 1 .. Len(a) + Len(b) :
              (a \o b)[j] = IF j <= Len(a) THEN a[j] ELSE b[j - Len(a)]
OBVIOUS

\* dll_remove closes the gap.
LEMMA WithoutElement ==
  ASSUME NEW S, NEW s \in Seq(S), NEW i \in 1 .. Len(s)
  PROVE  /\ Without(s, i) \in Seq(S)
         /\ Len(Without(s, i)) = Len(s) - 1
         /\ \A j \in 1 .. Len(s) - 1 : Without(s, i)[j] = IF j < i THEN s[j] ELSE s[j + 1]
<1> DEFINE a == SubSeq(s, 1, i - 1)
           b == SubSeq(s, i + 1, Len(s))
<1>1. /\ a \in Seq(S) /\ Len(a) = i - 1 /\ \A j \in 1 .. i - 1 : a[j] = s[j]
      /\ b \in Seq(S) /\ Len(b) = Len(s) - i /\ \A j \in 1 .. Len(s) - i : b[j] = s[j + i]
  BY i - 1 \in Nat, i \in Nat, Parts
<1> HIDE DEF a, b
<1>2. /\ a \o b \in Seq(S) /\ Len(a \o b) = Len(s) - 1
      /\ \A j \in 1 .. Len(s) - 1 :
           (a \o b)[j] = IF j <= Len(a) THEN a[j] ELSE b[j - Len(a)]
  <2>1. Len(a) + Len(b) = Len(s) - 1
    BY <1>1
  <2>2. /\ a \o b \in Seq(S) /\ Len(a \o b) = Len(a) + Len(b)
        /\ \A j \in 1 .. Len(a) + Len(b) :
             (a \o b)[j] = IF j <= Len(a) THEN a[j] ELSE b[j - Len(a)]
    BY <1>1, Concatenation, Zenon
  <2> QED
    BY <2>1, <2>2, Zenon
<1>3. ASSUME NEW j \in 1 .. Len(s) - 1
      PROVE  (a \o b)[j] = IF j < i THEN s[j] ELSE s[j + 1]
  <2>1. CASE j < i
    BY <1>1, <1>2, <2>1
  <2>2. CASE ~(j < i)
    <3>1. j - (i - 1) \in 1 .. Len(s) - i /\ (j - (i - 1)) + i = j + 1
      BY <2>2
    <3>2. (a \o b)[j] = b[j - (i - 1)]
      BY <1>1, <1>2, <2>2
    <3> QED
      BY <1>1, <2>2, <3>1, <3>2
  <2> QED
    BY <2>1, <2>2
<1> QED
  BY <1>2, <1>3 DEF Without, a, b

\* The sequence t over S is s with e behind its i-th element.
IsAfter(S, s, i, e, t) ==
  /\ t \in Seq(S)
  /\ Len(t) = Len(s) + 1
  /\ \A j \in 1 .. Len(s) + 1 :
       t[j] = IF j <= i THEN s[j] ELSE IF j = i + 1 THEN e ELSE s[j - 1]

\* dll_add_after opens a gap.
LEMMA AfterElement ==
  ASSUME NEW S, NEW s \in Seq(S), NEW e \in S, NEW i \in 0 .. Len(s)
  PROVE  IsAfter(S, s, i, e, After(s, i, e))
<1> DEFINE a == SubSeq(s, 1, i)
           b == SubSeq(s, i + 1, Len(s))
           c == a \o <<e>>
<1>1. /\ a \in Seq(S) /\ Len(a) = i /\ \A j \in 1 .. i : a[j] = s[j]
      /\ b \in Seq(S) /\ Len(b) = Len(s) - i /\ \A j \in 1 .. Len(s) - i : b[j] = s[j + i]
  <2>1. i \in Nat /\ i <= Len(s)
    OBVIOUS
  <2> QED
    BY <2>1, Parts, SMTT(30)
<1> HIDE DEF a, b
<1>2. /\ c \in Seq(S) /\ Len(c) = i + 1
      /\ \A j \in 1 .. i + 1 : c[j] = IF j <= i THEN s[j] ELSE e
  BY <1>1
<1> HIDE DEF c
<1>3. /\ c \o b \in Seq(S) /\ Len(c \o b) = Len(s) + 1
      /\ \A j \in 1 .. Len(s) + 1 :
           (c \o b)[j] = IF j <= Len(c) THEN c[j] ELSE b[j - Len(c)]
  <2>1. Len(c) + Len(b) = Len(s) + 1
    BY <1>1, <1>2
  <2>2. /\ c \o b \in Seq(S) /\ Len(c \o b) = Len(c) + Len(b)
        /\ \A j \in 1 .. Len(c) + Len(b) :
             (c \o b)[j] = IF j <= Len(c) THEN c[j] ELSE b[j - Len(c)]
    <3>1. c \in Seq(S) /\ b \in Seq(S)
      BY <1>1, <1>2
    <3> QED
      BY <3>1, Concatenation, Zenon
  <2> QED
    BY <2>1, <2>2, Zenon
<1>4. ASSUME NEW j \in 1 .. Len(s) + 1
      PROVE  (c \o b)[j] = IF j <= i THEN s[j] ELSE IF j = i + 1 THEN e ELSE s[j - 1]
  <2>1. CASE j <= i + 1
    BY <1>2, <1>3, <2>1
  <2>2. CASE ~(j <= i + 1)
    <3>1. j - (i + 1) \in 1 .. Len(s) - i /\ (j - (i + 1)) + i = j - 1
      BY <2>2
    <3>2. (c \o b)[j] = b[j - (i + 1)]
      BY <1>2, <1>3, <2>2
    <3> QED
      BY <1>1, <2>2, <3>1, <3>2
  <2> QED
    BY <2>1, <2>2
<1>5. After(s, i, e) = c \o b
  BY DEF After, a, b, c
<1> QED
  BY <1>3, <1>4, <1>5 DEF IsAfter

-----------------------------------------------------------------------------
\* A set of numbers that is not empty has a least one.
LEMMA LeastElement ==
  ASSUME NEW S \in SUBSET Nat, S # {}
  PROVE  \E m \in S : \A k \in S : m <= k
<1>1. PICK m \in S : \A k \in S : ~(<<k, m>> \in OpToRel(<, Nat))
  BY NatLessThanWellFounded, WFMin
<1>2. ASSUME NEW k \in S PROVE m <= k
  <2>1. ~(k < m)
    BY <1>1 DEF OpToRel
  <2> QED
    BY <2>1
<1> QED
  BY <1>2
=============================================================================
