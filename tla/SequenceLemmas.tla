--------------------------- MODULE SequenceLemmas ---------------------------
(* Facts about sequences and sets of numbers that the proofs about the     *)
(* dispatcher, the publisher and the recovery need.                        *)
EXTENDS Naturals, Sequences, SequencesExt, FiniteSets, FunctionTheorems,
        FiniteSetTheorems, SequenceTheorems, WellFoundedInduction, TLAPS

\* What is left of s after its first p elements.
LEMMA SuffixFacts ==
    ASSUME NEW S, NEW s \in Seq(S), NEW p \in 0..Len(s)
    PROVE  /\ SubSeq(s, p + 1, Len(s)) \in Seq(S)
           /\ Len(SubSeq(s, p + 1, Len(s))) = Len(s) - p
           /\ \A i \in 1..Len(s) - p : SubSeq(s, p + 1, Len(s))[i] = s[p + i]
<1>1. Len(s) \in Nat /\ \A i \in 1..Len(s) : s[i] \in S
  OBVIOUS
<1>2. p + 1 \in Int /\ Len(s) \in Int /\ \A i \in p + 1..Len(s) : s[i] \in S
  BY <1>1
<1>3. /\ SubSeq(s, p + 1, Len(s)) \in Seq(S)
      /\ Len(SubSeq(s, p + 1, Len(s))) =
            (IF p + 1 <= Len(s) THEN Len(s) - (p + 1) + 1 ELSE 0)
      /\ \A i \in 1..Len(s) - (p + 1) + 1 :
            SubSeq(s, p + 1, Len(s))[i] = s[(p + 1) + i - 1]
  BY <1>2, SubSeqProperties
<1>4. Len(s) - (p + 1) + 1 = Len(s) - p
  BY <1>1
<1>5. \A i \in 1..Len(s) - p : (p + 1) + i - 1 = p + i
  BY <1>1
<1>6. Len(SubSeq(s, p + 1, Len(s))) = Len(s) - p
  BY <1>1, <1>3
<1> QED BY <1>3, <1>4, <1>5, <1>6

\* s without its element at place p: the others are all there.
LEMMA RemoveAtFacts ==
    ASSUME NEW S, NEW s \in Seq(S), NEW p \in 1..Len(s)
    PROVE  /\ RemoveAt(s, p) \in Seq(S)
           /\ Len(RemoveAt(s, p)) = Len(s) - 1
           /\ \A i \in 1..p - 1 : RemoveAt(s, p)[i] = s[i]
           /\ \A i \in p..Len(s) - 1 : RemoveAt(s, p)[i] = s[i + 1]
<1> DEFINE a == SubSeq(s, 1, p - 1)
           b == SubSeq(s, p + 1, Len(s))
<1>1. Len(s) \in Nat /\ \A i \in 1..Len(s) : s[i] \in S
  OBVIOUS
<1>2. a \in Seq(S) /\ Len(a) = p - 1 /\ \A i \in 1..p - 1 : a[i] = s[i]
  <2>1. \A i \in 1..p - 1 : s[i] \in S
    BY <1>1
  <2>2. 1 \in Int /\ p - 1 \in Int
    BY <1>1
  <2>3. /\ a \in Seq(S) /\ Len(a) = IF 1 <= p - 1 THEN p - 1 - 1 + 1 ELSE 0
        /\ \A i \in 1..p - 1 - 1 + 1 : a[i] = s[1 + i - 1]
    BY <2>1, <2>2, SubSeqProperties
  <2> HIDE DEF a
  <2> QED BY <2>3, <1>1
<1>3. /\ b \in Seq(S) /\ Len(b) = Len(s) - p
      /\ \A i \in 1..Len(s) - p : b[i] = s[p + i]
  BY SuffixFacts, <1>1
<1>4. RemoveAt(s, p) = a \o b
  BY DEF RemoveAt
<1> HIDE DEF a, b
<1>5. /\ a \o b \in Seq(S) /\ Len(a \o b) = Len(a) + Len(b)
      /\ \A i \in 1..Len(a) + Len(b) :
            (a \o b)[i] = IF i <= Len(a) THEN a[i] ELSE b[i - Len(a)]
  BY <1>2, <1>3, ConcatProperties
<1>6. Len(a) + Len(b) = Len(s) - 1
  BY <1>1, <1>2, <1>3
<1>7. ASSUME NEW i \in 1..p - 1 PROVE (a \o b)[i] = s[i]
  BY <1>1, <1>2, <1>3, <1>5
<1>8. ASSUME NEW i \in p..Len(s) - 1 PROVE (a \o b)[i] = s[i + 1]
  <2>1. i \in 1..Len(a) + Len(b) /\ ~(i <= Len(a))
    BY <1>1, <1>2, <1>3
  <2>2. (a \o b)[i] = b[i - Len(a)]
    BY <2>1, <1>5
  <2>3. i - Len(a) \in 1..Len(s) - p /\ p + (i - Len(a)) = i + 1
    BY <1>1, <1>2
  <2> QED BY <2>2, <2>3, <1>3
<1> QED BY <1>4, <1>5, <1>6, <1>7, <1>8

\* A sequence of the shape [i \in DOMAIN s |-> ...].
LEMMA SameShape ==
    ASSUME NEW S, NEW s \in Seq(S), NEW T, NEW t,
           t \in [DOMAIN s -> T]
    PROVE  t \in Seq(T) /\ Len(t) = Len(s) /\ DOMAIN t = DOMAIN s
<1>1. Len(s) \in Nat /\ DOMAIN s = 1..Len(s)
  OBVIOUS
<1>2. t \in [1..Len(s) -> T]
  BY <1>1
<1>3. t \in Seq(T)
  BY <1>1, <1>2, SeqDef
<1> QED BY <1>1, <1>2, <1>3

\* Moving a finite set of numbers down by one does not make it larger, and
\* makes it smaller when 1 was among them.
LEMMA ShiftCardinality ==
    ASSUME NEW S \in SUBSET (Nat \ {0}), IsFiniteSet(S),
           NEW T, T \subseteq {i \in Nat \ {0} : i + 1 \in S}
    PROVE  IsFiniteSet(T) /\ Cardinality(T) <= Cardinality(S \ {1})
<1> DEFINE f == [i \in T |-> i + 1]
<1>1. f \in Injection(T, S \ {1})
  BY DEF Injection, IsInjective
<1>2. IsFiniteSet(S \ {1})
  BY FS_RemoveElement
<1> HIDE DEF f
<1> QED BY <1>1, <1>2, FS_Injection

\* A set of numbers that is not empty has a least one.
LEMMA Least ==
    ASSUME NEW S \in SUBSET Nat, S # {}
    PROVE  \E i \in S : \A j \in S : i <= j
<1>1. \E R : /\ R = {ss \in Nat \X Nat : ss[1] < ss[2]}
             /\ IsWellFoundedOn(R, Nat)
  BY NatLessThanWellFounded, Zenon DEF OpToRel
<1>2. PICK R : /\ R = {ss \in Nat \X Nat : ss[1] < ss[2]}
               /\ IsWellFoundedOn(R, Nat)
  BY <1>1
<1>3. \E x \in S : \A y \in S : ~ (<<y, x>> \in R)
  BY <1>2, WFMin
<1>4. \A x, y \in Nat : x < y => <<x, y>> \in R
  <2> SUFFICES ASSUME NEW x \in Nat, NEW y \in Nat, x < y PROVE <<x, y>> \in R
    OBVIOUS
  <2>1. <<x, y>> \in Nat \X Nat /\ <<x, y>>[1] < <<x, y>>[2]
    OBVIOUS
  <2> QED BY <2>1, <1>2, Zenon
<1>5. PICK i \in S : \A y \in S : ~ (<<y, i>> \in R)
  BY <1>3
<1>6. ASSUME NEW j \in S PROVE i <= j
  <2>1. i \in Nat /\ j \in Nat
    OBVIOUS
  <2>2. ~ (j < i)
    BY <1>4, <1>5, <2>1, Zenon
  <2> QED BY <2>1, <2>2
<1> QED BY <1>6

\* The operator CHOOSE finds it.
LEMMA LeastChosen ==
    ASSUME NEW S \in SUBSET Nat, S # {}, NEW c,
           c = CHOOSE i \in S : \A j \in S : i <= j
    PROVE  c \in S /\ \A j \in S : c <= j
BY Least

\* A set of places of a sequence that is not empty has a greatest one.
LEMMA Greatest ==
    ASSUME NEW n \in Nat, NEW S \in SUBSET (1..n), S # {}
    PROVE  Max(S) \in S /\ \A j \in S : Max(S) >= j
<1> DEFINE T == {n - i : i \in S}
<1>1. T \in SUBSET Nat /\ T # {}
  <2>1. \A i \in S : n - i \in Nat
    OBVIOUS
  <2> QED BY <2>1
<1>2. PICK t \in T : \A u \in T : t <= u
  BY <1>1, Least
<1>3. PICK x \in S : t = n - x
  BY <1>2
<1>4. \A j \in S : x >= j
  <2> SUFFICES ASSUME NEW j \in S PROVE x >= j
    OBVIOUS
  <2>1. n - x <= n - j
    BY <1>2, <1>3
  <2> QED BY <2>1
<1> QED BY <1>4 DEF Max

=============================================================================
