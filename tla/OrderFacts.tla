----------------------------- MODULE OrderFacts -----------------------------
(* The least-number principle for sets, which the proofs use as induction,   *)
(* and a fact about sequences.                                               *)
EXTENDS Integers, Sequences, FiniteSetTheorems, SequenceTheorems, TLAPS

\* A set of naturals that is not empty has a least element.
LEMMA LeastNatural ==
  ASSUME NEW S \in SUBSET Nat, S # {}
  PROVE  \E x \in S : \A y \in S : x <= y
<1>1. IsWellFoundedOn(OpToRel(<, Nat), Nat)
  BY NatLessThanWellFounded, Zenon
<1>2. PICK x \in S : \A y \in S : ~(<<y, x>> \in OpToRel(<, Nat))
  BY <1>1, WFMin, Zenon
<1>3. \A y \in S : y < x => <<y, x>> \in OpToRel(<, Nat)
  BY Zenon DEF OpToRel
<1>4. \A y \in S : ~(y < x)
  BY <1>2, <1>3, Zenon
<1> QED
  BY <1>4

\* A set of naturals below a bound that is not empty has a greatest element.
LEMMA GreatestNatural ==
  ASSUME NEW S \in SUBSET Nat, S # {}, NEW n \in Nat, \A x \in S : x <= n
  PROVE  \E x \in S : \A y \in S : y <= x
<1> DEFINE T == {u \in Nat : n - u \in S}
<1>1. \A x \in S : n - x \in Nat /\ n - (n - x) = x
  OBVIOUS
<1>2. \A x \in S : n - x \in T
  BY <1>1
<1>3. T \in SUBSET Nat /\ T # {}
  BY <1>2
<1>4. PICK t \in T : \A u \in T : t <= u
  <2> HIDE DEF T
  <2> QED BY <1>3, LeastNatural
<1>5. n - t \in S /\ t \in Nat
  BY <1>4
<1>6. ASSUME NEW y \in S PROVE y <= n - t
  <2>1. t <= n - y
    BY <1>2, <1>4
  <2> QED BY <2>1, <1>5
<1> QED
  BY <1>5, <1>6

\* Where the elements of one word, n words and two words are when they follow each other.
InTurn(a, b, c) == (a \o b) \o c

LEMMA Followed ==
  ASSUME NEW T, NEW n \in Nat, NEW a \in Seq(T), NEW b \in Seq(T), NEW c \in Seq(T),
         Len(a) = 1, Len(b) = n, Len(c) = 2
  PROVE  /\ DOMAIN InTurn(a, b, c) = 1 .. n + 3
         /\ InTurn(a, b, c)[1] = a[1]
         /\ InTurn(a, b, c)[n + 2] = c[1] /\ InTurn(a, b, c)[n + 3] = c[2]
         /\ \A i \in 1 .. n : InTurn(a, b, c)[i + 1] = b[i]
<1>1. PICK ab \in Seq(T) : /\ ab = a \o b /\ Len(ab) = 1 + n /\ ab[1] = a[1]
       /\ \A i \in 1 .. n : ab[1 + i] = b[i]
  <2>1. /\ a \o b \in Seq(T) /\ Len(a \o b) = Len(a) + Len(b)
        /\ \A i \in 1 .. Len(a) + Len(b) : (a \o b)[i] = IF i <= Len(a) THEN a[i] ELSE b[i - Len(a)]
    BY ConcatProperties
  <2>2. (a \o b)[1] = a[1]
    BY <2>1
  <2>3. \A i \in 1 .. n : (a \o b)[1 + i] = b[i]
    BY <2>1
  <2>4. Len(a \o b) = 1 + n
    BY <2>1
  <2> QED BY <2>1, <2>2, <2>3, <2>4
<1>2. PICK s \in Seq(T) : /\ s = ab \o c /\ Len(s) = n + 3 /\ s[n + 2] = c[1] /\ s[n + 3] = c[2]
       /\ \A i \in 1 .. n + 1 : s[i] = ab[i]
  <2>1. /\ ab \o c \in Seq(T) /\ Len(ab \o c) = Len(ab) + Len(c)
        /\ \A i \in 1 .. Len(ab) + Len(c) : (ab \o c)[i] = IF i <= Len(ab) THEN ab[i] ELSE c[i - Len(ab)]
    BY ConcatProperties
  <2>2. Len(ab) = n + 1 /\ Len(ab) + 1 = n + 2 /\ Len(ab) + 2 = n + 3 /\ 1 \in 1 .. Len(c) /\ 2 \in 1 .. Len(c)
    BY <1>1
  <2>4. (ab \o c)[n + 2] = c[1] /\ (ab \o c)[n + 3] = c[2]
    <3>1. n + 2 \in 1 .. Len(ab) + Len(c) /\ ~(n + 2 <= Len(ab)) /\ n + 2 - Len(ab) = 1
          /\ n + 3 \in 1 .. Len(ab) + Len(c) /\ ~(n + 3 <= Len(ab)) /\ n + 3 - Len(ab) = 2
      BY <2>2
    <3> QED BY <2>1, <3>1
  <2>5. ASSUME NEW i \in 1 .. n + 1 PROVE (ab \o c)[i] = ab[i]
    <3>1. i \in 1 .. Len(ab) + Len(c) /\ i <= Len(ab)
      BY <2>2
    <3> QED BY <2>1, <3>1
  <2>6. Len(ab \o c) = n + 3
    BY <2>1, <2>2
  <2> QED BY <2>1, <2>4, <2>5, <2>6, Zenon
<1>3. DOMAIN s = 1 .. n + 3 /\ s[1] = a[1] /\ 1 \in 1 .. n + 1 /\ (\A i \in 1 .. n : 1 + i \in 1 .. n + 1 /\ 1 + i = i + 1)
  BY <1>1, <1>2
<1>4. \A i \in 1 .. n : s[i + 1] = b[i]
  BY <1>1, <1>2, <1>3, Zenon
<1> QED
  BY <1>1, <1>2, <1>3, <1>4, Zenon DEF InTurn

LEMMA FollowedMiddle ==
  ASSUME NEW T, NEW n \in Nat, NEW a \in Seq(T), NEW b \in Seq(T), NEW c \in Seq(T),
         Len(a) = 1, Len(b) = n, Len(c) = 2, NEW i \in 1 .. n
  PROVE  InTurn(a, b, c)[i + 1] = b[i]
<1>1. \A j \in 1 .. n : InTurn(a, b, c)[j + 1] = b[j]
  BY SMTT(40), Followed
<1> QED
  BY <1>1, Zenon
=============================================================================
