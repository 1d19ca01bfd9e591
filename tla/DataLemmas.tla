----------------------------- MODULE DataLemmas -----------------------------
(***************************************************************************)
(* What the proofs of several components need of naturals and sequences.   *)
(*                                                                         *)
(* Least and greatest elements of sets of naturals give proofs by a least  *)
(* counterexample; the library's principles of induction take an operator  *)
(* as a parameter, which the provers used here do not accept.              *)
(***************************************************************************)
EXTENDS Integers, Sequences, FiniteSets, FiniteSetTheorems, SequenceTheorems, TLAPS

\* The naturals below a set without least element would be closed under
\* successor, an injection of a finite set into itself that misses 0.
LEMMA LeastNatural ==
  ASSUME NEW T \in SUBSET Nat, T # {}
  PROVE  \E x \in T : \A y \in T : x <= y
<1> SUFFICES ASSUME \A x \in T : \E y \in T : y < x
             PROVE  FALSE
  OBVIOUS
<1> DEFINE U == {x \in Nat : \A y \in T : x < y}
           next == [x \in U |-> x + 1]
<1>1. PICK n \in T : TRUE
  OBVIOUS
<1>2. 0 \in U
  <2>1. 0 \notin T
    OBVIOUS
  <2> QED
    BY <2>1
<1>3. ASSUME NEW x \in U PROVE x + 1 \in U
  <2> SUFFICES ASSUME NEW y \in T PROVE x + 1 < y
    OBVIOUS
  <2>1. PICK z \in T : z < y
    OBVIOUS
  <2>2. x < z
    OBVIOUS
  <2> QED
    BY <2>1, <2>2
<1>4. IsFiniteSet(U)
  <2>1. U \in SUBSET (0..n) /\ 0 \in Int /\ n \in Int
    BY <1>1
  <2> HIDE DEF U
  <2>2. IsFiniteSet(0..n)
    BY <2>1, FS_Interval
  <2> QED
    BY <2>1, <2>2, FS_Subset
<1>5. next \in Injection(U, U)
  <2>1. next \in [U -> U]
    BY <1>3
  <2>2. \A x, y \in U : next[x] = next[y] => x = y
    OBVIOUS
  <2>3. DOMAIN next = U
    OBVIOUS
  <2> HIDE DEF U, next
  <2> QED
    BY <2>1, <2>2, <2>3 DEF Injection, IsInjective
<1> HIDE DEF U, next
<1>6. next \in Surjection(U, U)
  BY <1>4, <1>5, FS_Injection
<1>7. PICK x \in U : next[x] = 0
  BY <1>2, <1>6 DEF Surjection
<1> QED
  BY <1>7 DEF U, next

\* A property of naturals, as a set, that passes to the successor holds of all.
LEMMA InductiveSet ==
  ASSUME NEW T \in SUBSET Nat, 0 \in T, \A n \in T : n + 1 \in T
  PROVE  T = Nat
<1> SUFFICES ASSUME Nat \ T # {} PROVE FALSE
  OBVIOUS
<1>1. PICK x \in Nat \ T : \A y \in Nat \ T : x <= y
  BY LeastNatural
<1>2. x # 0 /\ x - 1 \in Nat /\ x - 1 \notin Nat \ T
  BY <1>1
<1> QED
  BY <1>1, <1>2

\* A bounded set of naturals has a greatest element.
LEMMA GreatestNatural ==
  ASSUME NEW T \in SUBSET Nat, T # {}, NEW n \in Nat, \A x \in T : x <= n
  PROVE  \E x \in T : \A y \in T : y <= x
<1> DEFINE B == {b \in Nat : \A x \in T : x <= b}
<1>1. PICK b \in B : \A c \in B : b <= c
  <2>1. B \in SUBSET Nat /\ B # {}
    OBVIOUS
  <2> HIDE DEF B
  <2> QED
    BY <2>1, LeastNatural
<1>2. b \in T
  <2> SUFFICES ASSUME b \notin T PROVE FALSE
    OBVIOUS
  <2>1. PICK y \in T : TRUE
    OBVIOUS
  <2>2. y <= b /\ y # b /\ y \in Nat /\ b \in Nat
    BY <1>1
  <2>3. b - 1 \in Nat
    BY <2>2
  <2>4. \A x \in T : x <= b - 1
    BY <1>1
  <2>5. b - 1 \in B
    BY <2>3, <2>4
  <2> QED
    BY <1>1, <2>2, <2>5
<1> QED
  BY <1>1, <1>2
-----------------------------------------------------------------------------
(* Sequences.                                                              *)

\* Pushing an element.
LEMMA AppendOne ==
  ASSUME NEW S, NEW s \in Seq(S), NEW x \in S
  PROVE  LET t == Append(s, x)
         IN /\ t \in Seq(S) /\ Len(t) = Len(s) + 1 /\ Len(s) \in Nat
            /\ \A i \in 1..Len(s) : t[i] = s[i]
            /\ t[Len(s) + 1] = x
<1>1. Append(s, x) \in Seq(S) /\ Len(Append(s, x)) = Len(s) + 1
  BY AppendProperties
<1>2. \A i \in 1..Len(s) : Append(s, x)[i] = s[i]
  BY AppendProperties
<1>3. Append(s, x)[Len(s) + 1] = x
  BY AppendProperties
<1> QED
  BY <1>1, <1>2, <1>3, LenProperties

\* A prefix.
LEMMA Prefix ==
  ASSUME NEW S, NEW s \in Seq(S), NEW n \in 0..Len(s)
  PROVE  /\ SubSeq(s, 1, n) \in Seq(S) /\ Len(SubSeq(s, 1, n)) = n
         /\ \A i \in 1..n : SubSeq(s, 1, n)[i] = s[i]
<1>1. SubSeq(s, 1, n) \in Seq(S) /\ Len(SubSeq(s, 1, n)) = n
  BY SubSeqProperties
<1>2. \A i \in 1..n : SubSeq(s, 1, n)[i] = s[i]
  BY SubSeqProperties
<1> QED
  BY <1>1, <1>2

\* Taking the last element away.
LEMMA PopOne ==
  ASSUME NEW S, NEW s \in Seq(S), s # <<>>
  PROVE  LET t == SubSeq(s, 1, Len(s) - 1)
         IN /\ t \in Seq(S) /\ Len(t) = Len(s) - 1
            /\ \A i \in 1..(Len(s) - 1) : t[i] = s[i]
            /\ Len(s) \in Nat \ {0} /\ s[Len(s)] \in S
<1>1. Len(s) \in Nat \ {0} /\ s[Len(s)] \in S
  <2>1. Len(s) \in Nat /\ Len(s) # 0
    BY EmptySeq, LenProperties
  <2> QED
    BY <2>1, ElementOfSeq
<1>2. Len(s) - 1 \in 0..Len(s)
  BY <1>1
<1> QED
  BY <1>1, <1>2, Prefix

\* Replacing the last element.
LEMMA ReplaceTop ==
  ASSUME NEW S, NEW s \in Seq(S), s # <<>>, NEW x \in S
  PROVE  LET t == Append(SubSeq(s, 1, Len(s) - 1), x)
         IN /\ t \in Seq(S) /\ Len(t) = Len(s)
            /\ \A i \in 1..(Len(s) - 1) : t[i] = s[i]
            /\ t[Len(s)] = x /\ Len(s) \in Nat \ {0}
<1> DEFINE r == SubSeq(s, 1, Len(s) - 1)
<1>1. /\ r \in Seq(S) /\ Len(r) = Len(s) - 1 /\ Len(s) \in Nat \ {0}
      /\ \A i \in 1..(Len(s) - 1) : r[i] = s[i]
  BY PopOne
<1>2. /\ Append(r, x) \in Seq(S) /\ Len(Append(r, x)) = Len(r) + 1
      /\ \A i \in 1..Len(r) : Append(r, x)[i] = r[i]
      /\ Append(r, x)[Len(r) + 1] = x
  BY <1>1, AppendOne
<1> QED
  BY <1>1, <1>2
\* A multiple of n plus n is a multiple of n.
LEMMA NextMultiple ==
  ASSUME NEW n \in Nat \ {0}, NEW q \in Nat, q % n = 0
  PROVE  (q + n) % n = 0
<1>1. \A k \in Nat : (k * n) % n = 0
  BY SMTT(20)
<1>2. q = n * (q \div n) + (q % n)
  BY SMTT(20)
<1>3. q \div n \in Nat
  BY SMTT(20)
<1>4. PICK k \in Nat : q = k * n
  <2>1. PICK k \in Nat : k = q \div n
    BY <1>3
  <2>2. q = n * k
    BY <1>2, <2>1
  <2> QED
    BY <2>2
<1>5. q + n = (k + 1) * n /\ k + 1 \in Nat
  BY <1>4
<1> QED
  BY <1>1, <1>5
-----------------------------------------------------------------------------
(* The elements of a finite set of naturals by their place in its order.    *)

UpTo(S, a) == {b \in S : b <= a}
Rank(S, a) == Cardinality(UpTo(S, a))

\* Every place has one element, and greater elements have later places.
LEMMA Ranks ==
  ASSUME NEW S \in SUBSET Nat, IsFiniteSet(S)
  PROVE  /\ Cardinality(S) \in Nat
         /\ \A a \in S : Rank(S, a) \in 1..Cardinality(S)
         /\ \A a, b \in S : a < b => Rank(S, a) < Rank(S, b)
         /\ \A k \in 1..Cardinality(S) : \E a \in S : Rank(S, a) = k
<1> DEFINE rank == [a \in S |-> Rank(S, a)]
<1>1. Cardinality(S) \in Nat
  BY FS_CardinalityType
<1>2. ASSUME NEW a \in S
      PROVE  IsFiniteSet(UpTo(S, a)) /\ Rank(S, a) \in 1..Cardinality(S)
  <2>1. UpTo(S, a) \in SUBSET S /\ a \in UpTo(S, a)
    BY DEF UpTo
  <2>2. IsFiniteSet(UpTo(S, a)) /\ Cardinality(UpTo(S, a)) <= Cardinality(S)
    BY <2>1, FS_Subset
  <2>3. Cardinality(UpTo(S, a)) \in Nat
    BY <2>2, FS_CardinalityType
  <2>4. Cardinality(UpTo(S, a)) # 0
    BY <2>1, <2>2, FS_EmptySet
  <2>5. Rank(S, a) = Cardinality(UpTo(S, a))
    BY DEF Rank
  <2> QED
    BY <1>1, <2>2, <2>3, <2>4, <2>5
<1>3. ASSUME NEW a \in S, NEW b \in S, a < b PROVE Rank(S, a) < Rank(S, b)
  <2>1. UpTo(S, a) \in SUBSET UpTo(S, b) /\ b \in UpTo(S, b) /\ b \notin UpTo(S, a)
    <3>1. a \in Nat /\ b \in Nat /\ b <= b /\ ~(b <= a)
      BY <1>3
    <3>2. \A c \in S : c <= a => c <= b
      BY <1>3
    <3> QED
      BY <3>1, <3>2 DEF UpTo
  <2>2. /\ IsFiniteSet(UpTo(S, b)) /\ Rank(S, a) \in 1..Cardinality(S)
        /\ Rank(S, b) \in 1..Cardinality(S)
    BY <1>2
  <2>3. Rank(S, a) = Cardinality(UpTo(S, a)) /\ Rank(S, b) = Cardinality(UpTo(S, b))
    BY DEF Rank
  <2>4. Rank(S, a) \in Nat /\ Rank(S, b) \in Nat
    BY <1>1, <2>2
  <2>5. /\ Cardinality(UpTo(S, a)) <= Cardinality(UpTo(S, b))
        /\ Cardinality(UpTo(S, a)) = Cardinality(UpTo(S, b)) => UpTo(S, b) = UpTo(S, a)
    BY <2>1, <2>2, FS_Subset
  <2> QED
    BY <2>1, <2>3, <2>4, <2>5
<1>4. rank \in Injection(S, 1..Cardinality(S))
  <2>1. rank \in [S -> 1..Cardinality(S)]
    BY <1>2
  <2>2. ASSUME NEW a \in S, NEW b \in S, rank[a] = rank[b] PROVE a = b
    <3>1. a \in Nat /\ b \in Nat /\ (a < b \/ b < a \/ a = b)
      OBVIOUS
    <3>2. Rank(S, a) = Rank(S, b) /\ Rank(S, a) \in Nat
      BY <1>1, <1>2, <2>2
    <3> QED
      BY <1>3, <3>1, <3>2
  <2>3. DOMAIN rank = S
    OBVIOUS
  <2> HIDE DEF rank
  <2> QED
    BY <2>1, <2>2, <2>3 DEF Injection, IsInjective
<1>5. rank \in Surjection(S, 1..Cardinality(S))
  <2>1. IsFiniteSet(1..Cardinality(S)) /\ Cardinality(1..Cardinality(S)) = Cardinality(S)
    <3>1. 1 \in Int /\ Cardinality(S) \in Int
      BY <1>1
    <3>2. /\ IsFiniteSet(1..Cardinality(S))
          /\ Cardinality(1..Cardinality(S)) = IF 1 > Cardinality(S) THEN 0 ELSE Cardinality(S) - 1 + 1
      BY <3>1, FS_Interval
    <3> QED
      BY <1>1, <3>2
  <2> HIDE DEF rank
  <2> QED
    BY <1>4, <2>1, FS_Injection
<1>6. ASSUME NEW k \in 1..Cardinality(S) PROVE \E a \in S : Rank(S, a) = k
  <2> HIDE DEF rank
  <2>1. PICK a \in S : rank[a] = k
    BY <1>5 DEF Surjection
  <2> QED
    BY <2>1 DEF rank
<1> QED
  BY <1>1, <1>2, <1>3, <1>6
=============================================================================
