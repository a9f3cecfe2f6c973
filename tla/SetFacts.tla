------------------------------ MODULE SetFacts ------------------------------
(***************************************************************************)
(* Facts about sets of naturals and about counting, for the proofs of the  *)
(* other modules.                                                          *)
(***************************************************************************)
EXTENDS Naturals, Sequences, FiniteSets, SequencesExt, FiniteSetTheorems, TLAPS

(* A set of naturals that is not empty has a least element, Min.           *)
THEOREM MinOfNats ==
    ASSUME NEW S, S \subseteq Nat, S # {}
    PROVE  Min(S) \in S /\ \A n \in S : Min(S) <= n
<1> DEFINE R == OpToRel(<, Nat)
<1>1. IsWellFoundedOn(R, Nat)
  BY NatLessThanWellFounded
<1>2. PICK m \in S : \A n \in S : ~(<<n, m>> \in R)
  BY <1>1, WFMin
<1>3. \A n \in S : ~(<<n, m>> \in R) => m <= n
  BY DEF OpToRel
<1>4. m \in S /\ \A n \in S : m <= n
  BY <1>2, <1>3
<1> QED BY <1>4 DEF Min

(* Induction, for a set.                                                   *)
THEOREM NatsIn ==
    ASSUME NEW S, 0 \in S, \A n \in Nat : n \in S => n + 1 \in S
    PROVE  Nat \subseteq S
<1> DEFINE Rest == Nat \ S
           m == Min(Rest)
<1> SUFFICES ASSUME Rest # {} PROVE FALSE
  OBVIOUS
<1>1. m \in Rest /\ \A n \in Rest : m <= n
  BY MinOfNats
<1> HIDE DEF m
<1>2. m # 0 /\ m - 1 \in Nat /\ m - 1 \in S
  BY <1>1
<1>3. m - 1 + 1 \in S
  BY <1>2
<1>4. m - 1 + 1 = m
  BY <1>1
<1> QED BY <1>1, <1>3, <1>4

(* A list of naturals has a greatest one.                                  *)
LEMMA TopOfList ==
    ASSUME NEW n \in Nat, NEW f \in [1 .. n -> Nat], n # 0
    PROVE  \E i \in 1 .. n : \A j \in 1 .. n : f[j] <= f[i]
<1> DEFINE Topped(k) == \A g \in [1 .. k -> Nat] :
               k # 0 => \E i \in 1 .. k : \A j \in 1 .. k : g[j] <= g[i]
           S == {k \in Nat : Topped(k)}
<1>1. 0 \in S
  OBVIOUS
<1>2. ASSUME NEW k \in Nat, k \in S PROVE k + 1 \in S
  <2>a. Topped(k + 1) => k + 1 \in S
    <3> HIDE DEF Topped
    <3> QED OBVIOUS
  <2> SUFFICES ASSUME NEW g \in [1 .. k + 1 -> Nat]
               PROVE  \E i \in 1 .. k + 1 : \A j \in 1 .. k + 1 : g[j] <= g[i]
    BY <2>a
  <2>0. /\ k + 1 \in 1 .. k + 1 /\ \A j \in 1 .. k : j \in 1 .. k + 1
        /\ \A j \in 1 .. k + 1 : g[j] \in Nat /\ (j = k + 1 \/ j \in 1 .. k)
    OBVIOUS
  <2>1. CASE k = 0
    BY <2>0, <2>1
  <2>2. CASE k # 0
    <3>1. PICK h : h = [j \in 1 .. k |-> g[j]]
      OBVIOUS
    <3>2. h \in [1 .. k -> Nat] /\ \A j \in 1 .. k : h[j] = g[j]
      BY <2>0, <3>1
    <3>3. PICK i \in 1 .. k : \A j \in 1 .. k : h[j] <= h[i]
      BY <1>2, <2>2, <3>2
    <3>4. \A j \in 1 .. k : g[j] <= g[i]
      BY <3>2, <3>3
    <3>5. CASE g[k + 1] <= g[i]
      BY <2>0, <3>4, <3>5
    <3>6. CASE ~(g[k + 1] <= g[i])
      <4>1. \A j \in 1 .. k : g[j] <= g[k + 1]
        BY <2>0, <3>4, <3>6
      <4>2. g[k + 1] <= g[k + 1]
        BY <2>0
      <4> QED BY <2>0, <4>1, <4>2
    <3> QED BY <3>5, <3>6
  <2> QED BY <2>1, <2>2
<1> HIDE DEF S
<1>3. n \in S
  BY <1>1, <1>2, NatsIn
<1> QED BY <1>3 DEF S

(* So has a finite set.                                                    *)
LEMMA TopOfNats ==
    ASSUME NEW S, S \subseteq Nat, IsFiniteSet(S), S # {}
    PROVE  \E m \in S : \A n \in S : n <= m
<1>1. PICK n \in Nat : ExistsSurjection(1 .. n, S)
  BY FS_NatSurjection
<1>2. PICK f \in [1 .. n -> S] : \A x \in S : \E i \in 1 .. n : f[i] = x
  BY <1>1 DEF ExistsSurjection, Surjection
<1>3. f \in [1 .. n -> Nat] /\ \A i \in 1 .. n : f[i] \in S
  OBVIOUS
<1>4. n # 0
  <2>1. PICK x \in S, i \in 1 .. n : f[i] = x
    BY <1>2
  <2> QED BY <2>1
<1>5. PICK i \in 1 .. n : \A j \in 1 .. n : f[j] <= f[i]
  BY <1>3, <1>4, TopOfList
<1>6. \A x \in S : x <= f[i]
  BY <1>2, <1>5
<1> QED BY <1>3, <1>6

(* The cardinality of a set that is one element away from another.         *)
LEMMA OneMore ==
    ASSUME NEW S, NEW x, IsFiniteSet(S), x \notin S
    PROVE  /\ IsFiniteSet(S \cup {x})
           /\ Cardinality(S \cup {x}) = Cardinality(S) + 1
           /\ Cardinality(S) \in Nat
BY FS_AddElement, FS_CardinalityType

(* A part of a finite set is finite, and no larger.                        *)
LEMMA Fewer ==
    ASSUME NEW S, NEW T, IsFiniteSet(S), T \subseteq S
    PROVE  /\ IsFiniteSet(T) /\ Cardinality(T) <= Cardinality(S)
           /\ Cardinality(T) \in Nat /\ Cardinality(S) \in Nat
BY FS_Subset, FS_CardinalityType

(* A set that has not more than one element.                               *)
LEMMA OnlyOne ==
    ASSUME NEW S, NEW x \in S, IsFiniteSet(S), ~(Cardinality(S) > 1)
    PROVE  S = {x}
<1> SUFFICES ASSUME NEW y \in S, y # x PROVE FALSE
  OBVIOUS
<1>1. IsFiniteSet({}) /\ Cardinality({}) = 0
  BY FS_EmptySet
<1>2. IsFiniteSet({y}) /\ Cardinality({y}) = 1
  <2>1. /\ IsFiniteSet({} \cup {y})
        /\ Cardinality({} \cup {y}) = Cardinality({}) + 1
    BY <1>1, OneMore
  <2>2. {} \cup {y} = {y}
    OBVIOUS
  <2> QED BY <1>1, <2>1, <2>2
<1>3. Cardinality({y} \cup {x}) = 2
  BY <1>2, OneMore
<1>4. Cardinality({y} \cup {x}) <= Cardinality(S) /\ Cardinality(S) \in Nat
  <2>1. {y} \cup {x} \subseteq S
    OBVIOUS
  <2> QED BY <2>1, Fewer
<1> QED BY <1>3, <1>4

(* The places of a sequence that are in K, when its head is taken.         *)
LEMMA PlacesOfTail ==
    ASSUME NEW n \in Nat, NEW K, K \subseteq 2 .. n
    PROVE  Cardinality({k \in 1 .. n - 1 : k + 1 \in K}) = Cardinality(K)
<1> DEFINE S == {k \in 1 .. n - 1 : k + 1 \in K}
           f == [k \in K |-> k - 1]
<1>1. f \in [K -> S]
  OBVIOUS
<1>2. \A j, k \in K : f[j] = f[k] => j = k
  OBVIOUS
<1>3. \A k \in S : k + 1 \in K /\ f[k + 1] = k
  OBVIOUS
<1>4. f \in Bijection(K, S)
  <2> HIDE DEF f, S
  <2>1. \A k \in S : \E j \in K : f[j] = k
    BY <1>3
  <2> QED BY <1>1, <1>2, <2>1 DEF Bijection, Injection, Surjection, IsInjective
<1>5. IsFiniteSet(K)
  <2>1. 2 \in Int /\ n \in Int /\ K \in SUBSET (2 .. n)
    OBVIOUS
  <2>2. IsFiniteSet(2 .. n)
    BY <2>1, FS_Interval
  <2> QED BY <2>1, <2>2, FS_Subset
<1>6. ExistsBijection(K, S)
  BY <1>4 DEF ExistsBijection
<1> QED BY <1>5, <1>6, FS_Bijection

(* A finite set, in the order of a sequence.                               *)
LEMMA SetInOrder ==
    ASSUME NEW S, IsFiniteSet(S)
    PROVE  /\ SetToSeq(S) \in Seq(S)
           /\ \A x \in S : \E i \in DOMAIN SetToSeq(S) : SetToSeq(S)[i] = x
<1> DEFINE n == Cardinality(S)
           q == SetToSeq(S)
<1>1. n \in Nat /\ ExistsBijection(1 .. n, S)
  BY FS_CardinalityType
<1>2. \E f \in [1 .. n -> S] : IsInjective(f)
  BY <1>1 DEF ExistsBijection, Bijection, Injection
<1>3. q \in [1 .. n -> S] /\ IsInjective(q)
  BY <1>2 DEF SetToSeq
<1> HIDE DEF q
<1>4. q \in Injection(1 .. n, S)
  BY <1>3 DEF Injection
<1>5. IsFiniteSet(1 .. n) /\ Cardinality(1 .. n) = n
  BY <1>1, FS_Interval
<1>6. q \in Surjection(1 .. n, S)
  BY <1>4, <1>5, FS_Injection
<1>7. \A x \in S : \E i \in 1 .. n : q[i] = x
  BY <1>6 DEF Surjection
<1>8. q \in Seq(S) /\ DOMAIN q = 1 .. n
  BY <1>1, <1>3
<1> QED BY <1>7, <1>8 DEF q

----------------------------------------------------------------------------
(* How many elements of a sequence are in a set.                           *)
Places(s, D) == {k \in DOMAIN s : s[k] \in D}
Count(s, D) == Cardinality(Places(s, D))

(* A sequence has so many places in D, and one at least if it holds a      *)
(* member of D.                                                            *)
LEMMA CountType ==
    ASSUME NEW X, NEW s \in Seq(X), NEW D
    PROVE  /\ IsFiniteSet(Places(s, D)) /\ Count(s, D) \in Nat
           /\ \A k \in DOMAIN s : s[k] \in D => Count(s, D) >= 1
           /\ Places(s, D) \subseteq 1 .. Len(s)
<1>1. Len(s) \in Nat /\ DOMAIN s = 1 .. Len(s)
  OBVIOUS
<1>2. Places(s, D) \subseteq 1 .. Len(s)
  BY <1>1 DEF Places
<1>3. IsFiniteSet(1 .. Len(s))
  BY <1>1, FS_Interval
<1>4. IsFiniteSet(Places(s, D))
  BY <1>2, <1>3, FS_Subset
<1>5. Count(s, D) \in Nat
  BY <1>4, FS_CardinalityType DEF Count
<1>6. ASSUME NEW k \in DOMAIN s, s[k] \in D PROVE Count(s, D) >= 1
  <2>1. Places(s, D) # {}
    BY <1>6 DEF Places
  <2>2. Cardinality(Places(s, D)) # 0
    BY <1>4, <2>1, FS_EmptySet
  <2> QED BY <1>5, <2>2 DEF Count
<1> QED BY <1>2, <1>4, <1>5, <1>6

(* The head is counted with the rest.                                      *)
LEMMA CountTail ==
    ASSUME NEW X, NEW s \in Seq(X), NEW D, s # <<>>
    PROVE  Count(s, D) = Count(Tail(s), D) + (IF Head(s) \in D THEN 1 ELSE 0)
<1> DEFINE n == Len(s)
           K == Places(s, D) \ {1}
<1>1. /\ n \in Nat /\ n >= 1 /\ DOMAIN s = 1 .. n /\ Head(s) = s[1]
      /\ Tail(s) \in Seq(X) /\ DOMAIN Tail(s) = 1 .. n - 1
      /\ \A k \in 1 .. n - 1 : Tail(s)[k] = s[k + 1]
  OBVIOUS
<1>2. Places(Tail(s), D) = {k \in 1 .. n - 1 : k + 1 \in K}
  BY <1>1 DEF Places
<1>3. K \subseteq 2 .. n
  BY <1>1 DEF Places
<1>4. Cardinality(K) = Count(Tail(s), D)
  <2> HIDE DEF K
  <2> QED BY <1>1, <1>2, <1>3, PlacesOfTail DEF Count
<1>5. IsFiniteSet(K)
  BY CountType, FS_Subset
<1>6. CASE Head(s) \in D
  <2>1. Places(s, D) = K \cup {1}
    BY <1>1, <1>6 DEF Places
  <2>2. 1 \notin K
    OBVIOUS
  <2> HIDE DEF K
  <2> QED BY <1>4, <1>5, <1>6, <2>1, <2>2, OneMore DEF Count
<1>7. CASE Head(s) \notin D
  <2>1. Places(s, D) = K
    BY <1>1, <1>7 DEF Places
  <2>2. Count(Tail(s), D) \in Nat
    BY <1>1, CountType
  <2> HIDE DEF K
  <2> QED BY <1>4, <1>7, <2>1, <2>2 DEF Count
<1> QED BY <1>6, <1>7

(* What is appended counts if it is in D.                                  *)
LEMMA CountAppend ==
    ASSUME NEW X, NEW s \in Seq(X), NEW D, NEW m \in X
    PROVE  Count(Append(s, m), D) = Count(s, D) + (IF m \in D THEN 1 ELSE 0)
<1> DEFINE n == Len(s)
           r == Append(s, m)
<1>1. /\ n \in Nat /\ DOMAIN s = 1 .. n /\ DOMAIN r = 1 .. n + 1
      /\ \A k \in 1 .. n : r[k] = s[k]
      /\ r[n + 1] = m
  OBVIOUS
<1>2. IsFiniteSet(Places(s, D)) /\ Count(s, D) \in Nat
  BY CountType
<1> HIDE DEF r
<1>3. CASE m \in D
  <2>1. Places(r, D) = Places(s, D) \cup {n + 1} /\ n + 1 \notin Places(s, D)
    BY <1>1, <1>3 DEF Places
  <2> QED BY <1>2, <1>3, <2>1, OneMore DEF Count, r
<1>4. CASE m \notin D
  <2>1. Places(r, D) = Places(s, D)
    BY <1>1, <1>4 DEF Places
  <2> QED BY <1>2, <1>4, <2>1 DEF Count, r
<1> QED BY <1>3, <1>4

(* The empty sequence holds nothing.                                       *)
LEMMA CountNone ==
    ASSUME NEW D
    PROVE  Count(<<>>, D) = 0
<1>1. Places(<<>>, D) = {}
  BY DEF Places
<1> QED BY <1>1, FS_EmptySet DEF Count
=============================================================================
