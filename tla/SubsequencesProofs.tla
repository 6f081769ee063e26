------------------------- MODULE SubsequencesProofs -------------------------
(***************************************************************************)
(* What is known of a sequence from which elements have been taken, and    *)
(* perhaps one added at the end: which element came from where, and that   *)
(* the order is the same.                                                  *)
(***************************************************************************)
EXTENDS Subsequences, SequencesExt, FiniteSetTheorems, SequenceTheorems, TLAPS

(* t consists of what s has at the positions in `kept`, in that order, and   *)
(* then of the elements of `new` (there is one or none): f tells for every   *)
(* position in t where the element came from, a new one from after s.        *)
From(f, t, s, kept, new) ==
  /\ f \in [1..Len(t) -> kept \cup {Len(s) + 1}]
  /\ \A k, l \in 1..Len(t) : k < l => f[k] < f[l]
  /\ \A k \in 1..Len(t) :
       \/ f[k] \in kept /\ t[k] = s[f[k]]
       \/ f[k] = Len(s) + 1 /\ t[k] \in new
  /\ \A i \in kept : \E k \in 1..Len(t) : f[k] = i
  /\ \A x \in new : \E k \in 1..Len(t) : f[k] = Len(s) + 1 /\ t[k] = x
Derived(t, s, kept, new) == \E f : From(f, t, s, kept, new)

(* RemoveAt, element by element.                                             *)
LEMMA RemoveAtElements ==
  ASSUME NEW S, NEW s \in Seq(S), NEW i \in 1..Len(s)
  PROVE  /\ RemoveAt(s, i) \in Seq(S)
         /\ Len(RemoveAt(s, i)) = Len(s) - 1
         /\ \A k \in 1..(Len(s) - 1) :
              RemoveAt(s, i)[k] = IF k < i THEN s[k] ELSE s[k + 1]
<1> DEFINE a == SubSeq(s, 1, i - 1)
           b == SubSeq(s, i + 1, Len(s))
<1>1. /\ a \in Seq(S) /\ Len(a) = i - 1
      /\ \A k \in 1..(i - 1) : a[k] = s[k]
  BY SubSeqProperties
<1>2. /\ b \in Seq(S) /\ Len(b) = Len(s) - i
      /\ \A k \in 1..(Len(s) - i) : b[k] = s[k + i]
  BY SubSeqProperties
<1>3. RemoveAt(s, i) = a \o b
  BY DEF RemoveAt
<1> HIDE DEF a, b
<1>4. /\ a \o b \in Seq(S) /\ Len(a \o b) = Len(s) - 1
      /\ \A k \in 1..(Len(s) - 1) :
           (a \o b)[k] = IF k < i THEN a[k] ELSE b[k - (i - 1)]
  <2>1. /\ a \o b \in Seq(S) /\ Len(a \o b) = Len(a) + Len(b)
        /\ \A k \in 1..(Len(a) + Len(b)) :
             (a \o b)[k] = IF k <= Len(a) THEN a[k] ELSE b[k - Len(a)]
    BY <1>1, <1>2, ConcatProperties
  <2>2. Len(a) + Len(b) = Len(s) - 1 /\ Len(a) = i - 1
    BY <1>1, <1>2
  <2> QED  BY <2>1, <2>2
<1> QED  BY <1>1, <1>2, <1>3, <1>4

(* RemoveAt takes one element and keeps the order of the others.             *)
LEMMA RemoveAtDerived ==
  ASSUME NEW S, NEW s \in Seq(S), NEW i \in 1..Len(s)
  PROVE  /\ RemoveAt(s, i) \in Seq(S)
         /\ Derived(RemoveAt(s, i), s, DOMAIN s \ {i}, {})
<1> DEFINE t == RemoveAt(s, i)
<1>0. /\ t \in Seq(S) /\ Len(t) = Len(s) - 1
      /\ \A k \in 1..(Len(s) - 1) : t[k] = IF k < i THEN s[k] ELSE s[k + 1]
  BY RemoveAtElements, Zenon
<1> HIDE DEF t
<1> DEFINE f == [k \in 1..Len(t) |-> IF k < i THEN k ELSE k + 1]
<1>1. /\ t \in Seq(S) /\ Len(t) = Len(s) - 1 /\ DOMAIN s = 1..Len(s)
      /\ \A k \in 1..(Len(s) - 1) : t[k] = IF k < i THEN s[k] ELSE s[k + 1]
  BY <1>0
<1>2. \A j \in DOMAIN s \ {i} : \E k \in 1..Len(t) : f[k] = j
  <2> TAKE j \in DOMAIN s \ {i}
  <2>1. CASE j < i
    BY <1>1, <2>1
  <2>2. CASE j > i
    <3>1. j - 1 \in 1..Len(t) /\ f[j - 1] = j
      BY <1>1, <2>2
    <3> QED  BY <3>1
  <2> QED  BY <1>1, <2>1, <2>2
<1>3. From(f, t, s, DOMAIN s \ {i}, {})
  BY <1>1, <1>2 DEF From
<1> QED  BY <1>1, <1>3 DEF Derived, t

(* Subsequence keeps exactly the chosen elements: an element's rank grows    *)
(* with its position, so ranks are different, and there are as many of them  *)
(* as elements.                                                              *)
LEMMA SubsequenceDerived ==
  ASSUME NEW S, NEW s \in Seq(S), NEW K \in SUBSET DOMAIN s
  PROVE  /\ Subsequence(s, K) \in Seq(S)
         /\ Derived(Subsequence(s, K), s, K, {})
<1> DEFINE Rank(i) == Cardinality({j \in K : j <= i})
           n == Cardinality(K)
           r == [i \in K |-> Rank(i)]
           f == [k \in 1..n |-> CHOOSE i \in K : Rank(i) = k]
           t == Subsequence(s, K)
<1>1. /\ DOMAIN s = 1..Len(s) /\ K \subseteq Int
      /\ IsFiniteSet(K) /\ n \in Nat
  <2>1. DOMAIN s = 1..Len(s) /\ Len(s) \in Nat
    OBVIOUS
  <2>2. IsFiniteSet(1..Len(s))
    BY <2>1, FS_Interval
  <2>3. K \subseteq Int /\ IsFiniteSet(K)
    BY <2>1, <2>2, FS_Subset
  <2> QED  BY <2>1, <2>3, FS_CardinalityType
<1>2. \A i \in K : Rank(i) \in 1..n
  <2> SUFFICES ASSUME NEW i \in K PROVE Rank(i) \in 1..n
    OBVIOUS
  <2> DEFINE B == {j \in K : j <= i}
  <2>1. /\ IsFiniteSet(B) /\ Cardinality(B) <= n
        /\ Cardinality(B) \in Nat /\ B # {}
    BY <1>1, FS_Subset, FS_CardinalityType
  <2>2. Cardinality(B) # 0
    BY <2>1, FS_EmptySet
  <2> QED  BY <1>1, <2>1, <2>2
<1>3. \A i, j \in K : i < j => Rank(i) < Rank(j)
  <2> SUFFICES ASSUME NEW i \in K, NEW j \in K, i < j
               PROVE  Rank(i) < Rank(j)
    OBVIOUS
  <2> DEFINE A == {l \in K : l <= i}
             B == {l \in K : l <= j}
  <2>1. /\ A \in SUBSET B /\ A # B
        /\ IsFiniteSet(B) /\ IsFiniteSet(A)
    <3>1. A \in SUBSET K /\ B \in SUBSET K
      OBVIOUS
    <3>2. IsFiniteSet(A) /\ IsFiniteSet(B)
      BY <1>1, <3>1, FS_Subset
    <3>3. j \in B /\ j \notin A /\ A \in SUBSET B
      BY <1>1
    <3> QED  BY <3>2, <3>3
  <2>2. /\ Cardinality(A) \in Nat /\ Cardinality(B) \in Nat
        /\ Cardinality(A) <= Cardinality(B)
        /\ Cardinality(B) = Cardinality(A) => B = A
    BY <2>1, FS_Subset, FS_CardinalityType
  <2> QED  BY <2>1, <2>2
<1> HIDE DEF Rank, n
<1>4. \A k \in 1..n : \E i \in K : Rank(i) = k
  <2>1. r \in Injection(K, 1..n)
    BY <1>1, <1>2, <1>3 DEF Injection, IsInjective
  <2>2. IsFiniteSet(1..n) /\ Cardinality(1..n) = n
    BY <1>1, FS_Interval
  <2>3. Cardinality(K) = n
    BY DEF n
  <2>4. r \in Surjection(K, 1..n)
    <3>1. Cardinality(K) = Cardinality(1..n)
      BY <2>2, <2>3
    <3> HIDE DEF r
    <3> QED  BY <2>1, <2>2, <3>1, FS_Injection
  <2> QED  BY <2>4 DEF Surjection
<1>5. \A k \in 1..n : f[k] \in K /\ Rank(f[k]) = k
  BY <1>4
<1>6. t = [k \in 1..n |-> s[f[k]]]
  BY DEF Subsequence, Rank, n
<1>7. t \in Seq(S) /\ Len(t) = n /\ \A k \in 1..n : t[k] = s[f[k]]
  BY <1>1, <1>5, <1>6, IsASeq
<1>8. \A k, l \in 1..n : k < l => f[k] < f[l]
  <2> SUFFICES ASSUME NEW k \in 1..n, NEW l \in 1..n, k < l
               PROVE  f[k] < f[l]
    OBVIOUS
  <2>1. /\ f[k] \in K /\ f[l] \in K /\ K \subseteq Int
        /\ Rank(f[k]) = k /\ Rank(f[l]) = l
    BY <1>1, <1>5
  <2> HIDE DEF f
  <2>2. ~(f[l] < f[k])
    BY <1>3, <2>1
  <2>3. f[l] # f[k]
    BY <2>1
  <2> QED  BY <2>1, <2>2, <2>3
<1>9. \A i \in K : \E k \in 1..n : f[k] = i
  BY <1>1, <1>2, <1>3, <1>5
<1>10. f \in [1..n -> K]
  BY <1>5
<1> HIDE DEF f, t
<1>11. From(f, t, s, K, {})
  BY <1>1, <1>5, <1>7, <1>8, <1>9, <1>10 DEF From
<1> QED  BY <1>7, <1>11 DEF Derived, t

(* What is appended to derived elements is new.                              *)
LEMMA AppendDerived ==
  ASSUME NEW S, NEW s \in Seq(S), NEW t \in Seq(S), NEW x \in S,
         NEW K \in SUBSET DOMAIN s, Derived(t, s, K, {})
  PROVE  /\ Append(t, x) \in Seq(S)
         /\ Derived(Append(t, x), s, K, {x})
<1> DEFINE u == Append(t, x)
<1>1. PICK f : From(f, t, s, K, {})
  BY DEF Derived
<1> DEFINE g == [k \in 1..Len(u) |-> IF k <= Len(t) THEN f[k] ELSE Len(s) + 1]
<1>2. /\ u \in Seq(S) /\ Len(u) = Len(t) + 1 /\ u[Len(t) + 1] = x
      /\ \A k \in 1..Len(t) : u[k] = t[k]
      /\ Len(t) \in Nat /\ Len(s) \in Nat
  BY AppendProperties
<1>3. DOMAIN s = 1..Len(s) /\ K \subseteq 1..Len(s)
  OBVIOUS
<1> HIDE DEF u
<1>u. \A k \in 1..Len(u) : k \in 1..Len(t) \/ k = Len(t) + 1
  BY <1>2
<1>4. \A k \in 1..Len(t) : f[k] \in K /\ t[k] = s[f[k]] /\ g[k] = f[k]
  BY <1>1, <1>2 DEF From
<1>5. g[Len(t) + 1] = Len(s) + 1
  BY <1>2
<1>6. g \in [1..Len(u) -> K \cup {Len(s) + 1}]
  BY <1>u, <1>4, <1>5
<1>7. \A k, l \in 1..Len(u) : k < l => g[k] < g[l]
  <2> SUFFICES ASSUME NEW k \in 1..Len(u), NEW l \in 1..Len(u), k < l
               PROVE  g[k] < g[l]
    OBVIOUS
  <2> HIDE DEF g
  <2>0. k \in 1..Len(t)
    BY <1>2
  <2>1. k \in 1..Len(t) /\ g[k] = f[k] /\ f[k] \in K
    BY <2>0, <1>4
  <2>2. CASE l \in 1..Len(t)
    BY <1>1, <1>4, <2>1, <2>2 DEF From
  <2>3. CASE l = Len(t) + 1
    BY <1>2, <1>3, <1>5, <2>1, <2>3
  <2> QED  BY <1>2, <2>2, <2>3
<1>8. \A k \in 1..Len(u) : \/ g[k] \in K /\ u[k] = s[g[k]]
                           \/ g[k] = Len(s) + 1 /\ u[k] \in {x}
  BY <1>u, <1>2, <1>4, <1>5
<1>9. \A i \in K : \E k \in 1..Len(u) : g[k] = i
  BY <1>1, <1>2, <1>4 DEF From
<1>10. \E k \in 1..Len(u) : g[k] = Len(s) + 1 /\ u[k] = x
  BY <1>2, <1>5
<1> HIDE DEF g
<1>11. From(g, u, s, K, {x})
  BY <1>6, <1>7, <1>8, <1>9, <1>10 DEF From
<1> QED  BY <1>2, <1>11 DEF Derived, u

(* A sequence is derived from itself.                                        *)
LEMMA WholeDerived ==
  ASSUME NEW S, NEW s \in Seq(S)
  PROVE  Derived(s, s, DOMAIN s, {})
<1>1. From([k \in 1..Len(s) |-> k], s, s, DOMAIN s, {})
  BY DEF From
<1> QED  BY <1>1 DEF Derived

=============================================================================
