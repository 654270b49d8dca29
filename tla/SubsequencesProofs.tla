------------------------- MODULE SubsequencesProofs -------------------------
(***************************************************************************)
(* What Keep returns, for every sequence: the elements that are in the     *)
(* set and no other, each once if each was there once.                     *)
(***************************************************************************)
EXTENDS Subsequences, SequencesExt, FiniteSetTheorems, WellFoundedInduction, TLAPS

(* Every set of natural numbers that is not empty has a least member.      *)
LEMMA LeastNumber ==
  ASSUME NEW S \in SUBSET Nat, S # {}
  PROVE  \E m \in S : \A k \in S : m <= k
<1>1. \E x \in S : \A y \in S : ~ (<<y, x>> \in OpToRel(<, Nat))
  BY NatLessThanWellFounded, WFMin
<1>2. PICK x \in S : \A y \in S : ~ (y < x)  BY <1>1 DEF OpToRel
<1>3. \A y \in S : x <= y  BY <1>2
<1> QED  BY <1>3

-----------------------------------------------------------------------------
(* Filtered is defined step by step.  That there is a function with these  *)
(* steps is shown by extending one by one step at a time.                  *)

NextKept(s, S, n, g) == IF s[n] \in S THEN Append(g, s[n]) ELSE g

KeptTo(s, S, m, f) ==
  f = [n \in 0..m |-> IF n = 0 THEN <<>> ELSE NextKept(s, S, n, f[n - 1])]

LEMMA KeptToExists ==
  ASSUME NEW s, NEW S, NEW n \in Nat
  PROVE  \E f : KeptTo(s, S, n, f)
<1> DEFINE Bad == {k \in Nat : ~ \E f : KeptTo(s, S, k, f)}
<1> SUFFICES ASSUME n \in Bad  PROVE FALSE  OBVIOUS
<1>1. PICK m \in Bad : \A k \in Bad : m <= k  BY LeastNumber
<1>2. CASE m = 0
  <2>1. KeptTo(s, S, 0, [k \in 0..0 |-> <<>>])  BY DEF KeptTo
  <2> QED  BY <1>2, <2>1
<1>3. CASE m # 0
  <2>1. m - 1 \in Nat /\ m - 1 < m /\ m - 1 \notin Bad  BY <1>1, <1>3
  <2>2. PICK f : KeptTo(s, S, m - 1, f)  BY <2>1
  <2> DEFINE g == [k \in 0..m |-> IF k = 0 THEN <<>> ELSE NextKept(s, S, k, f[k - 1])]
  <2>3. \A k \in 0..(m - 1) : g[k] = f[k]  BY <2>1, <2>2 DEF KeptTo
  <2>4. \A k \in 0..m : k # 0 => k - 1 \in 0..(m - 1)  BY <1>3
  <2>5. KeptTo(s, S, m, g)
    <3>1. \A k \in 0..m : k # 0 => NextKept(s, S, k, f[k - 1]) = NextKept(s, S, k, g[k - 1])
      <4> HIDE DEF g
      <4> QED  BY <2>3, <2>4
    <3>2. g = [k \in 0..m |-> IF k = 0 THEN <<>> ELSE NextKept(s, S, k, g[k - 1])]  BY <3>1
    <3> HIDE DEF g
    <3> QED  BY <3>2 DEF KeptTo
  <2> QED  BY <1>1, <2>5
<1> QED  BY <1>2, <1>3

LEMMA KeptSteps ==
  ASSUME NEW T, NEW s \in Seq(T), NEW S
  PROVE  /\ Filtered(s, S)[0] = <<>>
         /\ \A n \in 1..Len(s) : Filtered(s, S)[n] = NextKept(s, S, n, Filtered(s, S)[n - 1])
<1>0. Len(s) \in Nat  OBVIOUS
<1>1. PICK f : KeptTo(s, S, Len(s), f)  BY <1>0, KeptToExists, Zenon
<1>2. \E g : g = [n \in 0..Len(s) |->
                    IF n = 0 THEN <<>>
                    ELSE IF s[n] \in S THEN Append(g[n - 1], s[n]) ELSE g[n - 1]]
  <2>1. f = [n \in 0..Len(s) |-> IF n = 0 THEN <<>>
               ELSE IF s[n] \in S THEN Append(f[n - 1], s[n]) ELSE f[n - 1]]
    BY <1>1 DEF KeptTo, NextKept
  <2> QED  BY <2>1
<1> PICK g : g = Filtered(s, S)  OBVIOUS
<1>3. g = CHOOSE h : h = [n \in 0..Len(s) |->
                    IF n = 0 THEN <<>>
                    ELSE IF s[n] \in S THEN Append(h[n - 1], s[n]) ELSE h[n - 1]]
  BY DEF Filtered
<1>4. g = [n \in 0..Len(s) |-> IF n = 0 THEN <<>>
             ELSE IF s[n] \in S THEN Append(g[n - 1], s[n]) ELSE g[n - 1]]
  BY <1>2, <1>3
<1>5. g = [n \in 0..Len(s) |-> IF n = 0 THEN <<>> ELSE NextKept(s, S, n, g[n - 1])]
  BY <1>4 DEF NextKept
<1>6. g[0] = <<>>  BY <1>5
<1>7. \A n \in 1..Len(s) : g[n] = NextKept(s, S, n, g[n - 1])  BY <1>5
<1> QED  BY <1>6, <1>7

-----------------------------------------------------------------------------
(* g is what S keeps of the first n elements of s.                         *)
KeepsOf(T, s, S, n, g) ==
  /\ g \in Seq(T)
  /\ ToSet(g) = {s[i] : i \in 1..n} \cap S
  /\ IsInjective(s) => IsInjective(g)

LEMMA NextKeepsOf ==
  ASSUME NEW T, NEW s \in Seq(T), NEW S, NEW n \in 1..Len(s), NEW g,
         KeepsOf(T, s, S, n - 1, g)
  PROVE  KeepsOf(T, s, S, n, NextKept(s, S, n, g))
<1>1. /\ g \in Seq(T) /\ ToSet(g) = {s[i] : i \in 1..(n - 1)} \cap S
      /\ IsInjective(s) => IsInjective(g)
  BY DEF KeepsOf
<1>2. {s[i] : i \in 1..n} = {s[i] : i \in 1..(n - 1)} \cup {s[n]}
  <2>1. 1..n = 1..(n - 1) \cup {n}  OBVIOUS
  <2> QED  BY <2>1
<1>3. CASE s[n] \notin S
  <2>1. NextKept(s, S, n, g) = g  BY <1>3 DEF NextKept
  <2> QED  BY <1>1, <1>2, <1>3, <2>1 DEF KeepsOf
<1>4. CASE s[n] \in S
  <2> DEFINE a == Append(g, s[n])
  <2>1. NextKept(s, S, n, g) = a  BY <1>4 DEF NextKept
  <2>2. s[n] \in T /\ Len(g) \in Nat  BY <1>1
  <2>3. /\ a \in Seq(T) /\ DOMAIN a = 1..(Len(g) + 1) /\ DOMAIN g = 1..Len(g)
        /\ \A i \in 1..Len(g) : a[i] = g[i]
        /\ a[Len(g) + 1] = s[n]
    BY <1>1, <2>2
  <2> HIDE DEF a
  <2>4. ToSet(a) = ToSet(g) \cup {s[n]}
    <3>1. \A x : x \in ToSet(a) <=> x \in ToSet(g) \/ x = s[n]
      <4>1. \A i \in 1..(Len(g) + 1) : i \in 1..Len(g) \/ i = Len(g) + 1  BY <2>2
      <4>2. Len(g) + 1 \in 1..(Len(g) + 1) /\ 1..Len(g) \subseteq 1..(Len(g) + 1)  BY <2>2
      <4> QED  BY <2>3, <4>1, <4>2 DEF ToSet
    <3> QED  BY <3>1
  <2>5. ToSet(a) = {s[i] : i \in 1..n} \cap S  BY <1>1, <1>2, <1>4, <2>4
  <2>6. ASSUME IsInjective(s)  PROVE IsInjective(a)
    <3>1. IsInjective(g)  BY <1>1, <2>6
    <3>2. s[n] \notin ToSet(g)
      <4>1. \A i \in 1..(n - 1) : i \in DOMAIN s /\ n \in DOMAIN s /\ i # n  OBVIOUS
      <4> QED  BY <1>1, <2>6, <4>1 DEF IsInjective
    <3>3. \A i \in DOMAIN g : a[i] \in ToSet(g)  BY <2>3 DEF ToSet
    <3>4. ASSUME NEW i \in DOMAIN a, NEW j \in DOMAIN a, a[i] = a[j]  PROVE i = j
      <4>1. (i \in 1..Len(g) \/ i = Len(g) + 1) /\ (j \in 1..Len(g) \/ j = Len(g) + 1)
        BY <2>2, <2>3
      <4> QED  BY <2>3, <3>1, <3>2, <3>3, <3>4, <4>1 DEF IsInjective
    <3> QED  BY <3>4 DEF IsInjective
  <2> QED  BY <2>1, <2>3, <2>5, <2>6 DEF KeepsOf
<1> QED  BY <1>3, <1>4

LEMMA KeepCorrect ==
  ASSUME NEW T, NEW s \in Seq(T), NEW S
  PROVE  /\ Keep(s, S) \in Seq(T)
         /\ ToSet(Keep(s, S)) = ToSet(s) \cap S
         /\ IsInjective(s) => IsInjective(Keep(s, S))
<1> PICK k : k = Filtered(s, S)  OBVIOUS
<1>1. k[0] = <<>> /\ \A n \in 1..Len(s) : k[n] = NextKept(s, S, n, k[n - 1])
  BY KeptSteps
<1> DEFINE Bad == {n \in 0..Len(s) : ~KeepsOf(T, s, S, n, k[n])}
<1>2. Bad = {}
  <2> SUFFICES ASSUME Bad # {}  PROVE FALSE  OBVIOUS
  <2>1. PICK m \in Bad : \A n \in Bad : m <= n
    <3>1. Bad \in SUBSET Nat  OBVIOUS
    <3> QED  BY <3>1, LeastNumber
  <2>2. m \in 0..Len(s) /\ ~KeepsOf(T, s, S, m, k[m])  OBVIOUS
  <2>3. CASE m = 0
    <3>1. KeepsOf(T, s, S, 0, <<>>)
      <4>1. <<>> \in Seq(T) /\ ToSet(<<>>) = {} /\ DOMAIN <<>> = {}  BY DEF ToSet
      <4> QED  BY <4>1 DEF KeepsOf, IsInjective
    <3> QED  BY <1>1, <2>2, <2>3, <3>1
  <2>4. CASE m # 0
    <3>1. m \in 1..Len(s) /\ m - 1 \in 0..Len(s) /\ m - 1 < m  BY <2>2, <2>4
    <3>2. m - 1 \notin Bad  BY <2>1, <3>1
    <3>3. KeepsOf(T, s, S, m - 1, k[m - 1])  BY <3>1, <3>2
    <3>4. KeepsOf(T, s, S, m, k[m])
      <4> PICK g : g = k[m - 1]  OBVIOUS
      <4> QED  BY <1>1, <3>1, <3>3, NextKeepsOf
    <3> QED  BY <2>2, <3>4
  <2> QED  BY <2>3, <2>4
<1>3. KeepsOf(T, s, S, Len(s), Keep(s, S))  BY <1>2 DEF Keep
<1>4. {s[i] : i \in 1..Len(s)} = ToSet(s)  BY DEF ToSet
<1> QED  BY <1>3, <1>4 DEF KeepsOf

(* A sequence that holds nothing twice is as long as its set is large.     *)
LEMMA LenOnce ==
  ASSUME NEW T, NEW s \in Seq(T), IsInjective(s)
  PROVE  IsFiniteSet(ToSet(s)) /\ Cardinality(ToSet(s)) = Len(s)
<1>1. Len(s) \in Nat /\ DOMAIN s = 1..Len(s)  OBVIOUS
<1>2. s \in Bijection(1..Len(s), ToSet(s))
  BY <1>1 DEF IsInjective, ToSet, Bijection, Injection, Surjection
<1>3. ExistsBijection(1..Len(s), ToSet(s))  BY <1>2 DEF ExistsBijection
<1> QED  BY <1>1, <1>3, FS_CountingElements, FS_NatBijection

LEMMA ToSetBound ==
  ASSUME NEW T, NEW s \in Seq(T)
  PROVE  IsFiniteSet(ToSet(s)) /\ Cardinality(ToSet(s)) <= Len(s)
<1>1. Len(s) \in Nat /\ DOMAIN s = 1..Len(s)  OBVIOUS
<1>2. s \in Surjection(1..Len(s), ToSet(s))  BY <1>1 DEF ToSet, Surjection
<1>3. IsFiniteSet(1..Len(s)) /\ Cardinality(1..Len(s)) = Len(s)  BY <1>1, FS_Interval
<1> QED  BY <1>2, <1>3, FS_Surjection

LEMMA AppendOnce ==
  ASSUME NEW T, NEW s \in Seq(T), IsInjective(s), NEW e \in T, e \notin ToSet(s)
  PROVE  /\ Append(s, e) \in Seq(T) /\ IsInjective(Append(s, e))
         /\ ToSet(Append(s, e)) = ToSet(s) \cup {e}
         /\ Len(Append(s, e)) = Len(s) + 1
<1>1. DOMAIN Append(s, e) = 1..(Len(s) + 1) /\ DOMAIN s = 1..Len(s) /\ Len(s) \in Nat
  OBVIOUS
<1>2. \A i \in 1..Len(s) : Append(s, e)[i] = s[i] /\ s[i] # e
  BY DEF ToSet
<1>3. Append(s, e)[Len(s) + 1] = e  OBVIOUS
<1>4. IsInjective(Append(s, e))  BY <1>1, <1>2, <1>3 DEF IsInjective
<1>5. ToSet(Append(s, e)) = ToSet(s) \cup {e}  BY <1>1, <1>2, <1>3 DEF ToSet
<1> QED  BY <1>4, <1>5

LEMMA Piece ==
  ASSUME NEW T, NEW s \in Seq(T), NEW a \in Nat \ {0}, NEW b \in 0..Len(s), a <= b + 1
  PROVE  /\ SubSeq(s, a, b) \in Seq(T) /\ Len(SubSeq(s, a, b)) = b - a + 1
         /\ \A i \in 1..(b - a + 1) : SubSeq(s, a, b)[i] = s[a + i - 1]
         /\ ToSet(SubSeq(s, a, b)) \subseteq ToSet(s)
<1> DEFINE t == SubSeq(s, a, b)
<1>1. Len(s) \in Nat /\ DOMAIN s = 1..Len(s) /\ b \in Nat  OBVIOUS
<1>2. Len(t) = b - a + 1 /\ \A i \in 1..(b - a + 1) : t[i] = s[a + i - 1]
  BY <1>1
<1>3. \A i \in 1..(b - a + 1) : a + i - 1 \in 1..Len(s) /\ t[i] \in T  BY <1>1, <1>2
<1>4. t \in Seq(T)  BY <1>1, <1>2, <1>3
<1>5. DOMAIN t = 1..(b - a + 1)  BY <1>2, <1>4
<1>6. ToSet(t) \subseteq ToSet(s)  BY <1>1, <1>2, <1>3, <1>5 DEF ToSet
<1> QED  BY <1>2, <1>4, <1>6

LEMMA JoinedLength ==
  ASSUME NEW T, NEW s \in Seq(T), NEW t \in Seq(T)
  PROVE  Len(s \o t) = Len(s) + Len(t)
OBVIOUS

LEMMA JoinedSet ==
  ASSUME NEW T, NEW s \in Seq(T), NEW t \in Seq(T)
  PROVE  s \o t \in Seq(T) /\ ToSet(s \o t) = ToSet(s) \cup ToSet(t)
<1>1. /\ Len(s) \in Nat /\ Len(t) \in Nat /\ DOMAIN s = 1..Len(s) /\ DOMAIN t = 1..Len(t)
      /\ s \o t \in Seq(T) /\ DOMAIN (s \o t) = 1..(Len(s) + Len(t))
  OBVIOUS
<1>2. \A i \in 1..Len(s) : (s \o t)[i] = s[i] /\ i \in DOMAIN (s \o t)  BY <1>1
<1>3. \A i \in 1..Len(t) : (s \o t)[Len(s) + i] = t[i] /\ Len(s) + i \in DOMAIN (s \o t)
  BY <1>1
<1>4. \A i \in 1..(Len(s) + Len(t)) :
        i \in 1..Len(s) \/ \E j \in 1..Len(t) : i = Len(s) + j
  <2> TAKE i \in 1..(Len(s) + Len(t))
  <2>1. CASE i <= Len(s)  BY <1>1, <2>1
  <2>2. CASE i > Len(s)
    <3>1. i - Len(s) \in 1..Len(t) /\ i = Len(s) + (i - Len(s))  BY <1>1, <2>2
    <3> QED  BY <3>1
  <2> QED  BY <1>1, <2>1, <2>2
<1>5. ToSet(s) \subseteq ToSet(s \o t)  BY <1>1, <1>2 DEF ToSet
<1>6. ToSet(t) \subseteq ToSet(s \o t)  BY <1>1, <1>3 DEF ToSet
<1>7. ToSet(s \o t) \subseteq ToSet(s) \cup ToSet(t)
  <2> SUFFICES ASSUME NEW i \in 1..(Len(s) + Len(t))
               PROVE (s \o t)[i] \in ToSet(s) \cup ToSet(t)
    BY <1>1 DEF ToSet
  <2>1. CASE i \in 1..Len(s)  BY <1>1, <1>2, <2>1 DEF ToSet
  <2>2. CASE \E j \in 1..Len(t) : i = Len(s) + j  BY <1>1, <1>3, <2>2 DEF ToSet
  <2> QED  BY <1>4, <2>1, <2>2
<1> QED  BY <1>1, <1>5, <1>6, <1>7

=============================================================================
