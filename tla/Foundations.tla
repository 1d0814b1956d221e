---------------------------- MODULE Foundations ----------------------------
(***************************************************************************)
(* What the proofs need of numbers, functions and lists.  Induction and    *)
(* recursion over the naturals are stated about sets and functions, so     *)
(* that the proofs about what loops compute can cite them: every set of    *)
(* naturals has a least member, and the rest follows.  The lists of a      *)
(* program are made by joining, filtering and listing (Lists).             *)
(***************************************************************************)
EXTENDS Integers, FiniteSets, Lists, FiniteSetTheorems, SequenceTheorems, WellFoundedInduction, TLAPS

LEMMA LeastMember ==
    ASSUME NEW S \in SUBSET Nat, S # {}
    PROVE  \E n \in S : \A m \in S : n <= m
<1> DEFINE Less == OpToRel(<, Nat)
<1>1. IsWellFoundedOn(Less, Nat)
  BY NatLessThanWellFounded
<1>2. \A i \in Nat, j \in Nat : i < j => <<i, j>> \in Less
  BY DEF OpToRel
<1> HIDE DEF Less
<1>3. PICK n \in S : \A m \in S : ~(<<m, n>> \in Less)
  BY <1>1, WFMin
<1>4. \A m \in S : ~(m < n)
  BY <1>2, <1>3
<1> QED
  BY <1>3, <1>4

LEMMA GreatestElement ==
    ASSUME NEW k \in Nat, NEW S \in SUBSET (1..k), S # {}
    PROVE  \E s \in S : \A t \in S : t <= s
<1> DEFINE Mirror == {n \in Nat : k - n \in S}
<1>1. PICK s0 \in S : TRUE
  OBVIOUS
<1>2. s0 \in 1..k /\ k - s0 \in Nat /\ k - (k - s0) = s0
  OBVIOUS
<1>3. k - s0 \in Mirror
  BY <1>2
<1>4. PICK n \in Mirror : \A m \in Mirror : n <= m
  <2>1. Mirror \in SUBSET Nat /\ Mirror # {}
    BY <1>3
  <2> HIDE DEF Mirror
  <2> QED
    BY <2>1, LeastMember
<1>5. ASSUME NEW t \in S PROVE t <= k - n
  <2>1. t \in 1..k /\ k - t \in Nat /\ k - (k - t) = t
    OBVIOUS
  <2>2. k - t \in Mirror
    BY <2>1
  <2>3. n <= k - t /\ n \in Nat
    BY <1>4, <2>2
  <2> HIDE DEF Mirror
  <2> QED
    BY <2>1, <2>3
<1>6. k - n \in S
  BY <1>4
<1> QED
  BY <1>5, <1>6

LEMMA SetInduction ==
    ASSUME NEW S, 0 \in S, \A n \in Nat : n \in S => n + 1 \in S
    PROVE  \A n \in Nat : n \in S
<1> SUFFICES ASSUME Nat \ S # {} PROVE FALSE
  OBVIOUS
<1>1. PICK n \in Nat \ S : \A m \in Nat \ S : n <= m
  <2> DEFINE Rest == Nat \ S
  <2>1. Rest \in SUBSET Nat /\ Rest # {}
    OBVIOUS
  <2> HIDE DEF Rest
  <2>2. \E n \in Rest : \A m \in Rest : n <= m
    BY <2>1, LeastMember
  <2> QED
    BY <2>2 DEF Rest
<1>2. n - 1 \in Nat /\ ~(n <= n - 1) /\ (n - 1) + 1 = n
  BY <1>1
<1>3. n - 1 \in S
  BY <1>1, <1>2
<1> QED
  BY <1>1, <1>2, <1>3

\* The functions whose values in T start with first, each following from the index
\* and the value before.
Steps(T) == [Nat \X T -> T]
Unrolled(T, first, Follows) ==
    {f \in [Nat -> T] : f[0] = first /\ \A n \in Nat \ {0} : f[n] = Follows[<<n, f[n - 1]>>]}

\* There is one.
LEMMA RecursiveFunction ==
    ASSUME NEW T, NEW first \in T, NEW Follows \in Steps(T)
    PROVE  \E f : f \in Unrolled(T, first, Follows)
<1> USE DEF Steps
<1> DEFINE Upto(n) == {g \in [0..n -> T] :
                          /\ g[0] = first
                          /\ \A i \in 1..n : g[i] = Follows[<<i, g[i - 1]>>]}
<1> DEFINE Good == {n \in Nat : \E g \in Upto(n) : \A k \in Upto(n) : k = g}
<1>1. 0 \in Good
  <2> DEFINE g == [i \in 0..0 |-> first]
  <2>1. g \in Upto(0)
    OBVIOUS
  <2>2. \A h \in Upto(0) : h = g
    OBVIOUS
  <2> HIDE DEF Upto, g
  <2> QED
    BY <2>1, <2>2
<1>2. ASSUME NEW n \in Nat, n \in Good PROVE n + 1 \in Good
  <2>1. PICK g \in Upto(n) : \A k \in Upto(n) : k = g
    BY <1>2
  <2>2. g \in [0..n -> T] /\ g[0] = first /\ \A i \in 1..n : g[i] = Follows[<<i, g[i - 1]>>]
    BY <2>1
  <2> DEFINE h == [i \in 0..(n + 1) |-> IF i = n + 1 THEN Follows[<<n + 1, g[n]>>] ELSE g[i]]
  <2>3. h \in [0..(n + 1) -> T]
    BY <2>2
  <2>4. h[0] = first /\ \A i \in 1..(n + 1) : h[i] = Follows[<<i, h[i - 1]>>]
    <3>1. \A i \in 0..n : h[i] = g[i]
      OBVIOUS
    <3>2. h[n + 1] = Follows[<<n + 1, g[n]>>]
      OBVIOUS
    <3> HIDE DEF h
    <3>3. ASSUME NEW i \in 1..(n + 1) PROVE h[i] = Follows[<<i, h[i - 1]>>]
      <4>1. CASE i = n + 1
        BY <3>1, <3>2, <4>1
      <4>2. CASE i \in 1..n
        BY <2>2, <3>1, <4>2
      <4> QED
        BY <4>1, <4>2
    <3> QED
      BY <2>2, <3>1, <3>3
  <2>5. h \in Upto(n + 1)
    BY <2>3, <2>4
  <2>6. ASSUME NEW k \in Upto(n + 1) PROVE k = h
    <3>1. k \in [0..(n + 1) -> T] /\ k[0] = first
          /\ \A i \in 1..(n + 1) : k[i] = Follows[<<i, k[i - 1]>>]
      BY <2>6
    <3> DEFINE below == [i \in 0..n |-> k[i]]
    <3>2. below \in [0..n -> T]
      BY <3>1
    <3>3. below[0] = first /\ \A i \in 1..n : below[i] = Follows[<<i, below[i - 1]>>]
      BY <3>1
    <3>4. below \in Upto(n)
      BY <3>2, <3>3
    <3>5. below = g
      BY <2>1, <3>4
    <3>6. \A i \in 0..n : k[i] = g[i]
      BY <3>5
    <3>7. k[n + 1] = Follows[<<n + 1, g[n]>>]
      BY <3>1, <3>6
    <3>8. \A i \in 0..(n + 1) : k[i] = h[i]
      BY <3>6, <3>7
    <3>9. DOMAIN k = 0..(n + 1) /\ DOMAIN h = 0..(n + 1)
      BY <3>1
    <3> QED
      BY <3>1, <2>3, <3>8
  <2> HIDE DEF h, Upto
  <2> QED
    BY <2>5, <2>6
<1>3. \A n \in Nat : n \in Good
  <2> HIDE DEF Good
  <2> QED
    BY <1>1, <1>2, SetInduction
<1> DEFINE Of(n) == CHOOSE g \in Upto(n) : TRUE
<1>4. \A n \in Nat : Of(n) \in Upto(n) /\ \A g \in Upto(n) : g = Of(n)
  <2> HIDE DEF Upto
  <2> QED
    BY <1>3
<1> HIDE DEF Of
<1>5. ASSUME NEW n \in Nat
      PROVE  /\ Of(n) \in [0..n -> T] /\ Of(n)[0] = first
             /\ \A i \in 1..n : Of(n)[i] = Follows[<<i, Of(n)[i - 1]>>]
  BY <1>4
<1>6. ASSUME NEW n \in Nat PROVE Of(n + 1)[n] = Of(n)[n]
  <2> DEFINE below == [i \in 0..n |-> Of(n + 1)[i]]
  <2>1. Of(n + 1) \in [0..(n + 1) -> T] /\ Of(n + 1)[0] = first
        /\ \A i \in 1..(n + 1) : Of(n + 1)[i] = Follows[<<i, Of(n + 1)[i - 1]>>]
    BY <1>5
  <2>2. below \in Upto(n)
    <3>1. below \in [0..n -> T]
      BY <2>1
    <3>2. below[0] = first
      BY <2>1
    <3>3. ASSUME NEW i \in 1..n PROVE below[i] = Follows[<<i, below[i - 1]>>]
      <4>1. i \in 1..(n + 1) /\ i \in 0..n /\ i - 1 \in 0..n
        OBVIOUS
      <4>2. below[i] = Of(n + 1)[i] /\ below[i - 1] = Of(n + 1)[i - 1]
        BY <4>1
      <4> HIDE DEF below
      <4> QED
        BY <2>1, <4>1, <4>2
    <3> HIDE DEF below
    <3> QED
      BY <3>1, <3>2, <3>3
  <2>3. below = Of(n)
    BY <1>4, <2>2
  <2> QED
    BY <2>3
<1> DEFINE f == [n \in Nat |-> Of(n)[n]]
<1>7. f \in [Nat -> T]
  BY <1>5
<1>8. ASSUME NEW n \in Nat
      PROVE  f[n] = IF n = 0 THEN first ELSE Follows[<<n, f[n - 1]>>]
  <2>1. CASE n = 0
    BY <1>5, <2>1
  <2>2. CASE n # 0
    <3>1. n - 1 \in Nat /\ (n - 1) + 1 = n /\ n \in 1..n
      BY <2>2
    <3>2. Of(n)[n] = Follows[<<n, Of(n)[n - 1]>>]
      BY <1>5, <3>1
    <3>3. Of(n)[n - 1] = Of(n - 1)[n - 1]
      BY <1>6, <3>1
    <3> QED
      BY <2>2, <3>1, <3>2, <3>3
  <2> QED
    BY <2>1, <2>2
<1> HIDE DEF f
<1> QED
  BY <1>7, <1>8 DEF Unrolled

\* A growing chain of sets that stands still once it has stood still for one step
\* has come to its end when every element has had a step to enter.
LEMMA GrowingChainStops ==
    ASSUME NEW U, IsFiniteSet(U), NEW f \in [Nat -> SUBSET U],
           \A n \in Nat : f[n] \subseteq f[n + 1],
           \A n \in Nat : f[n + 1] = f[n] => f[(n + 1) + 1] = f[n + 1]
    PROVE  f[Cardinality(U) + 1] = f[Cardinality(U)]
<1> DEFINE N == Cardinality(U)
<1>0. N \in Nat
  BY FS_CardinalityType
<1> SUFFICES ASSUME f[N + 1] # f[N] PROVE FALSE
  OBVIOUS
<1> HIDE DEF N
<1>1. ASSUME NEW m \in 0..N PROVE f[m + 1] # f[m]
  <2> SUFFICES ASSUME f[m + 1] = f[m] PROVE FALSE
    OBVIOUS
  <2> DEFINE Still == {k \in Nat : f[(m + k) + 1] = f[m + k]}
  <2>1. 0 \in Still
    OBVIOUS
  <2>2. ASSUME NEW k \in Nat, k \in Still PROVE k + 1 \in Still
    <3>1. m + k \in Nat /\ f[(m + k) + 1] = f[m + k]
      BY <2>2
    <3>2. f[((m + k) + 1) + 1] = f[(m + k) + 1]
      BY <3>1
    <3>3. (m + k) + 1 = m + (k + 1)
      OBVIOUS
    <3> QED
      BY <3>2, <3>3
  <2> HIDE DEF Still
  <2>3. \A k \in Nat : k \in Still
    BY <2>1, <2>2, SetInduction
  <2>4. N - m \in Nat /\ m + (N - m) = N
    BY <1>0
  <2>5. N - m \in Still
    BY <2>3, <2>4
  <2> QED
    BY <2>4, <2>5 DEF Still
<1>2. \A n \in Nat : IsFiniteSet(f[n]) /\ Cardinality(f[n]) \in Nat /\ Cardinality(f[n]) <= N
  BY FS_Subset, FS_CardinalityType DEF N
<1> DEFINE Large == {n \in Nat : n <= N + 1 => n <= Cardinality(f[n])}
<1>3. 0 \in Large
  BY <1>2
<1>4. ASSUME NEW n \in Nat, n \in Large PROVE n + 1 \in Large
  <2> SUFFICES ASSUME n <= N PROVE n + 1 <= Cardinality(f[n + 1])
    BY <1>0
  <2>1. n <= Cardinality(f[n])
    BY <1>0, <1>4
  <2>2. f[n] \in SUBSET f[n + 1] /\ f[n + 1] # f[n]
    BY <1>0, <1>1
  <2>3. IsFiniteSet(f[n + 1]) /\ Cardinality(f[n + 1]) \in Nat /\ Cardinality(f[n]) \in Nat
    BY <1>2
  <2>4. Cardinality(f[n]) <= Cardinality(f[n + 1]) /\ Cardinality(f[n + 1]) # Cardinality(f[n])
    BY <2>2, <2>3, FS_Subset
  <2> QED
    BY <2>1, <2>3, <2>4
<1> HIDE DEF Large
<1>5. N + 1 \in Large
  BY <1>0, <1>3, <1>4, SetInduction
<1> QED
  BY <1>0, <1>2, <1>5 DEF Large

(***************************************************************************)
(* Lists                                                                   *)
(***************************************************************************)

\* A list is a function on 1..Len.
LEMMA ListIsFunction ==
    ASSUME NEW s, IsList(s)
    PROVE  /\ Len(s) \in Nat
           /\ DOMAIN s = 1..Len(s)
           /\ s = [i \in 1..Len(s) |-> s[i]]
BY LenProperties DEF IsList

\* A function on 1..n is a list.
LEMMA FunctionIsList ==
    ASSUME NEW n \in Nat, NEW s, s = [i \in 1..n |-> s[i]]
    PROVE  IsList(s) /\ Len(s) = n /\ DOMAIN s = 1..n
<1>1. DOMAIN s = 1..n
  OBVIOUS
<1>2. s \in [1..n -> ToSet(s)]
  BY <1>1 DEF ToSet
<1>3. s \in Seq(ToSet(s))
  BY <1>2, SeqDef
<1>4. Len(s) \in Nat /\ 1..Len(s) = 1..n
  BY <1>1, <1>3, LenProperties
<1>5. Len(s) = n
  BY <1>4
<1> QED
  BY <1>1, <1>3, <1>5 DEF IsList

\* The lists of no, one and two members.
LEMMA ShortLists ==
    /\ IsList(<<>>) /\ ToSet(<<>>) = {}
    /\ \A a : IsList(<<a>>) /\ ToSet(<<a>>) = {a}
    /\ \A a, b : IsList(<<a, b>>) /\ ToSet(<<a, b>>) = {a, b}
BY DEF IsList, ToSet

\* The members of two lists joined.
LEMMA Concatenated ==
    ASSUME NEW s, NEW t, IsList(s), IsList(t)
    PROVE  IsList(s \o t) /\ ToSet(s \o t) = ToSet(s) \cup ToSet(t)
<1> DEFINE U == ToSet(s) \cup ToSet(t)
           r == s \o t
<1>1. s \in Seq(U) /\ t \in Seq(U)
  BY SeqMonotonic DEF IsList
<1>2. /\ r \in Seq(U) /\ Len(r) = Len(s) + Len(t)
      /\ \A i \in 1..Len(s) + Len(t) : r[i] = IF i <= Len(s) THEN s[i] ELSE t[i - Len(s)]
  BY <1>1, ConcatProperties
<1>3. /\ Len(s) \in Nat /\ DOMAIN s = 1..Len(s)
      /\ Len(t) \in Nat /\ DOMAIN t = 1..Len(t)
  BY ListIsFunction
<1>4. r \in [1..Len(r) -> U] /\ DOMAIN r = 1..Len(s) + Len(t)
  BY <1>2, LenProperties, Zenon
<1> HIDE DEF r, U
<1>5. ToSet(r) \subseteq U
  BY <1>2, <1>4 DEF ToSet
<1>6. ASSUME NEW x \in ToSet(s) PROVE x \in ToSet(r)
  <2>1. PICK i \in 1..Len(s) : x = s[i]
    BY <1>3 DEF ToSet
  <2>2. i \in 1..Len(s) + Len(t) /\ r[i] = x
    BY <1>2, <1>3, <2>1
  <2> QED
    BY <1>4, <2>2 DEF ToSet
<1>7. ASSUME NEW x \in ToSet(t) PROVE x \in ToSet(r)
  <2>1. PICK i \in 1..Len(t) : x = t[i]
    BY <1>3 DEF ToSet
  <2>2. i + Len(s) \in 1..Len(s) + Len(t) /\ ~(i + Len(s) <= Len(s)) /\ (i + Len(s)) - Len(s) = i
    BY <1>3, <2>1
  <2>3. r[i + Len(s)] = x
    BY <1>2, <2>1, <2>2
  <2> QED
    BY <1>4, <2>2, <2>3 DEF ToSet
<1>8. ToSet(r) = U
  BY <1>5, <1>6, <1>7 DEF U
<1> QED
  BY <1>2, <1>8 DEF IsList, r, U

\* The members of a list and one more.
LEMMA OneAppended ==
    ASSUME NEW s, NEW x, IsList(s)
    PROVE  IsList(Append(s, x)) /\ ToSet(Append(s, x)) = ToSet(s) \cup {x}
<1>1. Append(s, x) = s \o <<x>>
  <2>1. s \in Seq(ToSet(s) \cup {x})
    BY SeqMonotonic DEF IsList
  <2> QED
    BY <2>1
<1> QED
  BY <1>1, Concatenated, ShortLists

\* What FlattenSeq computes, as a function of the number of sequences joined.
IsJoin(seqs, n, f) == f = [i \in 1..n |-> IF i = 1 THEN seqs[i] ELSE f[i - 1] \o seqs[i]]

\* Joining lists one by one is defined for any number of them.
LEMMA JoinExists ==
    ASSUME NEW seqs, NEW n \in Nat
    PROVE  \E f : IsJoin(seqs, n, f)
<1> DEFINE Good == {k \in Nat : \E f : IsJoin(seqs, k, f)}
<1>1. 0 \in Good
  <2>1. IsJoin(seqs, 0, [i \in 1..0 |-> {}])
    BY DEF IsJoin
  <2> QED
    BY <2>1
<1>2. ASSUME NEW k \in Nat, k \in Good PROVE k + 1 \in Good
  <2>1. PICK f : IsJoin(seqs, k, f)
    BY <1>2
  <2> DEFINE g == [i \in 1..(k + 1) |->
                     IF i = k + 1 THEN (IF i = 1 THEN seqs[i] ELSE f[k] \o seqs[i]) ELSE f[i]]
  <2>2. ASSUME NEW i \in 1..(k + 1)
        PROVE  g[i] = IF i = 1 THEN seqs[i] ELSE g[i - 1] \o seqs[i]
    <3>1. CASE i = k + 1
      <4>1. i # 1 => g[i - 1] = f[k]
        BY <3>1
      <4> QED
        BY <3>1, <4>1
    <3>2. CASE i # k + 1
      <4>1. i \in 1..k /\ g[i] = f[i] /\ (i # 1 => i - 1 \in 1..k /\ g[i - 1] = f[i - 1])
        BY <3>2
      <4>2. f[i] = IF i = 1 THEN seqs[i] ELSE f[i - 1] \o seqs[i]
        BY <2>1, <4>1, Zenon DEF IsJoin
      <4> QED
        BY <4>1, <4>2
    <3> QED
      BY <3>1, <3>2
  <2>3. DOMAIN g = 1..(k + 1) /\ g = [i \in 1..(k + 1) |-> g[i]]
    OBVIOUS
  <2> HIDE DEF g
  <2>4. IsJoin(seqs, k + 1, g)
    BY <2>2, <2>3, Zenon DEF IsJoin
  <2> QED
    BY <2>4
<1> HIDE DEF Good
<1>3. n \in Good
  BY <1>1, <1>2, SetInduction
<1> QED
  BY <1>3 DEF Good

\* Lists flattened are a list of the members of all of them.
LEMMA Flattened ==
    ASSUME NEW n \in Nat, NEW seqs, seqs = [i \in 1..n |-> seqs[i]],
           \A i \in 1..n : IsList(seqs[i])
    PROVE  /\ IsList(FlattenSeq(seqs))
           /\ ToSet(FlattenSeq(seqs)) = UNION {ToSet(seqs[i]) : i \in 1..n}
<1>1. Len(seqs) = n /\ IsList(seqs)
  BY FunctionIsList
<1>2. CASE n = 0
  <2>1. seqs = <<>>
    BY <1>2
  <2>2. FlattenSeq(seqs) = <<>>
    BY <1>1, <1>2, <2>1 DEF FlattenSeq
  <2> QED
    BY <1>2, <2>2, ShortLists
<1>3. CASE n # 0
  <2> DEFINE J == CHOOSE f : f = [i \in 1..n |-> IF i = 1 THEN seqs[i] ELSE f[i - 1] \o seqs[i]]
  <2>1. IsJoin(seqs, n, J)
    BY JoinExists, Zenon DEF IsJoin
  <2>2. FlattenSeq(seqs) = J[n]
    BY <1>1, <1>3, Zenon DEF FlattenSeq
  <2> HIDE DEF J
  <2> DEFINE Good == {k \in Nat : k + 1 \in 1..n =>
                        /\ IsList(J[k + 1])
                        /\ ToSet(J[k + 1]) = UNION {ToSet(seqs[i]) : i \in 1..(k + 1)}}
  <2>3. \A i \in 1..n : J[i] = IF i = 1 THEN seqs[i] ELSE J[i - 1] \o seqs[i]
    BY <2>1, Zenon DEF IsJoin
  <2>4. 0 \in Good
    <3>1. 1 \in 1..n /\ J[1] = seqs[1]
      BY <1>3, <2>3
    <3>2. UNION {ToSet(seqs[i]) : i \in 1..1} = ToSet(seqs[1])
      OBVIOUS
    <3> QED
      BY <3>1, <3>2
  <2>5. ASSUME NEW k \in Nat, k \in Good PROVE k + 1 \in Good
    <3> SUFFICES ASSUME (k + 1) + 1 \in 1..n
                 PROVE  /\ IsList(J[(k + 1) + 1])
                        /\ ToSet(J[(k + 1) + 1]) = UNION {ToSet(seqs[i]) : i \in 1..((k + 1) + 1)}
      OBVIOUS
    <3>1. k + 1 \in 1..n /\ (k + 1) + 1 # 1 /\ ((k + 1) + 1) - 1 = k + 1
      OBVIOUS
    <3>2. IsList(J[k + 1]) /\ ToSet(J[k + 1]) = UNION {ToSet(seqs[i]) : i \in 1..(k + 1)}
      BY <2>5, <3>1
    <3>3. J[(k + 1) + 1] = J[k + 1] \o seqs[(k + 1) + 1]
      BY <2>3, <3>1, Zenon
    <3> DEFINE u == J[k + 1]
               v == seqs[(k + 1) + 1]
    <3>4. IsList(u \o v) /\ ToSet(u \o v) = ToSet(u) \cup ToSet(v)
      <4>1. IsList(u) /\ IsList(v)
        BY <3>2
      <4> HIDE DEF u, v
      <4> QED
        BY <4>1, Concatenated
    <3>5. 1..((k + 1) + 1) = (1..(k + 1)) \cup {(k + 1) + 1}
      OBVIOUS
    <3>6. UNION {ToSet(seqs[i]) : i \in 1..((k + 1) + 1)}
          = (UNION {ToSet(seqs[i]) : i \in 1..(k + 1)}) \cup ToSet(v)
      BY <3>5
    <3> HIDE DEF v
    <3> QED
      BY <3>2, <3>3, <3>4, <3>6, Zenon DEF v
  <2>6. n - 1 \in Nat /\ (n - 1) + 1 = n /\ n \in 1..n
    BY <1>3
  <2> HIDE DEF Good
  <2>7. n - 1 \in Good
    BY <2>4, <2>5, <2>6, SetInduction
  <2> QED
    BY <2>2, <2>6, <2>7 DEF Good
<1> QED
  BY <1>2, <1>3

\* What is kept of a list is a list of its members in the set.
LEMMA KeptAre ==
    ASSUME NEW s, NEW set, IsList(s)
    PROVE  IsList(Filtered(s, set)) /\ ToSet(Filtered(s, set)) = ToSet(s) \cap set
<1> DEFINE seqs == [i \in DOMAIN s |-> IF s[i] \in set THEN <<s[i]>> ELSE <<>>]
<1>1. Len(s) \in Nat /\ DOMAIN s = 1..Len(s)
  BY ListIsFunction
<1>2. \A i \in 1..Len(s) :
         /\ seqs[i] = IF s[i] \in set THEN <<s[i]>> ELSE <<>>
         /\ IsList(seqs[i])
         /\ ToSet(seqs[i]) = {s[i]} \cap set
  BY <1>1, ShortLists
<1>3. seqs = [i \in 1..Len(s) |-> seqs[i]]
  BY <1>1
<1>4. Filtered(s, set) = FlattenSeq(seqs)
  BY DEF Filtered
<1>5. ToSet(s) = {s[i] : i \in 1..Len(s)}
  BY <1>1 DEF ToSet
<1> HIDE DEF seqs
<1>6. IsList(FlattenSeq(seqs)) /\ ToSet(FlattenSeq(seqs)) = UNION {ToSet(seqs[i]) : i \in 1..Len(s)}
  BY <1>1, <1>2, <1>3, Flattened, Zenon
<1>7. UNION {ToSet(seqs[i]) : i \in 1..Len(s)} = ToSet(s) \cap set
  <2>1. ASSUME NEW x PROVE (\E i \in 1..Len(s) : x \in ToSet(seqs[i])) <=> x \in ToSet(s) \cap set
    BY <1>2, <1>5, Zenon
  <2> QED
    BY <2>1
<1> QED
  BY <1>4, <1>6, <1>7

\* What Listed computes, as a function of the set that is left.
Front1(s) == CHOOSE x \in s : TRUE
IsFold(F, f) == f = [s \in F |-> IF s = {} THEN <<>> ELSE Append(f[s \ {Front1(s)}], Front1(s))]

\* The fold that lists a finite set is defined on all its subsets.
LEMMA FoldExists ==
    ASSUME NEW S, IsFiniteSet(S)
    PROVE  \E f : IsFold(SUBSET S, f)
<1> DEFINE Small(k) == {s \in SUBSET S : Cardinality(s) <= k}
           Good == {k \in Nat : \E f : IsFold(Small(k), f)}
<1>1. \A s \in SUBSET S : IsFiniteSet(s) /\ Cardinality(s) \in Nat /\ Cardinality(s) <= Cardinality(S)
  BY FS_Subset, FS_CardinalityType
<1>2. ASSUME NEW s \in SUBSET S, s # {}
      PROVE  /\ Front1(s) \in s /\ s \ {Front1(s)} \in SUBSET S
             /\ Cardinality(s \ {Front1(s)}) = Cardinality(s) - 1
  <2>1. Front1(s) \in s
    BY <1>2 DEF Front1
  <2> QED
    BY <1>1, <2>1, FS_RemoveElement
<1>3. 0 \in Good
  <2> DEFINE f == [s \in Small(0) |-> <<>>]
  <2>1. \A s \in Small(0) : s = {}
    BY <1>1, FS_EmptySet
  <2>2. f = [s \in Small(0) |-> IF s = {} THEN <<>> ELSE Append(f[s \ {Front1(s)}], Front1(s))]
    BY <2>1
  <2> HIDE DEF f
  <2>3. IsFold(Small(0), f)
    BY <2>2, Zenon DEF IsFold
  <2> QED
    BY <2>3
<1>4. ASSUME NEW k \in Nat, k \in Good PROVE k + 1 \in Good
  <2>1. PICK f : IsFold(Small(k), f)
    BY <1>4
  <2> DEFINE g == [s \in Small(k + 1) |->
                     IF s \in Small(k) THEN f[s] ELSE Append(f[s \ {Front1(s)}], Front1(s))]
  <2>2. ASSUME NEW s \in Small(k + 1)
        PROVE  g[s] = IF s = {} THEN <<>> ELSE Append(g[s \ {Front1(s)}], Front1(s))
    <3>1. s \in SUBSET S /\ Cardinality(s) \in Nat /\ Cardinality(s) <= k + 1
      BY <1>1
    <3>2. CASE s \in Small(k)
      <4>1. g[s] = f[s] /\ f[s] = IF s = {} THEN <<>> ELSE Append(f[s \ {Front1(s)}], Front1(s))
        BY <2>1, <3>2, Zenon DEF IsFold
      <4>2. s # {} => s \ {Front1(s)} \in Small(k) /\ s \ {Front1(s)} \in Small(k + 1)
        BY <1>1, <1>2, <3>1, <3>2
      <4> QED
        BY <4>1, <4>2
    <3>3. CASE s \notin Small(k)
      <4>1. s # {}
        <5>1. Cardinality({}) <= k /\ {} \in SUBSET S
          BY FS_EmptySet
        <5> QED
          BY <3>3, <5>1
      <4>2. s \ {Front1(s)} \in Small(k) /\ s \ {Front1(s)} \in Small(k + 1)
        BY <1>1, <1>2, <3>1, <4>1
      <4> QED
        BY <3>3, <4>1, <4>2
    <3> QED
      BY <3>2, <3>3
  <2>3. g = [s \in Small(k + 1) |-> g[s]]
    OBVIOUS
  <2> HIDE DEF g, Small
  <2>4. IsFold(Small(k + 1), g)
    BY <2>2, <2>3, Zenon DEF IsFold
  <2> QED
    BY <2>4
<1>5. Cardinality(S) \in Nat /\ Small(Cardinality(S)) = SUBSET S
  BY <1>1, FS_CardinalityType
<1> HIDE DEF Good, Small
<1>6. Cardinality(S) \in Good
  BY <1>3, <1>4, <1>5, SetInduction
<1> QED
  BY <1>5, <1>6, Zenon DEF Good

\* A finite set listed is a list of its members.
LEMMA ListedAre ==
    ASSUME NEW S, IsFiniteSet(S)
    PROVE  IsList(Listed(S)) /\ ToSet(Listed(S)) = S
<1> DEFINE J == CHOOSE f : f = [s \in SUBSET S |-> IF s = {} THEN <<>>
                                  ELSE Append(f[s \ {CHOOSE x \in s : TRUE}], CHOOSE x \in s : TRUE)]
<1>1. IsFold(SUBSET S, J)
  BY FoldExists, Zenon DEF IsFold, Front1
<1>2. Listed(S) = J[S]
  BY Zenon DEF Listed, FoldSet, MapThenFoldSet
<1> HIDE DEF J
<1>3. \A s \in SUBSET S : IsFiniteSet(s) /\ Cardinality(s) \in Nat
  BY FS_Subset, FS_CardinalityType
<1> DEFINE Good == {k \in Nat : \A s \in SUBSET S : Cardinality(s) = k => IsList(J[s]) /\ ToSet(J[s]) = s}
<1>4. J[{}] = <<>>
  BY <1>1 DEF IsFold
<1>5. 0 \in Good
  <2>1. \A s \in SUBSET S : Cardinality(s) = 0 => s = {}
    BY <1>3, FS_EmptySet
  <2> QED
    BY <1>4, <2>1, ShortLists, Zenon
<1>6. ASSUME NEW k \in Nat, k \in Good PROVE k + 1 \in Good
  <2> SUFFICES ASSUME NEW s \in SUBSET S, Cardinality(s) = k + 1
               PROVE  IsList(J[s]) /\ ToSet(J[s]) = s
    OBVIOUS
  <2> DEFINE x == Front1(s)
             r == s \ {x}
  <2>1. s # {}
    BY FS_EmptySet
  <2>2. x \in s
    BY <2>1 DEF Front1
  <2>3. r \in SUBSET S /\ Cardinality(r) = k
    BY <1>3, <2>2, FS_RemoveElement, SMTT(30)
  <2>4. IsList(J[r]) /\ ToSet(J[r]) = r
    BY <1>6, <2>3, Zenon
  <2>5. J[s] = Append(J[r], x)
    BY <1>1, <2>1, Zenon DEF IsFold
  <2>6. r \cup {x} = s
    BY <2>2
  <2> HIDE DEF x, r
  <2> QED
    BY <2>4, <2>5, <2>6, OneAppended, ZenonT(60)
<1> HIDE DEF Good
<1>7. Cardinality(S) \in Nat
  BY FS_CardinalityType
<1>8. Cardinality(S) \in Good
  BY <1>5, <1>6, <1>7, SetInduction
<1> QED
  BY <1>2, <1>8 DEF Good

\* A list that is not empty, without its last member.
LEMMA FrontAndLast ==
    ASSUME NEW D, NEW s \in Seq(D), s # <<>>
    PROVE  /\ Front(s) \in Seq(D) /\ Len(Front(s)) = Len(s) - 1
           /\ Last(s) \in D
           /\ ToSet(s) = ToSet(Front(s)) \cup {Last(s)}
           /\ Len(s) \in Nat /\ Len(s) # 0
<1>1. Len(s) \in Nat /\ Len(s) # 0 /\ DOMAIN s = 1..Len(s) /\ \A i \in 1..Len(s) : s[i] \in D
  BY LenProperties, EmptySeq
<1>2. PICK n \in Nat : Len(s) = n + 1
  <2>1. Len(s) - 1 \in Nat /\ (Len(s) - 1) + 1 = Len(s)
    BY <1>1
  <2> QED
    BY <2>1, Zenon
<1> DEFINE f == SubSeq(s, 1, n)
<1>3. f \in Seq(D) /\ Len(f) = n /\ \A i \in 1..n : f[i] = s[i]
  <2>1. \A i \in 1..n : s[i] \in D
    BY <1>1, <1>2
  <2>2. /\ f \in Seq(D)
        /\ Len(f) = IF 1 <= n THEN n - 1 + 1 ELSE 0
        /\ \A i \in 1..n - 1 + 1 : f[i] = s[1 + i - 1]
    BY <2>1, SubSeqProperties
  <2> HIDE DEF f
  <2>3. Len(f) = n
    BY <2>2
  <2>4. n - 1 + 1 = n
    OBVIOUS
  <2>5. ASSUME NEW i \in 1..n PROVE f[i] = s[i]
    <3>1. f[i] = s[1 + i - 1] /\ 1 + i - 1 = i
      BY <2>2, <2>4
    <3> QED
      BY <3>1
  <2> QED
    BY <2>2, <2>3, <2>5
<1>4. DOMAIN f = 1..n
  BY <1>3, LenProperties
<1>5. Front(s) = f /\ Last(s) = s[n + 1]
  <2>1. Len(s) - 1 = n
    BY <1>2
  <2> QED
    BY <1>2, <2>1 DEF Front, Last
<1> HIDE DEF f
<1>6. ToSet(s) = ToSet(f) \cup {s[n + 1]}
  <2>1. 1..n + 1 = (1..n) \cup {n + 1}
    OBVIOUS
  <2>2. ToSet(s) = {s[i] : i \in 1..n} \cup {s[n + 1]}
    BY <1>1, <1>2, <2>1 DEF ToSet
  <2>3. ToSet(f) = {s[i] : i \in 1..n}
    BY <1>3, <1>4 DEF ToSet
  <2> QED
    BY <2>2, <2>3
<1>7. s[n + 1] \in D
  BY <1>1, <1>2
<1>8. Len(f) = Len(s) - 1
  BY <1>2, <1>3
<1> QED
  BY <1>1, <1>3, <1>5, <1>6, <1>7, <1>8, Zenon

\* The values of a function on a finite set.
LEMMA ImageIsFinite ==
    ASSUME NEW f, IsFiniteSet(DOMAIN f)
    PROVE  IsFiniteSet({f[x] : x \in DOMAIN f})
<1> DEFINE T == {f[x] : x \in DOMAIN f}
           g == [x \in DOMAIN f |-> f[x]]
<1>1. g \in Surjection(DOMAIN f, T)
  BY DEF Surjection
<1> HIDE DEF g, T
<1>2. IsFiniteSet(T)
  BY <1>1, FS_Surjection
<1> QED
  BY <1>2 DEF T

\* The members of a list are finitely many.
LEMMA ListIsFinite ==
    ASSUME NEW s, IsList(s)
    PROVE  IsFiniteSet(ToSet(s))
<1>1. Len(s) \in Nat /\ DOMAIN s = 1..Len(s)
  BY ListIsFunction
<1>2. IsFiniteSet(1..Len(s))
  BY <1>1, FS_Interval
<1> QED
  BY <1>1, <1>2, ImageIsFinite DEF ToSet

\* A set that is drawn from the result of a look-up is finite.
LEMMA OneOrNoneIsFinite ==
    ASSUME NEW S, S = {} \/ \E x : S = {x}
    PROVE  IsFiniteSet(S)
BY FS_EmptySet, FS_Singleton, ZenonT(60)

\* Nothing joined to a list is that list, and a member appended is a list of one joined.
LEMMA NothingJoined ==
    ASSUME NEW s, IsList(s)
    PROVE  s \o <<>> = s /\ \A x : Append(s, x) = s \o <<x>>
<1>1. PICK S : s \in Seq(S) /\ S = ToSet(s)
  BY DEF IsList
<1>2. s \o <<>> = s
  BY <1>1
<1>3. ASSUME NEW x PROVE Append(s, x) = s \o <<x>>
  <2>1. PICK U : U = S \cup {x}
    BY Zenon
  <2>2. s \in Seq(U) /\ x \in U
    BY <1>1, <2>1
  <2> QED
    BY <2>2
<1> QED
  BY <1>2, <1>3

\* Lists are flattened by joining one after the other.
JoinedBy(seqs, n, J) ==
    /\ FlattenSeq(seqs) = J[n] /\ J[1] = seqs[1]
    /\ \A i \in 1..n : i # 1 => J[i] = J[i - 1] \o seqs[i]
\* There is such a chain of joins.
LEMMA FlattenIsJoin ==
    ASSUME NEW n \in Nat, n # 0, NEW seqs, IsList(seqs), Len(seqs) = n
    PROVE  \E J : JoinedBy(seqs, n, J)
<1> DEFINE J == CHOOSE f : f = [i \in 1..n |-> IF i = 1 THEN seqs[i] ELSE f[i - 1] \o seqs[i]]
<1>1. IsJoin(seqs, n, J)
  BY JoinExists, Zenon DEF IsJoin
<1>2. FlattenSeq(seqs) = J[n]
  BY Zenon DEF FlattenSeq
<1> HIDE DEF J
<1>3. \A i \in 1..n : J[i] = IF i = 1 THEN seqs[i] ELSE J[i - 1] \o seqs[i]
  BY <1>1, Zenon DEF IsJoin
<1>4. 1 \in 1..n
  OBVIOUS
<1> QED
  BY <1>2, <1>3, <1>4, Zenon DEF JoinedBy

Once(s) == \A i, j \in DOMAIN s : s[i] = s[j] => i = j

\* A list with one more member at its end.
LEMMA OneJoined ==
    ASSUME NEW s, IsList(s), NEW x
    PROVE  /\ Len(s \o <<x>>) = Len(s) + 1 /\ (s \o <<x>>)[Len(s) + 1] = x
           /\ \A i \in 1..Len(s) : (s \o <<x>>)[i] = s[i]
           /\ DOMAIN (s \o <<x>>) = 1..(Len(s) + 1)
           /\ Once(s) /\ x \notin ToSet(s) => Once(s \o <<x>>)
<1>1. PICK V : V = ToSet(s) /\ s \in Seq(V)
  BY DEF IsList
<1>2. PICK U : U = V \cup {x}
  BY Zenon
<1>3. s \in Seq(U) /\ x \in U
  BY <1>1, <1>2
<1>4. Len(s) \in Nat /\ DOMAIN s = 1..Len(s)
  BY ListIsFunction
<1>5. /\ Len(s \o <<x>>) = Len(s) + 1 /\ (s \o <<x>>)[Len(s) + 1] = x
      /\ \A i \in 1..Len(s) : (s \o <<x>>)[i] = s[i]
      /\ DOMAIN (s \o <<x>>) = 1..(Len(s) + 1)
  BY <1>3, <1>4
<1>6. PICK r : r = s \o <<x>>
  BY Zenon
<1>7. ASSUME Once(s), x \notin ToSet(s) PROVE Once(r)
  <2>1. \A i \in 1..Len(s) : s[i] # x
    BY <1>4, <1>7 DEF ToSet
  <2>2. ASSUME NEW i \in DOMAIN r, NEW j \in DOMAIN r, r[i] = r[j] PROVE i = j
    <3>1. (i \in 1..Len(s) \/ i = Len(s) + 1) /\ (j \in 1..Len(s) \/ j = Len(s) + 1)
      BY <1>4, <1>5, <1>6
    <3>2. CASE i \in 1..Len(s) /\ j \in 1..Len(s)
      BY <1>4, <1>5, <1>6, <1>7, <2>2, <3>2 DEF Once
    <3> QED
      BY <1>5, <1>6, <2>1, <2>2, <3>1, <3>2
  <2> QED
    BY <2>2 DEF Once
<1> QED
  BY <1>5, <1>6, <1>7

\* What is kept of a list that has no member twice has none twice.
LEMMA KeptOnce ==
    ASSUME NEW s, IsList(s), Once(s), NEW set
    PROVE  Once(Filtered(s, set))
<1> DEFINE seqs == [i \in DOMAIN s |-> IF s[i] \in set THEN <<s[i]>> ELSE <<>>]
<1>1. PICK n \in Nat : n = Len(s) /\ DOMAIN s = 1..n
  BY ListIsFunction
<1>2. \A i \in 1..n : seqs[i] = IF s[i] \in set THEN <<s[i]>> ELSE <<>>
  BY <1>1
<1>3. Filtered(s, set) = FlattenSeq(seqs)
  BY DEF Filtered
<1>4. IsList(seqs) /\ Len(seqs) = n
  <2>1. seqs = [i \in 1..n |-> seqs[i]]
    BY <1>1
  <2> HIDE DEF seqs
  <2> QED
    BY <2>1, FunctionIsList
<1> HIDE DEF seqs
<1>5. CASE n = 0
  <2>1. seqs = <<>>
    BY <1>4, <1>5, EmptySeq DEF IsList
  <2>2. FlattenSeq(seqs) = <<>>
    BY <1>4, <1>5, <2>1 DEF FlattenSeq
  <2> QED
    BY <1>3, <2>2 DEF Once
<1>6. CASE n # 0
  <2>0. PICK J : JoinedBy(seqs, n, J)
    BY <1>4, <1>6, FlattenIsJoin
  <2>1. /\ FlattenSeq(seqs) = J[n] /\ J[1] = seqs[1]
        /\ \A i \in 1..n : i # 1 => J[i] = J[i - 1] \o seqs[i]
    BY <2>0, Zenon DEF JoinedBy
  <2> DEFINE Good == {k \in Nat : k + 1 \in 1..n =>
                        /\ IsList(J[k + 1]) /\ Once(J[k + 1])
                        /\ ToSet(J[k + 1]) \subseteq {s[i] : i \in 1..(k + 1)}}
  <2>2. 0 \in Good
    <3>0. 1 \in 1..n
      BY <1>6
    <3>1. 1 \in 1..n /\ (seqs[1] = <<>> \/ seqs[1] = <<s[1]>>)
      BY <1>2, <3>0, Zenon
    <3>2. IsList(seqs[1]) /\ Once(seqs[1]) /\ ToSet(seqs[1]) \subseteq {s[1]}
      <4>1. Once(<<>>) /\ Once(<<s[1]>>)
        BY DEF Once
      <4>2. /\ IsList(<<>>) /\ ToSet(<<>>) = {} /\ IsList(<<s[1]>>) /\ ToSet(<<s[1]>>) = {s[1]}
        BY ShortLists
      <4> QED
        BY <3>1, <4>1, <4>2
    <3>3. s[1] \in {s[i] : i \in 1..1}
      OBVIOUS
    <3>4. 0 + 1 = 1
      OBVIOUS
    <3> QED
      BY <2>1, <3>2, <3>3, <3>4
  <2>3. ASSUME NEW k \in Nat, k \in Good PROVE k + 1 \in Good
    <3> SUFFICES ASSUME (k + 1) + 1 \in 1..n
                 PROVE  /\ IsList(J[(k + 1) + 1]) /\ Once(J[(k + 1) + 1])
                        /\ ToSet(J[(k + 1) + 1]) \subseteq {s[i] : i \in 1..((k + 1) + 1)}
      OBVIOUS
    <3>a. PICK b : b = k + 1
      OBVIOUS
    <3>b. PICK j : j = b + 1
      OBVIOUS
    <3>1. b = k + 1 /\ j = b + 1
      BY <3>a, <3>b
    <3>2. b \in 1..n /\ j \in 1..n /\ j # 1 /\ j - 1 = b
      BY <3>1
    <3>3. PICK old, more, x : old = J[b] /\ more = seqs[j] /\ x = s[j]
      OBVIOUS
    <3>4. IsList(old) /\ Once(old) /\ ToSet(old) \subseteq {s[i] : i \in 1..b}
      BY <2>3, <3>1, <3>2, <3>3
    <3>5. J[j] = old \o more
      BY <2>1, <3>2, <3>3, Zenon
    <3>6. more = <<>> \/ more = <<x>>
      BY <1>2, <3>2, <3>3, Zenon
    <3>7. x \notin {s[i] : i \in 1..b}
      <4>1. ASSUME NEW i \in 1..b, s[i] = x PROVE FALSE
        <5>1. i \in DOMAIN s /\ j \in DOMAIN s /\ i # j
          BY <1>1, <3>1, <3>2
        <5> QED
          BY <3>3, <4>1, <5>1 DEF Once
      <4> QED
        BY <4>1
    <3>8. CASE more = <<>>
      <4>1. J[j] = old
        BY <3>4, <3>5, <3>8, NothingJoined
      <4>2. {s[i] : i \in 1..b} \subseteq {s[i] : i \in 1..j}
        BY <3>1, <3>2
      <4> QED
        BY <3>1, <3>4, <4>1, <4>2
    <3>9. CASE more = <<x>>
      <4>1. Once(old \o <<x>>)
        BY <3>4, <3>7, OneJoined
      <4>2. IsList(old \o <<x>>) /\ ToSet(old \o <<x>>) = ToSet(old) \cup {x}
        BY <3>4, ShortLists, Concatenated
      <4>3. {s[i] : i \in 1..b} \subseteq {s[i] : i \in 1..j} /\ x \in {s[i] : i \in 1..j}
        BY <3>1, <3>2, <3>3
      <4> QED
        BY <3>1, <3>4, <3>5, <3>9, <4>1, <4>2, <4>3
    <3> QED
      BY <3>6, <3>8, <3>9
  <2>4. n - 1 \in Nat /\ (n - 1) + 1 = n /\ n \in 1..n
    BY <1>6
  <2> HIDE DEF Good
  <2>5. n - 1 \in Good
    BY <2>2, <2>3, <2>4, SetInduction
  <2> QED
    BY <1>3, <2>1, <2>4, <2>5 DEF Good
<1> QED
  BY <1>5, <1>6

\* All that is kept of a list whose members lie in the set is the list.
LEMMA KeptAll ==
    ASSUME NEW s, IsList(s), NEW set, ToSet(s) \subseteq set
    PROVE  Filtered(s, set) = s
<1> DEFINE seqs == [i \in DOMAIN s |-> IF s[i] \in set THEN <<s[i]>> ELSE <<>>]
<1>1. PICK n \in Nat : n = Len(s) /\ DOMAIN s = 1..n
  BY ListIsFunction
<1>2. \A i \in 1..n : seqs[i] = <<s[i]>>
  BY <1>1 DEF ToSet
<1>3. Filtered(s, set) = FlattenSeq(seqs)
  BY DEF Filtered
<1>4. IsList(seqs) /\ Len(seqs) = n
  <2>1. seqs = [i \in 1..n |-> seqs[i]]
    BY <1>1
  <2> HIDE DEF seqs
  <2> QED
    BY <2>1, FunctionIsList
<1> HIDE DEF seqs
<1>5. CASE n = 0
  <2>1. seqs = <<>> /\ s = <<>>
    BY <1>1, <1>4, <1>5, EmptySeq DEF IsList
  <2>2. FlattenSeq(seqs) = <<>>
    BY <1>4, <1>5, <2>1 DEF FlattenSeq
  <2> QED
    BY <1>3, <2>1, <2>2
<1>6. CASE n # 0
  <2>0. PICK J : JoinedBy(seqs, n, J)
    BY <1>4, <1>6, FlattenIsJoin
  <2>1. /\ FlattenSeq(seqs) = J[n] /\ J[1] = seqs[1]
        /\ \A i \in 1..n : i # 1 => J[i] = J[i - 1] \o seqs[i]
    BY <2>0, Zenon DEF JoinedBy
  <2> DEFINE Good == {k \in Nat : k + 1 \in 1..n =>
                        /\ IsList(J[k + 1]) /\ Len(J[k + 1]) = k + 1
                        /\ \A i \in 1..(k + 1) : J[k + 1][i] = s[i]}
  <2>2. 0 \in Good
    <3>1. 1 \in 1..n /\ seqs[1] = <<s[1]>>
      BY <1>2, <1>6
    <3>2. IsList(<<s[1]>>) /\ Len(<<s[1]>>) = 1 /\ \A i \in 1..1 : <<s[1]>>[i] = s[i]
      BY ShortLists
    <3>3. 0 + 1 = 1
      OBVIOUS
    <3> QED
      BY <2>1, <3>1, <3>2, <3>3
  <2>3. ASSUME NEW k \in Nat, k \in Good PROVE k + 1 \in Good
    <3> SUFFICES ASSUME (k + 1) + 1 \in 1..n
                 PROVE  /\ IsList(J[(k + 1) + 1]) /\ Len(J[(k + 1) + 1]) = (k + 1) + 1
                        /\ \A i \in 1..((k + 1) + 1) : J[(k + 1) + 1][i] = s[i]
      OBVIOUS
    <3>a. PICK b : b = k + 1
      OBVIOUS
    <3>b. PICK j : j = b + 1
      OBVIOUS
    <3>1. b = k + 1 /\ j = b + 1
      BY <3>a, <3>b
    <3>2. b \in 1..n /\ j \in 1..n /\ j # 1 /\ j - 1 = b /\ b \in Nat
      BY <3>1
    <3>c. PICK old, x : old = J[b] /\ x = s[j]
      OBVIOUS
    <3>d. PICK new : new = old \o <<x>>
      BY Zenon
    <3>3. old = J[b] /\ x = s[j] /\ new = old \o <<x>>
      BY <3>c, <3>d
    <3>4. IsList(old) /\ Len(old) = b /\ \A i \in 1..b : old[i] = s[i]
      BY <2>3, <3>1, <3>2, <3>3
    <3>5. J[j] = new
      BY <1>2, <2>1, <3>2, <3>3, Zenon
    <3>6. IsList(new) /\ Len(new) = j /\ new[j] = x /\ \A i \in 1..b : new[i] = old[i]
      <4>1. IsList(old \o <<x>>)
        BY <3>4, ShortLists, Concatenated
      <4>2. /\ Len(old \o <<x>>) = Len(old) + 1 /\ (old \o <<x>>)[Len(old) + 1] = x
            /\ \A i \in 1..Len(old) : (old \o <<x>>)[i] = old[i]
        BY <3>4, OneJoined
      <4> QED
        BY <3>1, <3>3, <3>4, <4>1, <4>2, Zenon
    <3>7. \A i \in 1..j : i \in 1..b \/ i = j
      BY <3>1, <3>2
    <3>8. \A i \in 1..j : new[i] = s[i]
      BY <3>3, <3>4, <3>6, <3>7
    <3> QED
      BY <3>1, <3>5, <3>6, <3>8
  <2>4. n - 1 \in Nat /\ (n - 1) + 1 = n /\ n \in 1..n
    BY <1>6
  <2> HIDE DEF Good
  <2>5. n - 1 \in Good
    BY <2>2, <2>3, <2>4, SetInduction
  <2>6. PICK r : r = Filtered(s, set)
    OBVIOUS
  <2>7. IsList(r) /\ Len(r) = n /\ \A i \in 1..n : r[i] = s[i]
    BY <1>3, <2>1, <2>4, <2>5, <2>6 DEF Good
  <2>8. r = [i \in 1..n |-> r[i]] /\ s = [i \in 1..n |-> s[i]]
    BY <1>1, <2>7, ListIsFunction
  <2>9. r = s
    BY <2>7, <2>8
  <2> QED
    BY <2>6, <2>9
<1> QED
  BY <1>5, <1>6

\* The members of lists put together, one list for each member of a list.
LEMMA FlatOver ==
    ASSUME NEW list, IsList(list), NEW parts, parts = [i \in DOMAIN list |-> parts[i]],
           \A i \in DOMAIN list : IsList(parts[i])
    PROVE  /\ IsList(FlattenSeq(parts))
           /\ \A g : g \in ToSet(FlattenSeq(parts)) <=> \E i \in DOMAIN list : g \in ToSet(parts[i])
<1>1. Len(list) \in Nat /\ DOMAIN list = 1..Len(list)
  BY ListIsFunction
<1>2. PICK n : n = Len(list)
  BY Zenon
<1>3. /\ IsList(FlattenSeq(parts))
      /\ ToSet(FlattenSeq(parts)) = UNION {ToSet(parts[i]) : i \in 1..n}
  BY <1>1, <1>2, Flattened
<1> QED
  BY <1>1, <1>2, <1>3

\* The members of the lists of a finite set, flattened.
FlatMembers(S) ==
    /\ IsList(FlattenSeq(Listed(S)))
    /\ \A g : g \in ToSet(FlattenSeq(Listed(S))) <=> \E l \in S : g \in ToSet(l)
\* They are the members of the lists.
LEMMA FlatListed ==
    ASSUME NEW S, IsFiniteSet(S), \A l \in S : IsList(l)
    PROVE  FlatMembers(S)
<1>1. PICK l : l = Listed(S) /\ IsList(l) /\ ToSet(l) = S
  BY ListedAre
<1>2. l = [i \in DOMAIN l |-> l[i]] /\ \A i \in DOMAIN l : l[i] \in S
  <2>1. Len(l) \in Nat /\ DOMAIN l = 1..Len(l) /\ l = [i \in 1..Len(l) |-> l[i]]
    BY <1>1, ListIsFunction
  <2>2. \A i \in DOMAIN l : l[i] \in S
    BY <1>1 DEF ToSet
  <2> QED
    BY <2>1, <2>2
<1>3. /\ IsList(FlattenSeq(l))
      /\ \A g : g \in ToSet(FlattenSeq(l)) <=> \E i \in DOMAIN l : g \in ToSet(l[i])
  BY <1>1, <1>2, FlatOver
<1>4. S = {l[i] : i \in DOMAIN l}
  BY <1>1 DEF ToSet
<1>5. \A g : g \in ToSet(FlattenSeq(l)) <=> \E x \in S : g \in ToSet(x)
  BY <1>3, <1>4
<1> QED
  BY <1>1, <1>3, <1>5 DEF FlatMembers
=============================================================================
