---------------------------- MODULE ListsProofs -----------------------------
(***************************************************************************)
(* Induction over the natural numbers in a form without operator           *)
(* parameters, and what Filter returns, by that induction.                 *)
(***************************************************************************)
EXTENDS Lists, SequenceTheorems, WellFoundedInduction, TLAPS

-----------------------------------------------------------------------------
(* Induction                                                               *)

(* A set of natural numbers that is not empty has a least element. *)
LEMMA LeastNat ==
    ASSUME NEW R \in SUBSET Nat, R # {}
    PROVE  \E x \in R : \A y \in R : x <= y
<1> DEFINE Less == {ss \in Nat \X Nat : ss[1] < ss[2]}
<1>1. OpToRel(<, Nat) = Less
  BY DEF OpToRel
<1>2. IsWellFoundedOn(Less, Nat)
  BY <1>1, NatLessThanWellFounded
<1> HIDE DEF Less
<1>3. PICK x \in R : \A y \in R : ~(<<y, x>> \in Less)
  BY <1>2, WFMin
<1>4. ASSUME NEW y \in R PROVE x <= y
  <2>1. x \in Nat /\ y \in Nat /\ <<y, x>> \in Nat \X Nat
    OBVIOUS
  <2>2. ~(y < x)
    BY <1>3, <2>1 DEF Less
  <2> QED BY <2>1, <2>2
<1> QED BY <1>4

(* A set that has 0, and n + 1 whenever it has n < m, has 0 to m. *)
LEMMA UpTo ==
    ASSUME NEW m \in Nat, NEW P, 0 \in P,
           \A n \in Nat : n < m /\ n \in P => n + 1 \in P
    PROVE  0 .. m \subseteq P
<1> DEFINE R == {n \in 0 .. m : n \notin P}
<1> SUFFICES ASSUME R # {} PROVE FALSE
  OBVIOUS
<1>1. R \in SUBSET Nat
  OBVIOUS
<1> HIDE DEF R
<1>2. PICK x \in R : \A y \in R : x <= y
  BY <1>1, LeastNat
<1>3. x \in Nat /\ x <= m /\ x \notin P /\ x # 0
  BY <1>2 DEF R
<1>4. x - 1 \in Nat /\ x - 1 < m /\ x - 1 \in 0 .. m /\ ~(x <= x - 1)
  BY <1>3
<1>5. x - 1 \notin R
  BY <1>2, <1>4
<1>6. x - 1 \in P
  BY <1>4, <1>5 DEF R
<1>7. (x - 1) + 1 \in P
  BY <1>4, <1>6
<1>8. (x - 1) + 1 = x
  BY <1>3
<1> QED BY <1>3, <1>7, <1>8

(* A function on D can be applied any number of times, one after the other. *)
LEMMA Iterates ==
    ASSUME NEW m \in Nat, NEW D, NEW x \in D, NEW F \in [D -> D]
    PROVE  \E K \in [0 .. m -> D] : K[0] = x /\ \A n \in 1 .. m : K[n] = F[K[n - 1]]
<1> DEFINE Run(K, k) == K[0] = x /\ \A n \in 1 .. k : K[n] = F[K[n - 1]]
           P == {k \in 0 .. m : \E K \in [0 .. k -> D] : Run(K, k)}
<1>1. 0 \in P
  <2> DEFINE K0 == [n \in 0 .. 0 |-> x]
  <2>1. K0 \in [0 .. 0 -> D] /\ Run(K0, 0)
    OBVIOUS
  <2> HIDE DEF K0, Run
  <2>2. \E K \in [0 .. 0 -> D] : Run(K, 0)
    BY <2>1
  <2> QED BY <2>2
<1>2. ASSUME NEW k \in Nat, k < m, k \in P PROVE k + 1 \in P
  <2>1. PICK K \in [0 .. k -> D] : Run(K, k)
    BY <1>2
  <2> DEFINE L == [n \in 0 .. k + 1 |-> IF n = k + 1 THEN F[K[k]] ELSE K[n]]
  <2>2. F[K[k]] \in D
    BY <2>1
  <2>3. L \in [0 .. k + 1 -> D] /\ \A n \in 0 .. k + 1 : L[n] = IF n = k + 1 THEN F[K[k]] ELSE K[n]
    BY <2>1, <2>2
  <2> HIDE DEF L
  <2>4. L[0] = x
    BY <2>1, <2>3
  <2>5. ASSUME NEW n \in 1 .. k + 1 PROVE L[n] = F[L[n - 1]]
    <3>1. n - 1 \in 0 .. k /\ L[n - 1] = K[n - 1]
      BY <2>3
    <3>2. CASE n = k + 1
      BY <2>3, <3>1, <3>2
    <3>3. CASE n # k + 1
      <4>1. n \in 1 .. k /\ L[n] = K[n]
        BY <2>3, <3>3
      <4> QED BY <2>1, <3>1, <4>1
    <3> QED BY <3>2, <3>3
  <2>6. Run(L, k + 1)
    BY <2>4, <2>5
  <2> QED BY <1>2, <2>3, <2>6
<1> HIDE DEF P
<1>3. 0 .. m \subseteq P
  BY <1>1, <1>2, UpTo
<1>4. m \in P
  BY <1>3
<1> QED BY <1>4 DEF P

-----------------------------------------------------------------------------
(* Elements of lists                                                       *)

(* Appending to a list keeps its elements and adds the one at the end. *)
LEMMA AppendKeeps ==
    ASSUME NEW S, NEW s \in Seq(S), NEW e \in S
    PROVE  /\ Append(s, e) \in Seq(S)
           /\ Len(s) \in Nat
           /\ DOMAIN s = 1 .. Len(s)
           /\ DOMAIN Append(s, e) = DOMAIN s \cup {Len(s) + 1}
           /\ Len(s) + 1 \notin DOMAIN s
           /\ \A k \in DOMAIN s : Append(s, e)[k] = s[k]
           /\ Append(s, e)[Len(s) + 1] = e
<1>1. Len(s) \in Nat /\ DOMAIN s = 1 .. Len(s)
  BY LenProperties
<1>2. /\ Append(s, e) \in Seq(S)
      /\ Len(Append(s, e)) = Len(s) + 1
      /\ \A k \in 1 .. Len(s) : Append(s, e)[k] = s[k]
      /\ Append(s, e)[Len(s) + 1] = e
  BY AppendProperties
<1>3. DOMAIN Append(s, e) = 1 .. (Len(s) + 1)
  BY <1>2, LenProperties
<1>4. 1 .. (Len(s) + 1) = (1 .. Len(s)) \cup {Len(s) + 1}
  BY <1>1
<1> QED BY <1>1, <1>2, <1>3, <1>4

(* c holds what s and t hold, and nothing else. *)
Joins(c, s, t, S) ==
    /\ c \in Seq(S)
    /\ \A k \in DOMAIN s : \E j \in DOMAIN c : c[j] = s[k]
    /\ \A k \in DOMAIN t : \E j \in DOMAIN c : c[j] = t[k]
    /\ \A j \in DOMAIN c : \/ \E k \in DOMAIN s : c[j] = s[k]
                           \/ \E k \in DOMAIN t : c[j] = t[k]

(* What is in either part of a concatenation is in the whole, and nothing else is. *)
LEMMA ConcatElements ==
    ASSUME NEW S, NEW s \in Seq(S), NEW t \in Seq(S)
    PROVE  Joins(s \o t, s, t, S)
<1> DEFINE c == s \o t
<1>1. /\ c \in Seq(S)
      /\ Len(c) = Len(s) + Len(t)
      /\ \A i \in 1 .. Len(s) + Len(t) : c[i] = IF i <= Len(s) THEN s[i] ELSE t[i - Len(s)]
  BY ConcatProperties
<1> HIDE DEF c
<1>2. /\ DOMAIN s = 1 .. Len(s) /\ Len(s) \in Nat
      /\ DOMAIN t = 1 .. Len(t) /\ Len(t) \in Nat
      /\ DOMAIN c = 1 .. Len(s) + Len(t)
  BY <1>1, LenProperties
<1>3. ASSUME NEW k \in DOMAIN s PROVE \E j \in DOMAIN c : c[j] = s[k]
  <2>1. k \in DOMAIN c /\ c[k] = s[k]
    BY <1>1, <1>2
  <2> QED BY <2>1
<1>4. ASSUME NEW k \in DOMAIN t PROVE \E j \in DOMAIN c : c[j] = t[k]
  <2>1. k + Len(s) \in 1 .. Len(s) + Len(t) /\ ~(k + Len(s) <= Len(s)) /\ (k + Len(s)) - Len(s) = k
    BY <1>2
  <2>2. c[k + Len(s)] = t[k]
    BY <1>1, <2>1
  <2> QED BY <1>2, <2>1, <2>2
<1>5. ASSUME NEW j \in DOMAIN c
      PROVE  \/ \E k \in DOMAIN s : c[j] = s[k]
             \/ \E k \in DOMAIN t : c[j] = t[k]
  <2>1. CASE j <= Len(s)
    <3>1. j \in DOMAIN s /\ c[j] = s[j]
      BY <1>1, <1>2, <2>1
    <3> QED BY <3>1
  <2>2. CASE ~(j <= Len(s))
    <3>1. j - Len(s) \in DOMAIN t /\ c[j] = t[j - Len(s)]
      <4>1. j \in 1 .. Len(s) + Len(t) /\ j - Len(s) \in 1 .. Len(t)
        BY <1>2, <2>2
      <4> QED BY <1>1, <1>2, <2>2, <4>1
    <3> QED BY <3>1
  <2> QED BY <2>1, <2>2
<1>6. Joins(c, s, t, S)
  BY <1>1, <1>3, <1>4, <1>5 DEF Joins
<1> QED BY <1>6 DEF c

(* The head and the tail of a list hold what the list holds. *)
LEMMA HeadTailElements ==
    ASSUME NEW S, NEW s \in Seq(S), s # << >>
    PROVE  /\ Head(s) \in S
           /\ Tail(s) \in Seq(S)
           /\ Len(s) \in Nat \ {0}
           /\ DOMAIN s = 1 .. Len(s)
           /\ Head(s) = s[1]
           /\ Len(Tail(s)) = Len(s) - 1
           /\ \A k \in DOMAIN s : s[k] = Head(s) \/ \E j \in DOMAIN Tail(s) : Tail(s)[j] = s[k]
           /\ \A j \in DOMAIN Tail(s) : \E k \in DOMAIN s : s[k] = Tail(s)[j]
<1>1. Len(s) \in Nat \ {0} /\ DOMAIN s = 1 .. Len(s)
  BY EmptySeq, LenProperties
<1>2. /\ Head(s) \in S
      /\ Tail(s) \in Seq(S)
      /\ Head(s) = s[1]
      /\ Len(Tail(s)) = Len(s) - 1
      /\ \A j \in 1 .. Len(Tail(s)) : Tail(s)[j] = s[j + 1]
  BY <1>1, HeadTailProperties
<1>3. DOMAIN Tail(s) = 1 .. Len(Tail(s))
  BY <1>2, LenProperties
<1>4. \A k \in DOMAIN s : k = 1 \/ (k - 1 \in DOMAIN Tail(s) /\ s[k] = Tail(s)[k - 1])
  BY <1>1, <1>2, <1>3
<1>5. \A j \in DOMAIN Tail(s) : j + 1 \in DOMAIN s /\ Tail(s)[j] = s[j + 1]
  BY <1>1, <1>2, <1>3
<1> QED BY <1>1, <1>2, <1>4, <1>5

-----------------------------------------------------------------------------
(* Filter                                                                  *)

(* K[i] is what a pass over s that looks for T has kept after i elements. *)
Keeps(K, s, T, S, m) ==
    /\ K \in [0 .. m -> Seq(S)]
    /\ K[0] = << >>
    /\ \A i \in 1 .. m : K[i] = IF s[i] \in T THEN Append(K[i - 1], s[i]) ELSE K[i - 1]

(* Such a K exists for every length. *)
LEMMA KeepsExists ==
    ASSUME NEW S, NEW s \in Seq(S), NEW T
    PROVE  \E K : Keeps(K, s, T, S, Len(s))
<1> DEFINE P == {m \in 0 .. Len(s) : \E K : Keeps(K, s, T, S, m)}
<1>1. Len(s) \in Nat /\ \A i \in 1 .. Len(s) : s[i] \in S
  BY LenProperties, ElementOfSeq
<1>2. 0 \in P
  <2>1. [i \in 0 .. 0 |-> << >>] \in [0 .. 0 -> Seq(S)]
    BY EmptySeq
  <2>2. Keeps([i \in 0 .. 0 |-> << >>], s, T, S, 0)
    BY <2>1 DEF Keeps
  <2> QED BY <1>1, <2>2
<1>3. ASSUME NEW n \in Nat, n < Len(s), n \in P
      PROVE  n + 1 \in P
  <2>1. PICK K : Keeps(K, s, T, S, n)
    BY <1>3
  <2> DEFINE new == IF s[n + 1] \in T THEN Append(K[n], s[n + 1]) ELSE K[n]
             L == [i \in 0 .. n + 1 |-> IF i = n + 1 THEN new ELSE K[i]]
  <2>2. K \in [0 .. n -> Seq(S)] /\ K[n] \in Seq(S) /\ s[n + 1] \in S
    BY <1>1, <1>3, <2>1, SMTT(30), ZenonT(30) DEF Keeps
  <2>3. new \in Seq(S)
    BY <2>2, AppendProperties
  <2> HIDE DEF new
  <2>4. \A i \in 0 .. n + 1 : L[i] = IF i = n + 1 THEN new ELSE K[i]
    OBVIOUS
  <2>5. L \in [0 .. n + 1 -> Seq(S)]
    BY <2>2, <2>3
  <2> HIDE DEF L
  <2>6. L[0] = << >>
    BY <2>1, <2>4 DEF Keeps
  <2>7. ASSUME NEW i \in 1 .. n + 1
        PROVE  L[i] = IF s[i] \in T THEN Append(L[i - 1], s[i]) ELSE L[i - 1]
    <3>1. i - 1 \in 0 .. n /\ L[i - 1] = K[i - 1]
      BY <2>4
    <3>2. CASE i = n + 1
      BY <2>4, <3>1, <3>2 DEF new
    <3>3. CASE i # n + 1
      <4>1. i \in 1 .. n /\ L[i] = K[i]
        BY <2>4, <3>3
      <4> QED BY <2>1, <3>1, <4>1 DEF Keeps
    <3> QED BY <3>2, <3>3
  <2>8. Keeps(L, s, T, S, n + 1)
    BY <2>5, <2>6, <2>7 DEF Keeps
  <2> QED BY <1>1, <1>3, <2>8
<1> HIDE DEF P
<1>4. 0 .. Len(s) \subseteq P
  BY <1>1, <1>2, <1>3, UpTo
<1>5. Len(s) \in P
  BY <1>1, <1>4
<1> QED BY <1>5 DEF P

(* Filter returns the last of them. *)
LEMMA FilterKeeps ==
    ASSUME NEW S, NEW s \in Seq(S), NEW T
    PROVE  \E K : Keeps(K, s, T, S, Len(s)) /\ Filter(s, T) = K[Len(s)]
<1> DEFINE n == Len(s)
           Body(F) == [i \in 0 .. n |->
                         IF i = 0 THEN << >>
                         ELSE IF s[i] \in T THEN Append(F[i - 1], s[i]) ELSE F[i - 1]]
           K == CHOOSE F : F = Body(F)
<1>1. n \in Nat
  BY LenProperties
<1>2. Filter(s, T) = K[n]
  BY DEF Filter
<1> HIDE DEF n
<1>3. PICK G : Keeps(G, s, T, S, n)
  BY KeepsExists DEF n
<1>4. G = Body(G)
  <2>1. G \in [0 .. n -> Seq(S)]
    BY <1>3 DEF Keeps
  <2>2. ASSUME NEW i \in 0 .. n PROVE G[i] = Body(G)[i]
    <3>1. CASE i = 0
      BY <1>3, <3>1 DEF Keeps
    <3>2. CASE i # 0
      <4>1. i \in 1 .. n
        BY <1>1, <3>2
      <4> QED BY <1>3, <3>2, <4>1 DEF Keeps
    <3> QED BY <3>1, <3>2
  <2> QED BY <2>1, <2>2
<1>5. K = Body(K)
  BY <1>4
<1> HIDE DEF K
<1>6. /\ K[0] = << >>
      /\ \A i \in 1 .. n : K[i] = IF s[i] \in T THEN Append(K[i - 1], s[i]) ELSE K[i - 1]
  <2>1. \A i \in 0 .. n : K[i] = Body(K)[i]
    BY <1>5
  <2>2. \A i \in 0 .. n : Body(K)[i] = IF i = 0 THEN << >>
                            ELSE IF s[i] \in T THEN Append(K[i - 1], s[i]) ELSE K[i - 1]
    OBVIOUS
  <2> HIDE DEF Body
  <2> QED BY <1>1, <2>1, <2>2
<1> DEFINE P == {i \in 0 .. n : K[i] = G[i]}
<1>7. 0 .. n \subseteq P
  <2>1. 0 \in P
    BY <1>1, <1>3, <1>6 DEF Keeps
  <2>2. ASSUME NEW i \in Nat, i < n, i \in P PROVE i + 1 \in P
    <3>1. i + 1 \in 1 .. n /\ (i + 1) - 1 = i
      BY <1>1, <2>2
    <3>2. K[i] = G[i]
      BY <2>2
    <3>3. K[i + 1] = IF s[i + 1] \in T THEN Append(K[i], s[i + 1]) ELSE K[i]
      BY <1>6, <3>1
    <3>4. G[i + 1] = IF s[i + 1] \in T THEN Append(G[i], s[i + 1]) ELSE G[i]
      BY <1>3, <3>1 DEF Keeps
    <3> QED BY <1>1, <3>1, <3>2, <3>3, <3>4
  <2> HIDE DEF P
  <2> QED BY <1>1, <2>1, <2>2, UpTo
<1>8. K[n] = G[n]
  BY <1>1, <1>7
<1> QED BY <1>2, <1>3, <1>8 DEF n

(* What Filter returns: the elements of s that are in T, and no more than s has. *)
LEMMA FilterFacts ==
    ASSUME NEW S, NEW s \in Seq(S), NEW T
    PROVE  /\ Filter(s, T) \in Seq(S)
           /\ Len(Filter(s, T)) <= Len(s)
           /\ \A k \in DOMAIN Filter(s, T) :
                 Filter(s, T)[k] \in T /\ \E i \in DOMAIN s : s[i] = Filter(s, T)[k]
           /\ \A i \in DOMAIN s :
                 s[i] \in T => \E k \in DOMAIN Filter(s, T) : Filter(s, T)[k] = s[i]
<1>1. PICK K : Keeps(K, s, T, S, Len(s)) /\ Filter(s, T) = K[Len(s)]
  BY FilterKeeps
<1> DEFINE n == Len(s)
<1>2. /\ n \in Nat
      /\ DOMAIN s = 1 .. n
      /\ \A i \in 1 .. n : s[i] \in S
  BY LenProperties, ElementOfSeq
<1>3. K \in [0 .. n -> Seq(S)] /\ K[0] = << >>
  BY <1>1 DEF Keeps
<1> HIDE DEF n
<1> DEFINE Good(i) ==
             /\ Len(K[i]) <= i
             /\ \A k \in DOMAIN K[i] : K[i][k] \in T /\ \E h \in 1 .. i : s[h] = K[i][k]
             /\ \A h \in 1 .. i : s[h] \in T => \E k \in DOMAIN K[i] : K[i][k] = s[h]
           P == {i \in 0 .. n : Good(i)}
<1>4. 0 .. n \subseteq P
  <2>1. 0 \in P
    <3>1. Len(K[0]) = 0 /\ DOMAIN K[0] = {}
      BY <1>3, EmptySeq
    <3> QED BY <1>2, <3>1
  <2>2. ASSUME NEW i \in Nat, i < n, i \in P PROVE i + 1 \in P
    <3>1. Good(i)
      BY <2>2
    <3>2. i + 1 \in 1 .. n /\ s[i + 1] \in S
      BY <1>2, <2>2
    <3>3. K[i + 1] = IF s[i + 1] \in T THEN Append(K[i], s[i + 1]) ELSE K[i]
      <4>1. K[i + 1] = IF s[i + 1] \in T THEN Append(K[(i + 1) - 1], s[i + 1]) ELSE K[(i + 1) - 1]
        BY <1>1, <3>2 DEF Keeps, n
      <4>2. (i + 1) - 1 = i
        OBVIOUS
      <4> QED BY <4>1, <4>2
    <3>4. /\ K[i] \in Seq(S) /\ Len(K[i]) \in Nat /\ DOMAIN K[i] = 1 .. Len(K[i])
      BY <1>2, <1>3, <2>2, LenProperties
    <3>5. CASE s[i + 1] \in T
      <4> DEFINE A == K[i + 1]
      <4>1. /\ A \in Seq(S)
            /\ Len(A) = Len(K[i]) + 1
            /\ \A k \in 1 .. Len(K[i]) : A[k] = K[i][k]
            /\ A[Len(K[i]) + 1] = s[i + 1]
        BY <3>2, <3>3, <3>4, <3>5, AppendProperties
      <4>2. DOMAIN A = 1 .. Len(K[i]) + 1
        BY <4>1, LenProperties
      <4> HIDE DEF A
      <4>3. Len(A) <= i + 1
        BY <3>1, <3>4, <4>1
      <4>4. ASSUME NEW k \in DOMAIN A
            PROVE  A[k] \in T /\ \E h \in 1 .. i + 1 : s[h] = A[k]
        <5>1. CASE k = Len(K[i]) + 1
          BY <2>2, <3>5, <4>1, <5>1
        <5>2. CASE k # Len(K[i]) + 1
          <6>1. k \in DOMAIN K[i] /\ A[k] = K[i][k]
            BY <3>4, <4>1, <4>2, <5>2, SMTT(30), ZenonT(30)
          <6> QED BY <2>2, <3>1, <6>1
        <5> QED BY <5>1, <5>2
      <4>5. ASSUME NEW h \in 1 .. i + 1, s[h] \in T
            PROVE  \E k \in DOMAIN A : A[k] = s[h]
        <5>1. CASE h = i + 1
          BY <3>4, <4>1, <4>2, <5>1, SMTT(30), ZenonT(30)
        <5>2. CASE h # i + 1
          <6>1. h \in 1 .. i
            BY <2>2, <5>2
          <6>2. PICK k \in DOMAIN K[i] : K[i][k] = s[h]
            BY <3>1, <4>5, <6>1
          <6> QED BY <3>4, <4>1, <4>2, <6>2
        <5> QED BY <5>1, <5>2
      <4>6. Good(i + 1)
        BY <4>3, <4>4, <4>5 DEF A
      <4> QED BY <1>2, <2>2, <4>6
    <3>6. CASE s[i + 1] \notin T
      <4>1. K[i + 1] = K[i]
        BY <3>3, <3>6
      <4>2. Len(K[i + 1]) <= i + 1
        BY <3>1, <3>4, <4>1
      <4>3. \A k \in DOMAIN K[i + 1] : K[i + 1][k] \in T /\ \E h \in 1 .. i + 1 : s[h] = K[i + 1][k]
        BY <2>2, <3>1, <4>1
      <4>4. \A h \in 1 .. i + 1 : s[h] \in T => \E k \in DOMAIN K[i + 1] : K[i + 1][k] = s[h]
        <5>1. \A h \in 1 .. i + 1 : s[h] \in T => h \in 1 .. i
          BY <2>2, <3>6
        <5> QED BY <3>1, <4>1, <5>1
      <4> HIDE DEF P
      <4>5. Good(i + 1)
        BY <4>2, <4>3, <4>4
      <4> QED BY <1>2, <2>2, <4>5 DEF P
    <3> QED BY <3>5, <3>6
  <2> HIDE DEF P
  <2> QED BY <1>2, <2>1, <2>2, UpTo
<1>5. Good(n) /\ K[n] \in Seq(S)
  BY <1>2, <1>3, <1>4
<1>6. Filter(s, T) = K[n]
  BY <1>1 DEF n
<1> QED BY <1>2, <1>5, <1>6 DEF n
=============================================================================
