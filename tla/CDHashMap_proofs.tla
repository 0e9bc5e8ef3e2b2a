-------------------------- MODULE CDHashMap_proofs --------------------------
(***************************************************************************)
(* Proofs about the context-dependent map, for any keys, data and depth:   *)
(* the table, the insertion-order list and the garbage agree, and the map  *)
(* implements a stack of snapshots (module SnapshotStack).                 *)
(***************************************************************************)
EXTENDS CDHashMap, FiniteSetTheorems, SequenceTheorems, WellFoundedInduction, TLAPS

(* The insertion-order list is L: circular and doubly linked, each element *)
(* once.                                                                   *)
LinkedAs(L) ==
    /\ \A i, j \in 1 .. Len(L) : L[i] = L[j] => i = j
    /\ d_map = {L[i] : i \in 1 .. Len(L)}
    /\ d_first = IF Len(L) = 0 THEN Nil ELSE L[1]
    /\ \A i \in 1 .. Len(L) :
          /\ d_next[L[i]] = L[IF i = Len(L) THEN 1 ELSE i + 1]
          /\ d_prev[L[i]] = L[IF i = 1 THEN Len(L) ELSE i - 1]

Linked == \E L \in Seq(Key) : LinkedAs(L)

(* Copies are older than the element, the one in the bottom scope is there *)
(* if the element is not, and only that one may say "no map"; an element   *)
(* that is in no map has no copies.                                        *)
VersionOK(k) ==
    /\ \A l \in DOMAIN saved[k] : l < scope[k] /\ (~saved[k][l].inMap => l = 0)
    /\ scope[k] > 0 => 0 \in DOMAIN saved[k]
    /\ scope[k] <= level \/ (popping /\ scope[k] = level + 1)
    /\ k \in d_map => scope[k] >= 0 /\ k \notin ToSet(garbage) /\ data[k] \in Data
    /\ k \notin d_map => /\ saved[k] = NoCopies
                         /\ scope[k] = IF k \in ToSet(garbage) THEN 0 ELSE None

Versions == \A k \in Key : VersionOK(k)

(* The list of a scope above the bottom one holds once each element that   *)
(* has a version there.                                                    *)
Once(q) == \A i, j \in 1 .. Len(q) : q[i] = q[j] => i = j
Holds(q, k) == \E i \in 1 .. Len(q) : q[i] = k

Chains ==
    \A l \in 1 .. MaxLevel :
       /\ Once(chain[l])
       /\ \A k \in Key : scope[k] = l \/ l \in DOMAIN saved[k] <=> Holds(chain[l], k)

Stage ==
    /\ ~popping => garbage = <<>>
    /\ popping => level < MaxLevel

(* The inductive invariant.                                                *)
IInv == TypeOK /\ Linked /\ Versions /\ Chains /\ Stage

-----------------------------------------------------------------------------
(* Induction, by the least counterexample, and what rests on it.           *)

LEMMA LeastElement ==
    ASSUME NEW S, S \subseteq Nat, S # {}
    PROVE  \E n \in S : \A k \in S : n <= k
  <1> DEFINE R == {p \in Nat \X Nat : p[1] < p[2]}
  <1>1. R = OpToRel(<, Nat)  BY DEF OpToRel
  <1>2. IsWellFoundedOn(R, Nat)  BY <1>1, NatLessThanWellFounded
  <1> HIDE DEF R
  <1>3. PICK n \in S : \A k \in S : ~(<<k, n>> \in R)  BY <1>2, WFMin
  <1>4. \A k \in S : <<k, n>> \in Nat \X Nat  OBVIOUS
  <1>5. ASSUME NEW k \in S  PROVE n <= k
    <2>1. ~(k < n)  BY <1>3, <1>4 DEF R
    <2> QED  BY <2>1
  <1> QED  BY <1>5

(* Induction over 0 .. n, for the members of a set.                        *)
LEMMA UpTo ==
    ASSUME NEW n \in Nat, NEW S, 0 \in S,
           \A i \in 1 .. n : i - 1 \in S => i \in S
    PROVE  0 .. n \subseteq S
  <1> DEFINE B == {i \in 0 .. n : i \notin S}
  <1> SUFFICES ASSUME B # {}  PROVE FALSE  OBVIOUS
  <1>1. B \subseteq Nat  OBVIOUS
  <1> HIDE DEF B
  <1>2. PICK m \in B : \A k \in B : m <= k  BY <1>1, LeastElement
  <1>3. m \in 0 .. n /\ m \notin S /\ m # 0  BY DEF B
  <1>4. m \in 1 .. n /\ m - 1 \in 0 .. n /\ ~(m <= m - 1)  BY <1>3
  <1>5. m - 1 \in S  BY <1>2, <1>4 DEF B
  <1> QED  BY <1>3, <1>4, <1>5

(* A bounded set of naturals has a greatest element.                       *)
LEMMA GreatestElement ==
    ASSUME NEW n \in Nat, NEW S, S \subseteq 0 .. n, S # {}
    PROVE  \E g \in S : \A k \in S : k <= g
  <1> DEFINE T == {n - k : k \in S}
  <1>1. T \subseteq Nat /\ T # {}
    <2>1. PICK k \in S : TRUE  OBVIOUS
    <2>2. n - k \in T  BY <2>1
    <2> QED  BY <2>2
  <1> HIDE DEF T
  <1>2. PICK m \in T : \A k \in T : m <= k  BY <1>1, LeastElement
  <1>3. PICK g \in S : m = n - g  BY DEF T
  <1>4. ASSUME NEW k \in S  PROVE k <= g
    <2>1. m <= n - k  BY <1>2 DEF T
    <2>2. k \in 0 .. n /\ g \in 0 .. n  OBVIOUS
    <2> QED  BY <2>1, <2>2, <1>3
  <1> QED  BY <1>4

(* The function that Without is defined by.                                *)
Keeps(f, q, S, n) ==
    /\ f[0] = <<>>
    /\ \A i \in 1 .. n : f[i] = IF q[i] \in S THEN f[i - 1] ELSE Append(f[i - 1], q[i])

LEMMA KeepsExists ==
    ASSUME NEW K, NEW q \in Seq(K), NEW S, NEW n \in 0 .. Len(q)
    PROVE  \E f \in [0 .. n -> Seq(K)] : Keeps(f, q, S, n)
  <1> DEFINE P == {j \in Nat : \E f \in [0 .. j -> Seq(K)] : Keeps(f, q, S, j)}
  <1>1. 0 \in P
    <2> DEFINE f == [i \in 0 .. 0 |-> <<>>]
    <2>1. f \in [0 .. 0 -> Seq(K)] /\ Keeps(f, q, S, 0)  BY DEF Keeps
    <2> QED  BY <2>1
  <1>2. ASSUME NEW i \in 1 .. n, i - 1 \in P  PROVE i \in P
    <2>1. i \in Nat /\ i - 1 \in Nat /\ q[i] \in K  BY ElementOfSeq
    <2>2. PICK f \in [0 .. i - 1 -> Seq(K)] : Keeps(f, q, S, i - 1)  BY <1>2
    <2> DEFINE last == IF q[i] \in S THEN f[i - 1] ELSE Append(f[i - 1], q[i])
               g == [j \in 0 .. i |-> IF j = i THEN last ELSE f[j]]
    <2>3. last \in Seq(K)
      <3>1. f[i - 1] \in Seq(K)  BY <2>1
      <3> QED  BY <3>1, <2>1, AppendProperties
    <2> HIDE DEF last
    <2>4. g \in [0 .. i -> Seq(K)]
      <3> SUFFICES ASSUME NEW j \in 0 .. i  PROVE g[j] \in Seq(K)  OBVIOUS
      <3>1. j = i \/ j \in 0 .. i - 1  BY <2>1
      <3> QED  BY <3>1, <2>3
    <2>5. g[0] = <<>>  BY <2>1, <2>2 DEF Keeps
    <2>6. ASSUME NEW j \in 1 .. i
          PROVE  g[j] = IF q[j] \in S THEN g[j - 1] ELSE Append(g[j - 1], q[j])
      <3>1. g[j - 1] = f[j - 1]  BY <2>1
      <3>2. CASE j = i
        <4>1. g[i] = last  BY <2>1
        <4> QED  BY <4>1, <3>1, <3>2 DEF last
      <3>3. CASE j # i
        <4>1. j \in 1 .. i - 1 /\ g[j] = f[j]  BY <3>3, <2>1
        <4> QED  BY <4>1, <3>1, <2>2 DEF Keeps
      <3> QED  BY <3>2, <3>3
    <2> HIDE DEF g
    <2>7. Keeps(g, q, S, i)  BY <2>5, <2>6 DEF Keeps
    <2> QED  BY <2>1, <2>4, <2>7
  <1> HIDE DEF P
  <1>3. n \in Nat /\ n \in 0 .. n  OBVIOUS
  <1>4. n \in P  BY <1>1, <1>2, <1>3, UpTo
  <1> QED  BY <1>4 DEF P

LEMMA WithoutKeeps ==
    ASSUME NEW K, NEW q \in Seq(K), NEW S
    PROVE  \E f \in [0 .. Len(q) -> Seq(K)] : Keeps(f, q, S, Len(q)) /\ Without(q, S) = f[Len(q)]
  <1> DEFINE n == Len(q)
             F(g) == [i \in 0 .. n |-> IF i = 0 THEN <<>>
                                       ELSE IF q[i] \in S THEN g[i - 1] ELSE Append(g[i - 1], q[i])]
             h == CHOOSE g : g = F(g)
  <1>1. n \in Nat /\ n \in 0 .. Len(q)  BY LenProperties
  <1>2. PICK f \in [0 .. n -> Seq(K)] : Keeps(f, q, S, n)
    <2> HIDE DEF n
    <2> QED  BY <1>1, KeepsExists
  <1>3. f = F(f)
    <2>1. \A i \in 0 .. n : f[i] = F(f)[i]
      <3> TAKE i \in 0 .. n
      <3>1. CASE i = 0  BY <3>1, <1>2 DEF Keeps
      <3>2. CASE i # 0
        <4>1. i \in 1 .. n  BY <3>2
        <4> QED  BY <4>1, <3>2, <1>2 DEF Keeps
      <3> QED  BY <3>1, <3>2
    <2> QED  BY <2>1
  <1>4. h = F(h)  BY <1>3
  <1>5. Without(q, S) = h[n]  BY DEF Without
  <1> HIDE DEF h
  <1>6. h[0] = <<>>  BY <1>1, <1>4
  <1>7. \A i \in 1 .. n : h[i] = IF q[i] \in S THEN h[i - 1] ELSE Append(h[i - 1], q[i])
    <2> TAKE i \in 1 .. n
    <2>1. i \in 0 .. n /\ i # 0  OBVIOUS
    <2> QED  BY <2>1, <1>4
  <1>8. 0 .. n \subseteq {i \in 0 .. n : h[i] = f[i]}
    <2> DEFINE E == {i \in 0 .. n : h[i] = f[i]}
    <2>1. 0 \in E  BY <1>1, <1>2, <1>6 DEF Keeps
    <2>2. ASSUME NEW i \in 1 .. n, i - 1 \in E  PROVE i \in E
      BY <2>2, <1>2, <1>7 DEF Keeps
    <2> HIDE DEF E
    <2>3. 0 .. n \subseteq E  BY <2>1, <2>2, <1>1, UpTo
    <2> QED  BY <2>3 DEF E
  <1>9. h[n] = f[n]  BY <1>1, <1>8
  <1> QED  BY <1>2, <1>5, <1>9

(* A list without some elements is a list, and without elements it has not *)
(* is itself.                                                              *)
LEMMA WithoutType ==
    ASSUME NEW K, NEW q \in Seq(K), NEW S
    PROVE  Without(q, S) \in Seq(K)
  <1>1. Len(q) \in 0 .. Len(q)  BY LenProperties
  <1> QED  BY <1>1, WithoutKeeps

LEMMA WithoutNone ==
    ASSUME NEW K, NEW q \in Seq(K), NEW S, \A i \in 1 .. Len(q) : q[i] \notin S
    PROVE  Without(q, S) = q
  <1> DEFINE n == Len(q)
  <1>1. n \in Nat /\ \A i \in 1 .. n : q[i] \in K  BY LenProperties, ElementOfSeq
  <1>2. PICK f \in [0 .. n -> Seq(K)] : Keeps(f, q, S, n) /\ Without(q, S) = f[n]
    BY WithoutKeeps
  <1> DEFINE E == {i \in 0 .. n : Len(f[i]) = i /\ \A j \in 1 .. i : f[i][j] = q[j]}
  <1>3. 0 \in E  BY <1>1, <1>2 DEF Keeps
  <1>4. ASSUME NEW i \in 1 .. n, i - 1 \in E  PROVE i \in E
    <2> DEFINE g == f[i - 1]
    <2>1. f[i] = Append(g, q[i])  BY <1>1, <1>2 DEF Keeps
    <2>2. i - 1 \in 0 .. n /\ i \in 0 .. n /\ q[i] \in K  BY <1>1
    <2>3. g \in Seq(K) /\ Len(g) = i - 1 /\ \A j \in 1 .. i - 1 : g[j] = q[j]
      BY <2>2, <1>4
    <2> HIDE DEF g
    <2>4. Len(f[i]) = i  BY <2>1, <2>2, <2>3, AppendProperties
    <2>5. ASSUME NEW j \in 1 .. i  PROVE f[i][j] = q[j]
      <3>1. CASE j = i  BY <3>1, <2>1, <2>2, <2>3, AppendProperties
      <3>2. CASE j # i
        <4>1. j \in 1 .. i - 1 /\ j \in 1 .. Len(g)  BY <3>2, <2>2, <2>3
        <4> QED  BY <4>1, <2>1, <2>2, <2>3, AppendProperties
      <3> QED  BY <3>1, <3>2
    <2> QED  BY <2>2, <2>4, <2>5
  <1> HIDE DEF E
  <1>5. n \in E
    <2>1. 0 .. n \subseteq E  BY <1>1, <1>3, <1>4, UpTo
    <2> QED  BY <2>1, <1>1
  <1>6. Len(f[n]) = n /\ f[n] \in Seq(K) /\ \A j \in 1 .. n : f[n][j] = q[j]
    BY <1>1, <1>2, <1>5 DEF E
  <1>7. f[n] = q
    <2> DEFINE g == f[n]
    <2>1. g \in Seq(K) /\ Len(g) = Len(q) /\ \A j \in 1 .. Len(q) : g[j] = q[j]  BY <1>6
    <2> HIDE DEF g, n
    <2>2. g = q  BY <2>1, SeqEqual
    <2> QED  BY <2>2 DEF g
  <1> QED  BY <1>2, <1>7

(* A list without repetition is as long as the set of its elements.        *)
LEMMA LengthIsCardinality ==
    ASSUME NEW K, NEW L \in Seq(K), \A i, j \in 1 .. Len(L) : L[i] = L[j] => i = j
    PROVE  LET T == {L[i] : i \in 1 .. Len(L)}
           IN  IsFiniteSet(T) /\ Cardinality(T) = Len(L)
  <1> DEFINE n == Len(L)
             T == {L[i] : i \in 1 .. n}
  <1>1. n \in Nat /\ L \in [1 .. n -> T]  BY LenProperties
  <1>2. L \in Bijection(1 .. n, T)
    <2>1. IsInjective(L)  BY <1>1 DEF IsInjective
    <2>2. \A t \in T : \E i \in 1 .. n : L[i] = t  OBVIOUS
    <2> HIDE DEF n, T
    <2> QED  BY <2>1, <2>2, <1>1 DEF Bijection, Injection, Surjection
  <1> HIDE DEF T, n
  <1>3. ExistsBijection(1 .. n, T)  BY <1>2 DEF ExistsBijection
  <1>4. IsFiniteSet(1 .. n) /\ Cardinality(1 .. n) = n
    <2>1. 1 \in Int /\ n \in Int /\ (IF 1 > n THEN 0 ELSE n - 1 + 1) = n  BY <1>1
    <2> QED  BY <2>1, FS_Interval
  <1>5. IsFiniteSet(T) /\ Cardinality(T) = n  BY <1>3, <1>4, FS_Bijection
  <1> QED  BY <1>5 DEF T, n

(* What begin() to end() visits is the list.                               *)
LEMMA IterationIsList ==
    ASSUME NEW L \in Seq(Key), LinkedAs(L)
    PROVE  Iteration = L
  <1> DEFINE n == Len(L)
             N == Cardinality(Key)
  <1>1. n \in Nat /\ \A i \in 1 .. n : L[i] \in Key  BY LenProperties, ElementOfSeq
  <1>2. N \in Nat /\ n <= N
    <2> DEFINE T == {L[i] : i \in 1 .. n}
    <2>1. IsFiniteSet(T) /\ Cardinality(T) = n  BY LengthIsCardinality DEF LinkedAs
    <2>2. T \in SUBSET Key  BY <1>1
    <2> HIDE DEF T
    <2> QED  BY <2>1, <2>2, MapAssumption, FS_Subset, FS_CardinalityType
  <1>3. CASE n = 0
    <2>1. d_first = Nil  BY <1>3 DEF LinkedAs
    <2>2. L = <<>>  BY <1>3, EmptySeq
    <2> QED  BY <2>1, <2>2 DEF Iteration
  <1>4. CASE n # 0
    <2> DEFINE c(i) == IF i < n THEN i + 1 ELSE n
               F(g) == [i \in 0 .. N |->
                           IF i = 0 THEN <<d_first>>
                           ELSE LET s == g[i - 1] IN
                                IF d_next[Last(s)] = d_first THEN s
                                ELSE Append(s, d_next[Last(s)])]
               f == [i \in 0 .. N |-> SubSeq(L, 1, c(i))]
               h == CHOOSE g : g = F(g)
    <2>1. /\ n \in Nat \ {0} /\ d_first = L[1] /\ d_first # Nil
          /\ \A i \in 1 .. n : d_next[L[i]] = L[IF i = n THEN 1 ELSE i + 1]
          /\ \A i, j \in 1 .. n : L[i] = L[j] => i = j
      BY <1>1, <1>4, MapAssumption DEF LinkedAs
    <2>2. \A j \in 1 .. n : /\ SubSeq(L, 1, j) \in Seq(Key) /\ Len(SubSeq(L, 1, j)) = j
                            /\ SubSeq(L, 1, j)[j] = L[j]
      <3> TAKE j \in 1 .. n
      <3>1. \A i \in 1 .. j : L[i] \in Key  BY <1>1
      <3> QED  BY <3>1, <1>1, SubSeqProperties
    <2>3. \A j \in 1 .. n : j # n => Append(SubSeq(L, 1, j), L[j + 1]) = SubSeq(L, 1, j + 1)
      <3> TAKE j \in 1 .. n
      <3> SUFFICES ASSUME j # n PROVE Append(SubSeq(L, 1, j), L[j + 1]) = SubSeq(L, 1, j + 1)
        OBVIOUS
      <3> DEFINE u == SubSeq(L, 1, j)
                 v == SubSeq(L, 1, j + 1)
      <3>1. j \in Nat /\ j + 1 \in 1 .. n /\ \A i \in 1 .. j + 1 : i \in 1 .. n  BY <1>1
      <3>2. u \in Seq(Key) /\ Len(u) = j /\ \A i \in 1 .. j : u[i] = L[i]
        BY <3>1, <1>1, SubSeqProperties
      <3>3. v \in Seq(Key) /\ Len(v) = j + 1 /\ \A i \in 1 .. j + 1 : v[i] = L[i]
        BY <3>1, <1>1, SubSeqProperties
      <3> HIDE DEF u, v
      <3> DEFINE w == Append(u, L[j + 1])
      <3>4. /\ w \in Seq(Key) /\ Len(w) = j + 1
            /\ \A i \in 1 .. j + 1 : w[i] = IF i <= j THEN u[i] ELSE L[j + 1]
        BY <3>1, <3>2, <1>1, AppendProperties
      <3> HIDE DEF w
      <3>5. \A i \in 1 .. j + 1 : w[i] = v[i]
        <4> TAKE i \in 1 .. j + 1
        <4>1. CASE i <= j
          <5>1. i \in 1 .. j  BY <4>1, <3>1
          <5> QED  BY <5>1, <4>1, <3>2, <3>3, <3>4
        <4>2. CASE ~(i <= j)
          <5>1. i = j + 1  BY <4>2, <3>1
          <5> QED  BY <5>1, <4>2, <3>3, <3>4
        <4> QED  BY <4>1, <4>2
      <3>6. w = v  BY <3>3, <3>4, <3>5, SeqEqual
      <3> QED  BY <3>6 DEF u, v, w
    <2>4. \A i \in 0 .. N : c(i) \in 1 .. n  BY <2>1
    <2>5. \A i \in 1 .. N : (c(i - 1) = n /\ c(i) = n) \/ (c(i - 1) # n /\ c(i) = c(i - 1) + 1)
      BY <2>1, <1>2
    <2>6. c(0) = 1 /\ c(N) = n  BY <2>1, <1>2
    <2> HIDE DEF c
    <2>7. SubSeq(L, 1, 1) = <<L[1]>>
      <3> DEFINE u == SubSeq(L, 1, 1)
      <3>1. u \in Seq(Key) /\ Len(u) = 1 /\ u[1] = L[1]  BY <2>1, <2>2
      <3> HIDE DEF u
      <3>2. u = <<L[1]>>  BY <3>1
      <3> QED  BY <3>2 DEF u
    <2>8. f = F(f)
      <3>1. ASSUME NEW i \in 0 .. N  PROVE f[i] = F(f)[i]
        <4>1. CASE i = 0
          <5>1. f[i] = SubSeq(L, 1, 1)  BY <4>1, <2>6
          <5> QED  BY <5>1, <4>1, <2>1, <2>7
        <4>2. CASE i # 0
          <5> DEFINE j == c(i - 1)
                     s == SubSeq(L, 1, j)
          <5>1. i \in 1 .. N /\ i - 1 \in 0 .. N  BY <4>2, <1>2
          <5>2. j \in 1 .. n  BY <5>1, <2>4
          <5>3. f[i - 1] = s  BY <5>1
          <5>4. f[i] = SubSeq(L, 1, c(i))  BY <5>1
          <5>5. Last(s) = L[j]  BY <5>2, <2>2 DEF Last
          <5>6. F(f)[i] = IF d_next[L[j]] = d_first THEN s ELSE Append(s, d_next[L[j]])
            BY <5>1, <5>3, <5>5, <4>2
          <5>7. CASE c(i - 1) = n /\ c(i) = n
            <6>1. d_next[L[j]] = d_first  BY <5>7, <5>2, <2>1
            <6> QED  BY <6>1, <5>4, <5>6, <5>7
          <5>8. CASE c(i - 1) # n /\ c(i) = c(i - 1) + 1
            <6>1. d_next[L[j]] = L[j + 1]  BY <5>8, <5>2, <2>1
            <6>2. L[j + 1] # d_first
              <7>1. j + 1 \in 1 .. n /\ 1 \in 1 .. n /\ j + 1 # 1  BY <5>8, <5>2, <2>1
              <7> QED  BY <7>1, <2>1
            <6>3. F(f)[i] = Append(s, L[j + 1])  BY <6>1, <6>2, <5>6
            <6> QED  BY <6>3, <5>2, <5>4, <5>8, <2>3
          <5> QED  BY <5>1, <5>7, <5>8, <2>5
        <4> QED  BY <4>1, <4>2
      <3> QED  BY <3>1
    <2>9. h = F(h)  BY <2>8
    <2>10. Iteration = h[N]  BY <2>1 DEF Iteration
    <2> HIDE DEF f, h
    <2>11. h[N] = f[N]
      <3> DEFINE E == {i \in 0 .. N : h[i] = f[i]}
      <3>1. 0 \in E
        <4>1. 0 \in 0 .. N  BY <1>2
        <4> QED  BY <4>1, <2>8, <2>9
      <3>2. ASSUME NEW i \in 1 .. N, i - 1 \in E  PROVE i \in E
        <4>1. i \in 0 .. N /\ i # 0 /\ h[i - 1] = f[i - 1]  BY <3>2
        <4>2. h[i] = F(h)[i] /\ f[i] = F(f)[i]  BY <2>8, <2>9
        <4>3. F(h)[i] = F(f)[i]  BY <4>1
        <4> QED  BY <4>1, <4>2, <4>3
      <3> HIDE DEF E
      <3>3. 0 .. N \subseteq E  BY <3>1, <3>2, <1>2, UpTo
      <3> QED  BY <3>3, <1>2 DEF E
    <2>12. f[N] = SubSeq(L, 1, n)
      <3>1. N \in 0 .. N  BY <1>2
      <3> QED  BY <3>1, <2>6 DEF f
    <2>13. SubSeq(L, 1, n) = L
      <3> DEFINE u == SubSeq(L, 1, n)
      <3>1. u \in Seq(Key) /\ Len(u) = n /\ \A i \in 1 .. n : u[i] = L[i]
        BY <1>1, SubSeqProperties
      <3> HIDE DEF u
      <3>2. u = L  BY <3>1, SeqEqual
      <3> QED  BY <3>2 DEF u
    <2> QED  BY <2>10, <2>11, <2>12, <2>13
  <1> QED  BY <1>3, <1>4

-----------------------------------------------------------------------------
(* The operations on the insertion-order list.                             *)

LEMMA LinkLastLinks ==
    ASSUME TypeOK, NEW L \in Seq(Key), LinkedAs(L), NEW k \in Key, k \notin d_map,
           LinkLast(k), d_map' = d_map \cup {k}
    PROVE  Append(L, k) \in Seq(Key) /\ LinkedAs(Append(L, k))'
  <1> DEFINE n == Len(L)
             M == Append(L, k)
  <1>2. n \in Nat /\ \A i \in 1 .. n : L[i] \in Key  BY LenProperties, ElementOfSeq
  <1>3. /\ M \in Seq(Key) /\ Len(M) = n + 1 /\ M[n + 1] = k
        /\ \A i \in 1 .. n : M[i] = L[i]
    BY <1>2, AppendProperties
  <1> HIDE DEF M
  <1>4. /\ \A i, j \in 1 .. n : L[i] = L[j] => i = j
        /\ d_map = {L[i] : i \in 1 .. n}
        /\ d_first = IF n = 0 THEN Nil ELSE L[1]
        /\ \A i \in 1 .. n : /\ d_next[L[i]] = L[IF i = n THEN 1 ELSE i + 1]
                             /\ d_prev[L[i]] = L[IF i = 1 THEN n ELSE i - 1]
    BY DEF LinkedAs
  <1>5. \A i \in 1 .. n : L[i] # k  BY <1>4
  <1>6. d_next \in [Key -> Key \cup {Nil}] /\ d_prev \in [Key -> Key \cup {Nil}]  BY DEF TypeOK
  <1> HIDE DEF n
  <1>7. \A i \in 1 .. n + 1 : i \in 1 .. n \/ i = n + 1  BY <1>2
  <1>8. \A i, j \in 1 .. n + 1 : M[i] = M[j] => i = j
    <2> TAKE i, j \in 1 .. n + 1
    <2>1. CASE i \in 1 .. n /\ j \in 1 .. n  BY <2>1, <1>3, <1>4
    <2>2. CASE i \in 1 .. n /\ j = n + 1  BY <2>2, <1>3, <1>5
    <2>3. CASE i = n + 1 /\ j \in 1 .. n  BY <2>3, <1>3, <1>5
    <2>4. CASE i = n + 1 /\ j = n + 1  BY <2>4
    <2> QED  BY <2>1, <2>2, <2>3, <2>4, <1>7
  <1>9. d_map' = {M[i] : i \in 1 .. n + 1}
    <2>1. \A x \in d_map' : \E i \in 1 .. n + 1 : x = M[i]
      <3> TAKE x \in d_map'
      <3>1. CASE x = k
        <4>1. n + 1 \in 1 .. n + 1  BY <1>2
        <4> QED  BY <4>1, <3>1, <1>3
      <3>2. CASE x # k
        <4>1. PICK i \in 1 .. n : x = L[i]  BY <3>2, <1>4
        <4>2. i \in 1 .. n + 1  BY <1>2
        <4> QED  BY <4>1, <4>2, <1>3
      <3> QED  BY <3>1, <3>2
    <2>2. \A i \in 1 .. n + 1 : M[i] \in d_map'
      <3> TAKE i \in 1 .. n + 1
      <3>1. CASE i \in 1 .. n  BY <3>1, <1>3, <1>4
      <3>2. CASE i = n + 1  BY <3>2, <1>3
      <3> QED  BY <3>1, <3>2, <1>7
    <2> QED  BY <2>1, <2>2
  <1>10. CASE n = 0
    <2>1. d_first = Nil  BY <1>4, <1>10
    <2>2. d_first' = k /\ d_next'[k] = k /\ d_prev'[k] = k  BY <2>1, <1>6 DEF LinkLast
    <2>3. M[1] = k /\ \A i \in 1 .. n + 1 : i = 1 /\ i = n + 1  BY <1>3, <1>10
    <2>4. \A i \in 1 .. n + 1 : /\ d_next'[M[i]] = M[IF i = n + 1 THEN 1 ELSE i + 1]
                                /\ d_prev'[M[i]] = M[IF i = 1 THEN n + 1 ELSE i - 1]
      BY <2>2, <2>3, <1>10
    <2>5. d_first' = IF n + 1 = 0 THEN Nil ELSE M[1]  BY <2>2, <2>3, <1>2
    <2>6. LinkedAs(M)'  BY <2>4, <2>5, <1>3, <1>8, <1>9 DEF LinkedAs
    <2> QED  BY <2>6, <1>3 DEF M
  <1>11. CASE n # 0
    <2> DEFINE a == L[1]
               z == L[n]
    <2>1. 1 \in 1 .. n /\ n \in 1 .. n /\ n \in Nat \ {0}  BY <1>2, <1>11
    <2>2. d_first = a /\ a # Nil /\ d_prev[a] = z /\ a \in Key /\ z \in Key /\ a # k /\ z # k
      BY <2>1, <1>2, <1>4, <1>5, MapAssumption
    <2> HIDE DEF a, z
    <2>3. /\ d_first' = a
          /\ d_next' = [d_next EXCEPT ![k] = a, ![z] = k]
          /\ d_prev' = [d_prev EXCEPT ![k] = z, ![a] = k]
      BY <2>2 DEF LinkLast
    <2>4. /\ d_next'[k] = a /\ d_next'[z] = k /\ d_prev'[k] = z /\ d_prev'[a] = k
          /\ \A x \in Key : x # k /\ x # z => d_next'[x] = d_next[x]
          /\ \A x \in Key : x # k /\ x # a => d_prev'[x] = d_prev[x]
      BY <2>2, <2>3, <1>6
    <2>5. M[1] = a /\ M[n] = z  BY <2>1, <1>3 DEF a, z
    <2>6. ASSUME NEW i \in 1 .. n + 1
          PROVE  /\ d_next'[M[i]] = M[IF i = n + 1 THEN 1 ELSE i + 1]
                 /\ d_prev'[M[i]] = M[IF i = 1 THEN n + 1 ELSE i - 1]
      <3>1. CASE i = n + 1
        <4>1. i # 1 /\ i - 1 = n  BY <3>1, <2>1
        <4> QED  BY <4>1, <3>1, <2>4, <2>5, <1>3
      <3>2. CASE i # n + 1
        <4>1. i \in 1 .. n  BY <3>2, <2>1
        <4>2. M[i] = L[i] /\ L[i] \in Key /\ L[i] # k  BY <4>1, <1>2, <1>3, <1>5
        <4>3. d_next'[M[i]] = M[i + 1]
          <5>1. CASE i = n  BY <5>1, <2>4, <2>5, <1>3
          <5>2. CASE i # n
            <6>1. i + 1 \in 1 .. n  BY <5>2, <4>1, <2>1
            <6>2. L[i] # z  BY <5>2, <4>1, <2>1, <1>4 DEF z
            <6>3. d_next[L[i]] = L[i + 1]  BY <5>2, <4>1, <1>4
            <6> QED  BY <6>1, <6>2, <6>3, <4>2, <2>4, <1>3
          <5> QED  BY <5>1, <5>2
        <4>4. d_prev'[M[i]] = M[IF i = 1 THEN n + 1 ELSE i - 1]
          <5>1. CASE i = 1  BY <5>1, <2>4, <2>5, <1>3
          <5>2. CASE i # 1
            <6>1. i - 1 \in 1 .. n  BY <5>2, <4>1, <2>1
            <6>2. L[i] # a  BY <5>2, <4>1, <2>1, <1>4 DEF a
            <6>3. d_prev[L[i]] = L[i - 1]  BY <5>2, <4>1, <1>4
            <6> QED  BY <6>1, <6>2, <6>3, <5>2, <4>2, <2>4, <1>3
          <5> QED  BY <5>1, <5>2
        <4> QED  BY <4>3, <4>4, <3>2
      <3> QED  BY <3>1, <3>2
    <2>7. d_first' = IF n + 1 = 0 THEN Nil ELSE M[1]  BY <2>1, <2>3, <2>5
    <2>8. LinkedAs(M)'  BY <2>6, <2>7, <1>3, <1>8, <1>9 DEF LinkedAs
    <2> QED  BY <2>8, <1>3 DEF M
  <1> QED  BY <1>10, <1>11

(* The list without its i-th element.                                      *)
Removed(L, i) == [j \in 1 .. Len(L) - 1 |-> L[IF j < i THEN j ELSE j + 1]]

LEMMA UnlinkElementLinks ==
    ASSUME TypeOK, NEW L \in Seq(Key), LinkedAs(L), NEW k \in Key, k \in d_map,
           UnlinkElement(k), d_map' = d_map \ {k}
    PROVE  \E i \in 1 .. Len(L) : /\ L[i] = k
                                  /\ Removed(L, i) \in Seq(Key) /\ LinkedAs(Removed(L, i))'
  <1> DEFINE n == Len(L)
  <1>2. n \in Nat /\ \A i \in 1 .. n : L[i] \in Key  BY LenProperties, ElementOfSeq
  <1>3. /\ \A i, j \in 1 .. n : L[i] = L[j] => i = j
        /\ d_map = {L[i] : i \in 1 .. n}
        /\ d_first = IF n = 0 THEN Nil ELSE L[1]
        /\ \A i \in 1 .. n : /\ d_next[L[i]] = L[IF i = n THEN 1 ELSE i + 1]
                             /\ d_prev[L[i]] = L[IF i = 1 THEN n ELSE i - 1]
    BY DEF LinkedAs
  <1> HIDE DEF n
  <1>4. d_next \in [Key -> Key \cup {Nil}] /\ d_prev \in [Key -> Key \cup {Nil}]  BY DEF TypeOK
  <1>5. PICK i \in 1 .. n : L[i] = k  BY <1>3
  <1>6. n \in Nat \ {0} /\ d_first = L[1]  BY <1>2, <1>3, <1>5
  <1> DEFINE m == n - 1
             before == IF i = 1 THEN n ELSE i - 1
             after == IF i = n THEN 1 ELSE i + 1
             pos(j) == IF j < i THEN j ELSE j + 1
             M == [j \in 1 .. m |-> L[pos(j)]]
  <1>7. before \in 1 .. n /\ after \in 1 .. n  BY <1>6
  <1>8. d_next[k] = L[after] /\ d_prev[k] = L[before]  BY <1>3, <1>5
  <1>9. m \in Nat /\ \A j \in 1 .. m : pos(j) \in 1 .. n /\ pos(j) # i  BY <1>6
  <1>10. \A j, l \in 1 .. m : pos(j) = pos(l) => j = l  BY <1>6
  <1>11. ASSUME NEW l \in 1 .. n, l # i  PROVE \E j \in 1 .. m : pos(j) = l
    <2>1. CASE l < i
      <3>1. l \in 1 .. m /\ pos(l) = l  BY <2>1, <1>6
      <3> QED  BY <3>1
    <2>2. CASE ~(l < i)
      <3>1. l - 1 \in 1 .. m /\ pos(l - 1) = l  BY <2>2, <1>11, <1>6
      <3> QED  BY <3>1
    <2> QED  BY <2>1, <2>2
  <1>12. ASSUME NEW j \in 1 .. m
         PROVE  /\ pos(j) = before => pos(IF j = m THEN 1 ELSE j + 1) = after
                /\ pos(j) # before => /\ pos(j) # n => j # m /\ pos(j + 1) = pos(j) + 1
                                      /\ pos(j) = n => j = m /\ pos(1) = 1
                /\ pos(j) = after => pos(IF j = 1 THEN m ELSE j - 1) = before
                /\ pos(j) # after => /\ pos(j) # 1 => j # 1 /\ pos(j - 1) = pos(j) - 1
                                     /\ pos(j) = 1 => j = 1 /\ pos(m) = n
    BY <1>6
  <1>13. m # 0 => before # i /\ after # i /\ pos(1) = IF i = 1 THEN after ELSE 1  BY <1>6
  <1>14. m = 0 => after = i /\ i = 1 /\ n = 1  BY <1>6
  <1>15. /\ d_first' = IF L[1] # k THEN L[1] ELSE IF L[after] = k THEN Nil ELSE L[after]
         /\ d_prev' = [d_prev EXCEPT ![L[after]] = L[before]]
         /\ d_next' = [d_next EXCEPT ![L[before]] = L[after]]
    BY <1>6, <1>8 DEF UnlinkElement
  <1>16. /\ d_prev'[L[after]] = L[before] /\ d_next'[L[before]] = L[after]
         /\ \A l \in 1 .. n : l # after => d_prev'[L[l]] = d_prev[L[l]]
         /\ \A l \in 1 .. n : l # before => d_next'[L[l]] = d_next[L[l]]
    <2> HIDE DEF before, after
    <2> QED  BY <1>2, <1>3, <1>4, <1>7, <1>15
  <1>17. M \in Seq(Key) /\ Len(M) = m
    <2>1. \A j \in 1 .. m : L[pos(j)] \in Key  BY <1>2, <1>9
    <2> HIDE DEF m, pos
    <2> QED  BY <2>1, <1>9, SeqDef
  <1>18. \A j \in 1 .. m : M[j] = L[pos(j)]  OBVIOUS
  <1> HIDE DEF m, before, after, pos, M
  <1>19. \A j, l \in 1 .. m : M[j] = M[l] => j = l  BY <1>3, <1>9, <1>10, <1>18
  <1>20. d_map' = {M[j] : j \in 1 .. m}
    <2>1. \A x \in d_map' : \E j \in 1 .. m : x = M[j]
      <3> TAKE x \in d_map'
      <3>1. PICK l \in 1 .. n : x = L[l] /\ l # i  BY <1>3, <1>5
      <3> QED  BY <3>1, <1>11, <1>18
    <2>2. \A j \in 1 .. m : M[j] \in d_map'  BY <1>3, <1>5, <1>9, <1>18
    <2> QED  BY <2>1, <2>2
  <1>21. d_first' = IF m = 0 THEN Nil ELSE M[1]
    <2>1. CASE m = 0
      <3>1. after = i /\ L[1] = k  BY <2>1, <1>5, <1>14
      <3> QED  BY <3>1, <2>1, <1>5, <1>15
    <2>2. CASE m # 0
      <3>1. 1 \in 1 .. m  BY <2>2, <1>9
      <3>2. L[after] # k  BY <2>2, <1>3, <1>5, <1>7, <1>13
      <3>3. CASE i = 1  BY <3>1, <3>2, <3>3, <2>2, <1>5, <1>13, <1>15, <1>18
      <3>4. CASE i # 1
        <4>1. 1 \in 1 .. n  BY <1>6
        <4>2. L[1] # k  BY <4>1, <3>4, <1>3, <1>5
        <4> QED  BY <4>2, <3>1, <3>4, <2>2, <1>13, <1>15, <1>18
      <3> QED  BY <3>3, <3>4
    <2> QED  BY <2>1, <2>2
  <1>22. ASSUME NEW j \in 1 .. m
         PROVE  d_next'[M[j]] = M[IF j = m THEN 1 ELSE j + 1]
    <2> DEFINE s == IF j = m THEN 1 ELSE j + 1
    <2>1. s \in 1 .. m  BY <1>9
    <2>2. M[s] = L[pos(s)] /\ M[j] = L[pos(j)] /\ pos(j) \in 1 .. n  BY <2>1, <1>9, <1>18
    <2>3. CASE pos(j) = before
      <3>1. pos(s) = after  BY <2>3, <1>12
      <3> QED  BY <3>1, <2>2, <2>3, <1>16
    <2>4. CASE pos(j) # before /\ pos(j) = n
      <3>1. pos(s) = 1  BY <2>4, <1>12
      <3>2. d_next'[M[j]] = L[1]  BY <2>2, <2>4, <1>3, <1>16
      <3> QED  BY <3>1, <3>2, <2>2
    <2>5. CASE pos(j) # before /\ pos(j) # n
      <3>1. pos(s) = pos(j) + 1  BY <2>5, <1>12
      <3>2. d_next'[M[j]] = L[pos(j) + 1]  BY <2>2, <2>5, <1>3, <1>16
      <3> QED  BY <3>1, <3>2, <2>2
    <2> QED  BY <2>3, <2>4, <2>5
  <1>23. ASSUME NEW j \in 1 .. m
         PROVE  d_prev'[M[j]] = M[IF j = 1 THEN m ELSE j - 1]
    <2> DEFINE s == IF j = 1 THEN m ELSE j - 1
    <2>1. s \in 1 .. m  BY <1>9
    <2>2. M[s] = L[pos(s)] /\ M[j] = L[pos(j)] /\ pos(j) \in 1 .. n  BY <2>1, <1>9, <1>18
    <2>3. CASE pos(j) = after
      <3>1. pos(s) = before  BY <2>3, <1>12
      <3> QED  BY <3>1, <2>2, <2>3, <1>16
    <2>4. CASE pos(j) # after /\ pos(j) = 1
      <3>1. pos(s) = n  BY <2>4, <1>12
      <3>2. d_prev'[M[j]] = L[n]  BY <2>2, <2>4, <1>3, <1>16
      <3> QED  BY <3>1, <3>2, <2>2
    <2>5. CASE pos(j) # after /\ pos(j) # 1
      <3>1. pos(s) = pos(j) - 1  BY <2>5, <1>12
      <3>2. d_prev'[M[j]] = L[pos(j) - 1]  BY <2>2, <2>5, <1>3, <1>16
      <3> QED  BY <3>1, <3>2, <2>2
    <2> QED  BY <2>3, <2>4, <2>5
  <1>24. LinkedAs(M)'  BY <1>17, <1>19, <1>20, <1>21, <1>22, <1>23 DEF LinkedAs
  <1>25. Removed(L, i) = M  BY DEF Removed, M, m, pos, n
  <1> QED  BY <1>5, <1>17, <1>24, <1>25 DEF n

-----------------------------------------------------------------------------
(* The lists of the scopes, and the copies.                                *)

LEMMA ConsList ==
    ASSUME NEW K, NEW q \in Seq(K), NEW k \in K, Once(q), ~Holds(q, k)
    PROVE  /\ <<k>> \o q \in Seq(K)
           /\ Once(<<k>> \o q)
           /\ \A x : Holds(<<k>> \o q, x) <=> x = k \/ Holds(q, x)
  <1> DEFINE c == <<k>> \o q
             n == Len(q)
  <1>1. n \in Nat  BY LenProperties
  <1>2. /\ c \in Seq(K) /\ Len(c) = n + 1 /\ c[1] = k
        /\ \A i \in 1 .. n + 1 : i # 1 => c[i] = q[i - 1]
    BY <1>1
  <1>3. \A i \in 1 .. n + 1 : i = 1 \/ (i # 1 /\ i - 1 \in 1 .. n)  BY <1>1
  <1>4. \A i \in 1 .. n : i + 1 \in 1 .. n + 1 /\ i + 1 # 1 /\ i + 1 - 1 = i  BY <1>1
  <1>5. 1 \in 1 .. n + 1  BY <1>1
  <1> HIDE DEF c
  <1>6. Once(c)
    <2> SUFFICES ASSUME NEW i \in 1 .. n + 1, NEW j \in 1 .. n + 1, c[i] = c[j]  PROVE i = j
      BY <1>2 DEF Once
    <2>1. CASE i = 1 /\ j = 1  BY <2>1
    <2>2. CASE i = 1 /\ j # 1  BY <2>2, <1>2, <1>3 DEF Holds
    <2>3. CASE i # 1 /\ j = 1  BY <2>3, <1>2, <1>3 DEF Holds
    <2>4. CASE i # 1 /\ j # 1
      <3>1. i - 1 = j - 1  BY <2>4, <1>2, <1>3 DEF Once
      <3> QED  BY <3>1, <1>1
    <2> QED  BY <2>1, <2>2, <2>3, <2>4
  <1>7. ASSUME NEW x  PROVE Holds(c, x) <=> x = k \/ Holds(q, x)
    <2>1. ASSUME Holds(c, x)  PROVE x = k \/ Holds(q, x)
      <3>1. PICK i \in 1 .. n + 1 : c[i] = x  BY <2>1, <1>2 DEF Holds
      <3> QED  BY <3>1, <1>2, <1>3 DEF Holds
    <2>2. ASSUME x = k  PROVE Holds(c, x)  BY <2>2, <1>2, <1>5 DEF Holds
    <2>3. ASSUME Holds(q, x)  PROVE Holds(c, x)
      <3>1. PICK i \in 1 .. n : q[i] = x  BY <2>3 DEF Holds
      <3>2. i + 1 \in 1 .. n + 1 /\ c[i + 1] = x  BY <3>1, <1>2, <1>4
      <3> QED  BY <3>2, <1>2 DEF Holds
    <2> QED  BY <2>1, <2>2, <2>3
  <1> QED  BY <1>2, <1>6, <1>7 DEF c

LEMMA TailList ==
    ASSUME NEW K, NEW q \in Seq(K), q # <<>>, Once(q)
    PROVE  /\ Tail(q) \in Seq(K) /\ Head(q) \in K
           /\ Once(Tail(q))
           /\ Holds(q, Head(q))
           /\ \A x : Holds(Tail(q), x) <=> x # Head(q) /\ Holds(q, x)
  <1> DEFINE t == Tail(q)
             n == Len(q)
             k == Head(q)
  <1>1. n \in Nat \ {0} /\ 1 \in 1 .. n  BY LenProperties, EmptySeq
  <1>2. k = q[1] /\ k \in K  BY <1>1, ElementOfSeq
  <1>3. /\ t \in Seq(K) /\ Len(t) = n - 1
        /\ \A i \in 1 .. n - 1 : t[i] = q[i + 1]
    BY <1>1
  <1>4. \A i \in 1 .. n - 1 : i + 1 \in 1 .. n /\ i + 1 # 1  BY <1>1
  <1>5. \A i \in 1 .. n : i # 1 => i - 1 \in 1 .. n - 1 /\ (i - 1) + 1 = i  BY <1>1
  <1> HIDE DEF t, k
  <1>6. Once(t)
    <2> SUFFICES ASSUME NEW i \in 1 .. n - 1, NEW j \in 1 .. n - 1, t[i] = t[j]  PROVE i = j
      BY <1>3 DEF Once
    <2>1. i + 1 = j + 1  BY <1>3, <1>4 DEF Once
    <2> QED  BY <2>1, <1>1
  <1>7. ASSUME NEW x  PROVE Holds(t, x) <=> x # k /\ Holds(q, x)
    <2>1. ASSUME Holds(t, x)  PROVE x # k /\ Holds(q, x)
      <3>1. PICK i \in 1 .. n - 1 : t[i] = x  BY <2>1, <1>3 DEF Holds
      <3>2. i + 1 \in 1 .. n /\ i + 1 # 1 /\ q[i + 1] = x  BY <3>1, <1>3, <1>4
      <3> QED  BY <3>2, <1>1, <1>2 DEF Holds, Once
    <2>2. ASSUME x # k /\ Holds(q, x)  PROVE Holds(t, x)
      <3>1. PICK i \in 1 .. n : q[i] = x  BY <2>2 DEF Holds
      <3>2. i # 1  BY <3>1, <2>2, <1>2
      <3>3. i - 1 \in 1 .. n - 1 /\ t[i - 1] = x  BY <3>1, <3>2, <1>3, <1>5
      <3> QED  BY <3>3, <1>3 DEF Holds
    <2> QED  BY <2>1, <2>2
  <1> QED  BY <1>1, <1>2, <1>3, <1>6, <1>7 DEF t, k, Holds

LEMMA NewestCopyIsNewest ==
    ASSUME TypeOK, NEW k \in Key, DOMAIN saved[k] # {}
    PROVE  /\ NewestCopy(k) \in DOMAIN saved[k]
           /\ \A j \in DOMAIN saved[k] : j <= NewestCopy(k)
  <1>1. DOMAIN saved[k] \subseteq 0 .. MaxLevel  BY DEF TypeOK, Level
  <1>2. \E l \in DOMAIN saved[k] : \A j \in DOMAIN saved[k] : j <= l
    BY <1>1, MapAssumption, GreatestElement
  <1> QED  BY <1>2 DEF NewestCopy

LEMMA SameLinks ==
    ASSUME Linked, UNCHANGED <<links, d_map>>
    PROVE  Linked'
  BY DEF Linked, LinkedAs, links

-----------------------------------------------------------------------------
(* One lemma per action.                                                   *)

LEMMA InitEstablishes == Init => IInv
  <1> SUFFICES ASSUME Init  PROVE IInv  OBVIOUS
  <1>1. TypeOK
    <2>1. 0 \in Level  BY MapAssumption DEF Level
    <2>2. <<>> \in Seq(Key)  OBVIOUS
    <2>3. \A k \in Key : DOMAIN saved[k] = {}  BY DEF Init, NoCopies
    <2> QED  BY <2>1, <2>2, <2>3 DEF Init, TypeOK, Fresh
  <1>2. Linked
    <2> DEFINE L == <<>>
    <2>1. L \in Seq(Key) /\ LinkedAs(L)  BY DEF Init, LinkedAs
    <2> HIDE DEF L
    <2> QED  BY <2>1 DEF Linked
  <1>3. Versions
    <2>1. \A k \in Key : scope[k] = -1 /\ saved[k] = NoCopies /\ DOMAIN saved[k] = {}
      BY DEF Init, NoCopies, None
    <2>2. ToSet(garbage) = {} /\ d_map = {}  BY DEF Init, ToSet
    <2> QED  BY <2>1, <2>2 DEF Init, Versions, VersionOK, None
  <1>4. Chains
    <2> SUFFICES ASSUME NEW l \in 1 .. MaxLevel  PROVE
           /\ Once(chain[l])
           /\ \A k \in Key : scope[k] = l \/ l \in DOMAIN saved[k] <=> Holds(chain[l], k)
      BY DEF Chains
    <2>1. chain[l] = <<>>  BY MapAssumption DEF Init, Level
    <2>2. \A k \in Key : scope[k] = -1 /\ DOMAIN saved[k] = {}  BY DEF Init, NoCopies, None
    <2> QED  BY <2>1, <2>2 DEF Once, Holds
  <1>5. Stage  BY DEF Init, Stage
  <1> QED  BY <1>1, <1>2, <1>3, <1>4, <1>5 DEF IInv

LEMMA UpdatePreserves ==
    ASSUME IInv, NEW k \in Key, NEW d \in DataOf[k], Update(k, d)
    PROVE  IInv'
  <1> USE DEF IInv
  <1>1. /\ ~popping /\ k \in d_map /\ data' = [data EXCEPT ![k] = d]
        /\ level' = level /\ garbage' = garbage /\ popping' = popping /\ d_map' = d_map
        /\ UNCHANGED links
    BY DEF Update
  <1>2. Linked'  BY <1>1, SameLinks
  <1>3. Stage'  BY <1>1 DEF Stage
  <1>4. d \in Data  BY DEF Data
  <1>5. data' \in [Key -> Data \cup {Nil}] /\ data'[k] \in Data
        /\ \A x \in Key : x # k => data'[x] = data[x]
    BY <1>1, <1>4 DEF TypeOK
  <1>6. CASE scope[k] = level
    <2>1. scope' = scope /\ saved' = saved /\ chain' = chain  BY <1>6 DEF Update
    <2>2. TypeOK'  BY <2>1, <1>1, <1>5 DEF TypeOK, links
    <2>3. Versions'  BY <2>1, <1>1, <1>5 DEF Versions, VersionOK
    <2>4. Chains'  BY <2>1, <1>1 DEF Chains
    <2> QED  BY <2>2, <2>3, <2>4, <1>2, <1>3
  <1>7. CASE scope[k] # level
    <2> DEFINE old == scope[k]
               D == DOMAIN saved[k]
               copy == [data |-> data[k], inMap |-> TRUE]
    <2>1. /\ saved' = [saved EXCEPT ![k] = [l \in D \cup {old} |-> IF l = old THEN copy ELSE saved[k][l]]]
          /\ scope' = [scope EXCEPT ![k] = level]
          /\ chain' = [chain EXCEPT ![level] = <<k>> \o @]
      BY <1>7 DEF Update, WithCopy, TypeOK
    <2>2. /\ old \in 0 .. level - 1 /\ data[k] \in Data /\ level \in 1 .. MaxLevel
          /\ (old > 0 => 0 \in D) /\ old \in Level /\ level \in Level
          /\ \A l \in D : l < old /\ l \in Level /\ (~saved[k][l].inMap => l = 0)
                          /\ saved[k][l] \in Version
      <3>1. scope[k] \in Level /\ scope[k] <= level /\ level \in Level
        BY <1>1 DEF Versions, VersionOK, TypeOK, None, Level
      <3>2. old \in 0 .. level - 1 /\ level \in 1 .. MaxLevel
        BY <3>1, <1>7, MapAssumption DEF Level
      <3> QED  BY <3>1, <3>2, <1>1 DEF Versions, VersionOK, TypeOK
    <2>3. copy \in Version  BY <2>2 DEF Version
    <2>4. /\ DOMAIN saved' = Key
          /\ DOMAIN saved'[k] = D \cup {old}
          /\ \A l \in D : saved'[k][l] = saved[k][l] \/ saved'[k][l] = copy
          /\ saved'[k][old] = copy
          /\ \A x \in Key : x # k => saved'[x] = saved[x]
      BY <2>1 DEF TypeOK
    <2>5. scope' \in [Key -> Level \cup {None}] /\ scope'[k] = level
          /\ \A x \in Key : x # k => scope'[x] = scope[x]
      BY <2>1, <2>2 DEF TypeOK
    <2>6. copy.inMap  OBVIOUS
    <2> HIDE DEF copy, D
    <2>7. chain[level] \in Seq(Key) /\ Once(chain[level]) /\ ~Holds(chain[level], k)
      <3>1. chain[level] \in Seq(Key)  BY <2>2 DEF TypeOK
      <3>2. level \notin D /\ scope[k] # level  BY <2>2, <1>7
      <3> QED  BY <3>1, <3>2, <2>2 DEF Chains, D
    <2> DEFINE c == <<k>> \o chain[level]
    <2>8. c \in Seq(Key) /\ Once(c) /\ \A x : Holds(c, x) <=> x = k \/ Holds(chain[level], x)
      BY <2>7, ConsList
    <2>9. /\ chain' \in [Level -> Seq(Key)] /\ chain'[level] = c
          /\ \A l \in Level : l # level => chain'[l] = chain[l]
      BY <2>1, <2>2, <2>8 DEF TypeOK
    <2> HIDE DEF c
    <2>10. \A x \in Key : \A l \in DOMAIN saved'[x] : l \in Level /\ saved'[x][l] \in Version
      <3> SUFFICES ASSUME NEW x \in Key, NEW l \in DOMAIN saved'[x]
                   PROVE  l \in Level /\ saved'[x][l] \in Version
        OBVIOUS
      <3>1. CASE x = k  BY <3>1, <2>2, <2>3, <2>4
      <3>2. CASE x # k  BY <3>2, <2>4 DEF TypeOK
      <3> QED  BY <3>1, <3>2
    <2>11. TypeOK'  BY <2>4, <2>5, <2>9, <2>10, <1>1, <1>5 DEF TypeOK, links
    <2>12. Versions'
      <3>1. \A l \in DOMAIN saved'[k] : l < level /\ (~saved'[k][l].inMap => l = 0)
        <4> TAKE l \in DOMAIN saved'[k]
        <4>1. l \in Level /\ level \in Level /\ (l < old \/ l = old) /\ old < level
          BY <2>2, <2>4
        <4>2. l < level  BY <4>1, MapAssumption, <2>2 DEF Level
        <4>3. ~saved'[k][l].inMap => l = 0  BY <2>2, <2>4, <2>6, Zenon
        <4> QED  BY <4>2, <4>3
      <3>2. 0 \in DOMAIN saved'[k]  BY <2>2, <2>4
      <3> SUFFICES ASSUME NEW x \in Key  PROVE VersionOK(x)'  BY DEF Versions
      <3>3. CASE x = k
        BY <3>1, <3>2, <3>3, <2>2, <2>5, <1>1, <1>5 DEF Versions, VersionOK
      <3>4. CASE x # k  BY <3>4, <2>4, <2>5, <1>1, <1>5 DEF Versions, VersionOK
      <3> QED  BY <3>3, <3>4
    <2>13. Chains'
      <3> SUFFICES ASSUME NEW l \in 1 .. MaxLevel
                   PROVE  /\ Once(chain'[l])
                          /\ \A x \in Key : scope'[x] = l \/ l \in DOMAIN saved'[x] <=> Holds(chain'[l], x)
        BY DEF Chains
      <3>1. l \in Level /\ Once(chain[l])
            /\ \A x \in Key : scope[x] = l \/ l \in DOMAIN saved[x] <=> Holds(chain[l], x)
        BY MapAssumption DEF Chains, Level
      <3>2. CASE l = level
        <4> SUFFICES ASSUME NEW x \in Key
                     PROVE  scope'[x] = l \/ l \in DOMAIN saved'[x] <=> Holds(chain'[l], x)
          BY <3>2, <2>8, <2>9
        <4>1. CASE x = k  BY <4>1, <3>2, <2>5, <2>8, <2>9
        <4>2. CASE x # k  BY <4>2, <3>1, <3>2, <2>4, <2>5, <2>8, <2>9
        <4> QED  BY <4>1, <4>2
      <3>3. CASE l # level
        <4> SUFFICES ASSUME NEW x \in Key
                     PROVE  scope'[x] = l \/ l \in DOMAIN saved'[x] <=> Holds(chain'[l], x)
          BY <3>1, <3>3, <2>9
        <4>1. CASE x = k  BY <4>1, <3>1, <3>3, <2>4, <2>5, <2>9 DEF D
        <4>2. CASE x # k  BY <4>2, <3>1, <3>3, <2>4, <2>5, <2>9
        <4> QED  BY <4>1, <4>2
      <3> QED  BY <3>2, <3>3
    <2> QED  BY <2>11, <2>12, <2>13, <1>2, <1>3
  <1> QED  BY <1>6, <1>7

LEMMA InsertPreserves ==
    ASSUME IInv, NEW k \in Key, NEW d \in DataOf[k], Insert(k, d)
    PROVE  IInv'
  <1> USE DEF IInv
  <1>1. /\ ~popping /\ k \notin d_map /\ data' = [data EXCEPT ![k] = d]
        /\ scope' = [scope EXCEPT ![k] = level] /\ LinkLast(k)
        /\ level' = level /\ garbage' = garbage /\ popping' = popping
        /\ d_map' = d_map \cup {k}
    BY DEF Insert
  <1>2. Linked'
    <2>1. PICK L \in Seq(Key) : LinkedAs(L)  BY DEF Linked
    <2>2. LinkedAs(Append(L, k))' /\ Append(L, k) \in Seq(Key)  BY <2>1, <1>1, LinkLastLinks
    <2> QED  BY <2>2 DEF Linked
  <1>3. Stage'  BY <1>1 DEF Stage
  <1>4. d \in Data /\ level \in Level /\ level >= 0  BY MapAssumption DEF Data, TypeOK, Level
  <1>5. data' \in [Key -> Data \cup {Nil}] /\ data'[k] \in Data
        /\ \A x \in Key : x # k => data'[x] = data[x]
    BY <1>1, <1>4 DEF TypeOK
  <1>6. scope' \in [Key -> Level \cup {None}] /\ scope'[k] = level
        /\ \A x \in Key : x # k => scope'[x] = scope[x]
    BY <1>1, <1>4 DEF TypeOK
  <1>7. garbage = <<>> /\ ToSet(garbage) = {}  BY <1>1 DEF Stage, ToSet
  <1>8. saved[k] = NoCopies /\ DOMAIN saved[k] = {} /\ scope[k] = -1
    BY <1>1, <1>7 DEF Versions, VersionOK, NoCopies, None
  <1>9. /\ d_first' \in Key \cup {Nil} /\ d_next' \in [Key -> Key \cup {Nil}]
        /\ d_prev' \in [Key -> Key \cup {Nil}] /\ d_map' \subseteq Key
    <2>1. CASE d_first = Nil  BY <2>1, <1>1 DEF LinkLast, TypeOK
    <2>2. CASE d_first # Nil
      <3>1. d_first \in Key /\ d_prev[d_first] \in Key \cup {Nil}  BY <2>2 DEF TypeOK
      <3> QED  BY <3>1, <2>2, <1>1, ZenonT(40) DEF LinkLast, TypeOK
    <2> QED  BY <2>1, <2>2
  <1> DEFINE cons(l) == <<k>> \o chain[l]
  <1>10. 0 \in Level /\ \A l \in Level : chain[l] \in Seq(Key) /\ cons(l) \in Seq(Key)
    BY MapAssumption DEF TypeOK, Level
  (* What the two cases leave: the copies of k and the lists of the scopes. *)
  <1>11. /\ chain' \in [Level -> Seq(Key)]
         /\ \A l \in 1 .. MaxLevel : chain'[l] = IF l = level THEN cons(l) ELSE chain[l]
    <2>1. \A l \in 1 .. MaxLevel : l # 0 /\ l \in Level  BY MapAssumption DEF Level
    <2>2. CASE level = 0
      <3>1. chain' = [chain EXCEPT ![0] = cons(0)]  BY <2>2 DEF Insert
      <3> HIDE DEF cons
      <3> QED  BY <3>1, <2>1, <2>2, <1>10 DEF TypeOK
    <2>3. CASE level # 0
      <3>1. chain' = [chain EXCEPT ![0] = cons(0), ![level] = cons(level)]
        BY <2>3, <1>4, <1>10 DEF Insert, TypeOK
      <3> HIDE DEF cons
      <3> QED  BY <3>1, <2>1, <2>3, <1>4, <1>10 DEF TypeOK
    <2> QED  BY <2>2, <2>3
  <1>12. /\ DOMAIN saved' = Key
         /\ \A x \in Key : x # k => saved'[x] = saved[x]
         /\ DOMAIN saved'[k] = IF level = 0 THEN {} ELSE {0}
         /\ level # 0 => saved'[k][0] \in Version
    <2>1. CASE level = 0
      <3>1. saved' = saved  BY <2>1 DEF Insert
      <3> QED  BY <3>1, <2>1, <1>8 DEF TypeOK
    <2>2. CASE level # 0
      <3> DEFINE copy == [data |-> d, inMap |-> FALSE]
      <3>1. saved' = [saved EXCEPT ![k] = [l \in DOMAIN saved[k] \cup {0} |->
                                             IF l = 0 THEN copy ELSE saved[k][l]]]
        BY <2>2 DEF Insert, WithCopy, FirstCopy, TypeOK
      <3>2. copy \in Version  BY <1>4 DEF Version
      <3> HIDE DEF copy
      <3> QED  BY <3>1, <3>2, <2>2, <1>8 DEF TypeOK
    <2> QED  BY <2>1, <2>2
  <1> HIDE DEF cons
  <1>13. \A x \in Key : \A l \in DOMAIN saved'[x] : l \in Level /\ saved'[x][l] \in Version
    <2> SUFFICES ASSUME NEW x \in Key, NEW l \in DOMAIN saved'[x]
                 PROVE  l \in Level /\ saved'[x][l] \in Version
      OBVIOUS
    <2>1. CASE x = k  BY <2>1, <1>10, <1>12
    <2>2. CASE x # k  BY <2>2, <1>12 DEF TypeOK
    <2> QED  BY <2>1, <2>2
  <1>14. TypeOK'  BY <1>1, <1>5, <1>6, <1>9, <1>11, <1>12, <1>13 DEF TypeOK
  <1>15. Versions'
    <2> SUFFICES ASSUME NEW x \in Key  PROVE VersionOK(x)'  BY DEF Versions
    <2>1. CASE x = k
      <3>1. \A l \in DOMAIN saved'[k] : l < level /\ l = 0  BY <1>4, <1>12, MapAssumption DEF Level
      <3>2. level > 0 => 0 \in DOMAIN saved'[k]  BY <1>12
      <3>3. level <= level  BY <1>4 DEF Level
      <3> QED  BY <3>1, <3>2, <3>3, <2>1, <1>1, <1>4, <1>5, <1>6, <1>7 DEF VersionOK, ToSet
    <2>2. CASE x # k  BY <2>2, <1>1, <1>5, <1>6, <1>12 DEF Versions, VersionOK
    <2> QED  BY <2>1, <2>2
  <1>16. Chains'
    <2> SUFFICES ASSUME NEW l \in 1 .. MaxLevel
                 PROVE  /\ Once(chain'[l])
                        /\ \A x \in Key : scope'[x] = l \/ l \in DOMAIN saved'[x] <=> Holds(chain'[l], x)
      BY DEF Chains
    <2>1. l \in Level /\ l # 0 /\ Once(chain[l])
          /\ \A x \in Key : scope[x] = l \/ l \in DOMAIN saved[x] <=> Holds(chain[l], x)
      BY MapAssumption DEF Chains, Level
    <2>2. l \notin DOMAIN saved'[k] /\ ~Holds(chain[l], k)
      <3>1. l # -1 /\ l # 0  OBVIOUS
      <3>2. l \notin DOMAIN saved'[k]  BY <3>1, <1>12
      <3>3. ~(scope[k] = l \/ l \in DOMAIN saved[k])  BY <3>1, <1>8
      <3> QED  BY <3>2, <3>3, <2>1
    <2>3. CASE l = level
      <3>1. Once(cons(l)) /\ \A x : Holds(cons(l), x) <=> x = k \/ Holds(chain[l], x)
        BY <2>1, <2>2, <1>10, ConsList DEF cons
      <3>2. chain'[l] = cons(l)  BY <2>3, <1>11
      <3> SUFFICES ASSUME NEW x \in Key
                   PROVE  scope'[x] = l \/ l \in DOMAIN saved'[x] <=> Holds(chain'[l], x)
        BY <3>1, <3>2
      <3>3. CASE x = k  BY <3>1, <3>2, <3>3, <2>3, <1>6
      <3>4. CASE x # k  BY <3>1, <3>2, <3>4, <2>1, <1>6, <1>12
      <3> QED  BY <3>3, <3>4
    <2>4. CASE l # level
      <3>1. chain'[l] = chain[l]  BY <2>4, <1>11
      <3> SUFFICES ASSUME NEW x \in Key
                   PROVE  scope'[x] = l \/ l \in DOMAIN saved'[x] <=> Holds(chain'[l], x)
        BY <3>1, <2>1
      <3>2. CASE x = k  BY <3>1, <3>2, <2>2, <2>4, <1>6
      <3>3. CASE x # k  BY <3>1, <3>3, <2>1, <1>6, <1>12
      <3> QED  BY <3>2, <3>3
    <2> QED  BY <2>3, <2>4
  <1> QED  BY <1>2, <1>3, <1>14, <1>15, <1>16

LEMMA ClearPreserves ==
    ASSUME IInv, clear
    PROVE  IInv'
  <1> USE DEF IInv
  <1>1. level \in Level /\ level >= 0 /\ garbage = <<>> /\ ToSet(garbage) = {}
    BY MapAssumption DEF TypeOK, Level, Stage, clear, ToSet
  <1>2. TypeOK'
    <2>1. <<>> \in Seq(Key)  OBVIOUS
    <2>2. \A k \in Key : DOMAIN saved'[k] = {}  BY DEF clear, NoCopies
    <2> QED  BY <2>1, <2>2 DEF clear, TypeOK, Fresh
  <1>3. Linked'
    <2> DEFINE L == <<>>
    <2>1. L \in Seq(Key) /\ LinkedAs(L)'  BY DEF clear, LinkedAs
    <2> HIDE DEF L
    <2> QED  BY <2>1 DEF Linked
  <1>4. Versions'
    <2>1. \A k \in Key : scope'[k] = -1 /\ saved'[k] = NoCopies /\ DOMAIN saved'[k] = {}
      BY DEF clear, NoCopies, None
    <2>2. ToSet(garbage)' = {} /\ d_map' = {} /\ level' = level  BY <1>1 DEF clear, ToSet
    <2>3. -1 <= level  BY <1>1 DEF Level
    <2> QED  BY <2>1, <2>2, <2>3 DEF Versions, VersionOK, None
  <1>5. Chains'
    <2> SUFFICES ASSUME NEW l \in 1 .. MaxLevel  PROVE
           /\ Once(chain'[l])
           /\ \A k \in Key : scope'[k] = l \/ l \in DOMAIN saved'[k] <=> Holds(chain'[l], k)
      BY DEF Chains
    <2>1. chain'[l] = <<>>  BY MapAssumption DEF clear, Level
    <2>2. \A k \in Key : scope'[k] = -1 /\ DOMAIN saved'[k] = {}  BY DEF clear, NoCopies, None
    <2> QED  BY <2>1, <2>2 DEF Once, Holds
  <1>6. Stage'  BY DEF clear, Stage
  <1> QED  BY <1>2, <1>3, <1>4, <1>5, <1>6

LEMMA PushPopPreserve ==
    ASSUME IInv, ContextPush \/ ContextPop
    PROVE  IInv'
  <1> USE DEF IInv
  <1>1. /\ ~popping /\ level \in Level
        /\ UNCHANGED <<chain, scope, saved, garbage, links, d_map, data>>
        /\ \/ level' = level + 1 /\ level < MaxLevel /\ popping' = popping
           \/ level' = level - 1 /\ level > 0 /\ popping' = TRUE
    BY DEF ContextPush, ContextPop, TypeOK
  <1>2. level' \in Level /\ (level' = level - 1 => level' < MaxLevel)
    BY <1>1, MapAssumption DEF Level
  <1>3. TypeOK'  BY <1>1, <1>2 DEF TypeOK, links
  <1>4. Linked'  BY <1>1, SameLinks
  <1>5. Versions'
    <2> SUFFICES ASSUME NEW k \in Key  PROVE VersionOK(k)'  BY DEF Versions
    <2>1. VersionOK(k) /\ scope[k] \in Level \cup {None}  BY DEF Versions, TypeOK
    <2>2. scope[k] <= level  BY <2>1, <1>1 DEF VersionOK
    <2>3. scope'[k] <= level' \/ (popping' /\ scope'[k] = level' + 1)
      <3>1. scope[k] \in Int /\ level \in Int  BY <2>1, <1>1, MapAssumption DEF Level, None
      <3>2. CASE level' = level + 1  BY <3>1, <3>2, <2>2, <1>1
      <3>3. CASE level' = level - 1 /\ popping'  BY <3>1, <3>3, <2>2, <1>1
      <3> QED  BY <3>2, <3>3, <1>1
    <2> QED  BY <2>1, <2>3, <1>1 DEF VersionOK, ToSet
  <1>6. Chains'  BY <1>1 DEF Chains
  <1>7. Stage'  BY <1>1, <1>2 DEF Stage
  <1> QED  BY <1>3, <1>4, <1>5, <1>6, <1>7

(* The element that ~Scope restores is in the map, its newest copy is      *)
(* older than the scope, and a copy that says "no map" is its only one.    *)
LEMMA RestoredElement ==
    ASSUME IInv, popping, chain[level + 1] # <<>>
    PROVE  LET k == Head(chain[level + 1])
               l == NewestCopy(k)
           IN /\ level + 1 \in 1 .. MaxLevel /\ chain[level + 1] \in Seq(Key)
              /\ k \in Key /\ k \in d_map /\ scope[k] = level + 1
              /\ l \in DOMAIN saved[k] /\ l \in Level /\ 0 \in DOMAIN saved[k]
              /\ \A j \in DOMAIN saved[k] : j <= l
              /\ ~saved[k][l].inMap => DOMAIN saved[k] = {0} /\ l = 0
  <1> USE DEF IInv
  <1> DEFINE K == level + 1
             k == Head(chain[K])
             l == NewestCopy(k)
  <1>1. K \in 1 .. MaxLevel /\ K \in Level /\ K \in Nat /\ level \in Nat
    BY MapAssumption DEF TypeOK, Level, Stage
  <1>2. chain[K] \in Seq(Key) /\ Once(chain[K])
        /\ \A x \in Key : scope[x] = K \/ K \in DOMAIN saved[x] <=> Holds(chain[K], x)
    BY <1>1 DEF TypeOK, Chains
  <1>3. k \in Key /\ Holds(chain[K], k)  BY <1>2, TailList
  <1> HIDE DEF k
  <1>4. scope[k] \in Level \cup {None} /\ VersionOK(k)
        /\ \A j \in DOMAIN saved[k] : j \in Level
    BY <1>3 DEF TypeOK, Versions
  <1>5. scope[k] = K
    <2> SUFFICES ASSUME K \in DOMAIN saved[k]  PROVE FALSE  BY <1>2, <1>3
    <2>1. K < scope[k] /\ (scope[k] <= level \/ scope[k] = K)  BY <1>4 DEF VersionOK
    <2>2. scope[k] \in Int  BY <1>4, MapAssumption DEF Level, None
    <2> QED  BY <2>1, <2>2, <1>1
  <1>6. k \in d_map
    <2> SUFFICES ASSUME k \notin d_map  PROVE FALSE  OBVIOUS
    <2>1. scope[k] = 0 \/ scope[k] = -1  BY <1>4 DEF VersionOK, None
    <2> QED  BY <2>1, <1>1, <1>5
  <1>7. 0 \in DOMAIN saved[k]
    <2>1. scope[k] > 0  BY <1>1, <1>5
    <2> QED  BY <2>1, <1>4 DEF VersionOK
  <1>8. l \in DOMAIN saved[k] /\ l \in Level /\ \A j \in DOMAIN saved[k] : j <= l
    BY <1>3, <1>4, <1>7, NewestCopyIsNewest
  <1> HIDE DEF l
  <1>9. ASSUME ~saved[k][l].inMap  PROVE DOMAIN saved[k] = {0} /\ l = 0
    <2>1. l = 0  BY <1>4, <1>8, <1>9 DEF VersionOK
    <2>2. \A j \in DOMAIN saved[k] : j = 0
      <3> TAKE j \in DOMAIN saved[k]
      <3>1. j \in Level /\ j <= 0  BY <2>1, <1>4, <1>8
      <3> QED  BY <3>1, MapAssumption DEF Level
    <2> QED  BY <2>1, <2>2, <1>7
  <1> QED  BY <1>1, <1>2, <1>3, <1>5, <1>6, <1>7, <1>8, <1>9 DEF k, l

LEMMA RestoreNextPreserves ==
    ASSUME IInv, RestoreNext
    PROVE  IInv'
  <1> USE DEF IInv
  <1> DEFINE K == level + 1
             k == Head(chain[K])
             l == NewestCopy(k)
             D == DOMAIN saved[k]
  <1>1. popping /\ chain[K] # <<>> /\ level' = level /\ popping' = popping
    BY DEF RestoreNext
  <1>2. /\ K \in 1 .. MaxLevel /\ chain[K] \in Seq(Key) /\ k \in Key /\ k \in d_map
        /\ scope[k] = K /\ l \in D /\ l \in Level /\ 0 \in D
        /\ \A j \in D : j <= l
        /\ ~saved[k][l].inMap => D = {0} /\ l = 0
    BY <1>1, RestoredElement
  <1>3. /\ scope' = [scope EXCEPT ![k] = l]
        /\ saved' = [saved EXCEPT ![k] = [j \in D \ {l} |-> saved[k][j]]]
        /\ chain' = [chain EXCEPT ![K] = Tail(chain[K])]
        /\ \/ /\ saved[k][l].inMap /\ data' = [data EXCEPT ![k] = saved[k][l].data]
              /\ UNCHANGED <<d_map, links, garbage>>
           \/ /\ ~saved[k][l].inMap /\ d_map' = d_map \ {k} /\ UnlinkElement(k)
              /\ garbage' = Append(garbage, k) /\ data' = data
    BY <1>2 DEF RestoreNext, TypeOK
  <1>4. /\ Tail(chain[K]) \in Seq(Key) /\ Once(Tail(chain[K]))
        /\ \A x : Holds(Tail(chain[K]), x) <=> x # k /\ Holds(chain[K], x)
    BY <1>1, <1>2, TailList DEF Chains
  <1> HIDE DEF k, l
  <1>5. /\ DOMAIN saved' = Key /\ DOMAIN saved'[k] = D \ {l}
        /\ \A j \in D \ {l} : saved'[k][j] = saved[k][j]
        /\ \A x \in Key : x # k => saved'[x] = saved[x]
        /\ saved'[k] = [j \in D \ {l} |-> saved[k][j]]
    BY <1>2, <1>3 DEF TypeOK
  <1>6. scope' \in [Key -> Level \cup {None}] /\ scope'[k] = l
        /\ \A x \in Key : x # k => scope'[x] = scope[x]
    BY <1>2, <1>3 DEF TypeOK
  <1>7. /\ level \in Nat /\ K \in Level /\ l \in Nat /\ l < K /\ D \subseteq Level
        /\ \A j \in D : j \in Nat /\ j < K
        /\ \A j \in D \ {l} : j < l
    <2>1. level \in Nat /\ K \in Level /\ l \in Nat /\ D \subseteq Level
      BY <1>2, MapAssumption DEF TypeOK, Level
    <2>2. \A j \in D : j < K  BY <1>2 DEF Versions, VersionOK
    <2>3. \A j \in D : j \in Nat  BY <2>1, MapAssumption DEF Level
    <2> QED  BY <2>1, <2>2, <2>3, <1>2
  <1>8. /\ chain' \in [Level -> Seq(Key)] /\ chain'[K] = Tail(chain[K])
        /\ \A j \in Level : j # K => chain'[j] = chain[j]
    BY <1>3, <1>4, <1>7 DEF TypeOK
  <1>9. Chains'
    <2> SUFFICES ASSUME NEW m \in 1 .. MaxLevel
                 PROVE  /\ Once(chain'[m])
                        /\ \A x \in Key : scope'[x] = m \/ m \in DOMAIN saved'[x] <=> Holds(chain'[m], x)
      BY DEF Chains
    <2>1. m \in Level /\ Once(chain[m])
          /\ \A x \in Key : scope[x] = m \/ m \in DOMAIN saved[x] <=> Holds(chain[m], x)
      BY MapAssumption DEF Chains, Level
    <2>2. CASE m = K
      <3> SUFFICES ASSUME NEW x \in Key
                   PROVE  scope'[x] = m \/ m \in DOMAIN saved'[x] <=> Holds(chain'[m], x)
        BY <2>2, <1>4, <1>8
      <3>1. CASE x = k
        <4>1. scope'[k] # K /\ K \notin DOMAIN saved'[k]  BY <1>5, <1>6, <1>7
        <4> QED  BY <4>1, <3>1, <2>2, <1>4, <1>8
      <3>2. CASE x # k  BY <3>2, <2>1, <2>2, <1>4, <1>5, <1>6, <1>8
      <3> QED  BY <3>1, <3>2
    <2>3. CASE m # K
      <3> SUFFICES ASSUME NEW x \in Key
                   PROVE  scope'[x] = m \/ m \in DOMAIN saved'[x] <=> Holds(chain'[m], x)
        BY <2>1, <2>3, <1>8
      <3>1. CASE x = k
        <4>1. scope'[k] = m \/ m \in DOMAIN saved'[k] <=> m \in D  BY <1>2, <1>5, <1>6
        <4>2. m \in D <=> Holds(chain[m], k)  BY <2>1, <2>3, <1>2
        <4> QED  BY <4>1, <4>2, <3>1, <2>1, <2>3, <1>8
      <3>2. CASE x # k  BY <3>2, <2>1, <2>3, <1>5, <1>6, <1>8
      <3> QED  BY <3>1, <3>2
    <2> QED  BY <2>2, <2>3
  <1>10. Stage'  BY <1>1 DEF Stage
  <1>11. \A x \in Key : \A j \in DOMAIN saved'[x] : j \in Level /\ saved'[x][j] \in Version
    <2> SUFFICES ASSUME NEW x \in Key, NEW j \in DOMAIN saved'[x]
                 PROVE  j \in Level /\ saved'[x][j] \in Version
      OBVIOUS
    <2>1. CASE x = k  BY <2>1, <1>5, <1>7 DEF TypeOK
    <2>2. CASE x # k  BY <2>2, <1>5 DEF TypeOK
    <2> QED  BY <2>1, <2>2
  <1>12. /\ \A j \in DOMAIN saved'[k] : j < scope'[k] /\ (~saved'[k][j].inMap => j = 0)
         /\ scope'[k] > 0 => 0 \in DOMAIN saved'[k]
         /\ scope'[k] <= level
         /\ scope'[k] >= 0
    <2>1. \A j \in DOMAIN saved'[k] : j < scope'[k]  BY <1>5, <1>6, <1>7
    <2>2. \A j \in DOMAIN saved'[k] : ~saved'[k][j].inMap => j = 0
      BY <1>2, <1>5, Zenon DEF Versions, VersionOK
    <2>3. scope'[k] > 0 => 0 \in DOMAIN saved'[k]  BY <1>2, <1>5, <1>6, <1>7
    <2>4. scope'[k] <= level /\ scope'[k] >= 0  BY <1>6, <1>7
    <2> QED  BY <2>1, <2>2, <2>3, <2>4
  <1>13. CASE saved[k][l].inMap
    <2>1. data' = [data EXCEPT ![k] = saved[k][l].data] /\ UNCHANGED <<d_map, links, garbage>>
      BY <1>3, <1>13
    <2>2. saved[k][l].data \in Data  BY <1>2 DEF TypeOK, Version
    <2>3. data' \in [Key -> Data \cup {Nil}] /\ data'[k] \in Data
          /\ \A x \in Key : x # k => data'[x] = data[x]
      BY <2>1, <2>2, <1>2 DEF TypeOK
    <2>4. TypeOK'  BY <2>1, <2>3, <1>1, <1>5, <1>6, <1>8, <1>11 DEF TypeOK, links
    <2>5. Linked'  BY <2>1, SameLinks
    <2>6. Versions'
      <3> SUFFICES ASSUME NEW x \in Key  PROVE VersionOK(x)'  BY DEF Versions
      <3>1. CASE x = k
        <4>1. k \notin ToSet(garbage)  BY <1>2 DEF Versions, VersionOK
        <4> QED  BY <4>1, <3>1, <2>1, <2>3, <1>1, <1>2, <1>12 DEF VersionOK, ToSet
      <3>2. CASE x # k  BY <3>2, <2>1, <2>3, <1>1, <1>5, <1>6 DEF Versions, VersionOK
      <3> QED  BY <3>1, <3>2
    <2> QED  BY <2>4, <2>5, <2>6, <1>9, <1>10
  <1>14. CASE ~saved[k][l].inMap
    <2>1. /\ d_map' = d_map \ {k} /\ UnlinkElement(k)
          /\ garbage' = Append(garbage, k) /\ data' = data
      BY <1>3, <1>14
    <2>2. D = {0} /\ l = 0  BY <1>2, <1>14
    <2>3. Linked'
      <3>1. PICK L \in Seq(Key) : LinkedAs(L)  BY DEF Linked
      <3>2. PICK i \in 1 .. Len(L) : LinkedAs(Removed(L, i))' /\ Removed(L, i) \in Seq(Key)
        BY <3>1, <2>1, <1>2, UnlinkElementLinks
      <3> QED  BY <3>2 DEF Linked
    <2>4. garbage' \in Seq(Key) /\ \A x : x \in ToSet(garbage') <=> x = k \/ x \in ToSet(garbage)
      <3>1. garbage \in Seq(Key)  BY DEF TypeOK
      <3>2. /\ garbage' \in Seq(Key) /\ Len(garbage') = Len(garbage) + 1
            /\ garbage'[Len(garbage) + 1] = k
            /\ \A i \in 1 .. Len(garbage) : garbage'[i] = garbage[i]
        BY <3>1, <2>1, <1>2, AppendProperties
      <3>3. Len(garbage) \in Nat  BY <3>1, LenProperties
      <3>4. DOMAIN garbage = 1 .. Len(garbage) /\ DOMAIN garbage' = 1 .. Len(garbage) + 1
        BY <3>1, <3>2, LenProperties
      <3>5. \A i \in 1 .. Len(garbage) + 1 : i \in 1 .. Len(garbage) \/ i = Len(garbage) + 1
        BY <3>3
      <3>6. /\ Len(garbage) + 1 \in 1 .. Len(garbage) + 1
            /\ \A i \in 1 .. Len(garbage) : i \in 1 .. Len(garbage) + 1
        BY <3>3
      <3>7. ASSUME NEW x \in ToSet(garbage')  PROVE x = k \/ x \in ToSet(garbage)
        <4>1. PICK i \in 1 .. Len(garbage) + 1 : garbage'[i] = x  BY <3>4 DEF ToSet
        <4> QED  BY <4>1, <3>2, <3>4, <3>5 DEF ToSet
      <3>8. k \in ToSet(garbage')  BY <3>2, <3>4, <3>6 DEF ToSet
      <3>9. ASSUME NEW x \in ToSet(garbage)  PROVE x \in ToSet(garbage')
        <4>1. PICK i \in 1 .. Len(garbage) : garbage[i] = x  BY <3>4 DEF ToSet
        <4> QED  BY <4>1, <3>2, <3>4, <3>6 DEF ToSet
      <3> QED  BY <3>2, <3>7, <3>8, <3>9
    <2>5. saved'[k] = NoCopies
      <3>1. D \ {l} = {}  BY <2>2
      <3> QED  BY <3>1, <1>5 DEF NoCopies
    <2>6. /\ d_first' \in Key \cup {Nil} /\ d_next' \in [Key -> Key \cup {Nil}]
          /\ d_prev' \in [Key -> Key \cup {Nil}] /\ d_map' \subseteq Key
      BY <2>1, <1>2 DEF UnlinkElement, TypeOK
    <2>7. TypeOK'  BY <2>1, <2>4, <2>6, <1>1, <1>5, <1>6, <1>8, <1>11 DEF TypeOK
    <2>8. Versions'
      <3> SUFFICES ASSUME NEW x \in Key  PROVE VersionOK(x)'  BY DEF Versions
      <3>1. CASE x = k
        <4>1. k \notin d_map' /\ k \in ToSet(garbage') /\ scope'[k] = 0
          BY <2>1, <2>2, <2>4, <1>6
        <4> QED  BY <4>1, <3>1, <2>5, <1>1, <1>12 DEF VersionOK, ToSet
      <3>2. CASE x # k
        <4>1. (x \in d_map' <=> x \in d_map) /\ (x \in ToSet(garbage') <=> x \in ToSet(garbage))
          BY <3>2, <2>1, <2>4
        <4>2. VersionOK(x)  BY DEF Versions
        <4>3. scope'[x] = scope[x] /\ saved'[x] = saved[x] /\ data'[x] = data[x]
          BY <3>2, <2>1, <1>5, <1>6
        <4>4. ToSet(garbage)' = ToSet(garbage')  BY DEF ToSet
        <4> QED  BY <4>1, <4>2, <4>3, <4>4, <1>1 DEF VersionOK
      <3> QED  BY <3>1, <3>2
    <2> QED  BY <2>3, <2>7, <2>8, <1>9, <1>10
  <1> QED  BY <1>13, <1>14

LEMMA DeleteGarbagePreserves ==
    ASSUME IInv, DeleteGarbage
    PROVE  IInv'
  <1> USE DEF IInv
  <1> DEFINE dead == ToSet(garbage)
             K == level + 1
  <1>1. /\ popping /\ chain[K] = <<>> /\ garbage' = <<>> /\ popping' = FALSE
        /\ level' = level /\ d_map' = d_map /\ d_first' = d_first
    BY DEF DeleteGarbage
  <1>2. /\ scope' = [k \in Key |-> IF k \in dead THEN None ELSE scope[k]]
        /\ saved' = [k \in Key |-> IF k \in dead THEN NoCopies ELSE saved[k]]
        /\ data' = [k \in Key |-> IF k \in dead THEN Nil ELSE data[k]]
        /\ d_next' = [k \in Key |-> IF k \in dead THEN Nil ELSE d_next[k]]
        /\ d_prev' = [k \in Key |-> IF k \in dead THEN Nil ELSE d_prev[k]]
        /\ chain' = [l \in Level |-> Without(chain[l], dead)]
    BY DEF DeleteGarbage
  <1> HIDE DEF dead
  <1>3. level \in Nat /\ K \in 1 .. MaxLevel  BY <1>1, MapAssumption DEF TypeOK, Level, Stage
  <1>4. \A k \in Key : k \in dead => k \notin d_map /\ saved[k] = NoCopies /\ scope[k] = 0
    BY DEF dead, Versions, VersionOK
  <1>5. \A k \in Key : scope[k] <= level
    <2> TAKE k \in Key
    <2>1. ~Holds(chain[K], k)  BY <1>1 DEF Holds
    <2>2. scope[k] # K  BY <2>1, <1>3 DEF Chains
    <2> QED  BY <2>2 DEF Versions, VersionOK
  <1>6. \A l \in 1 .. MaxLevel : l \in Level /\ chain'[l] = chain[l]
    <2> TAKE l \in 1 .. MaxLevel
    <2>1. l \in Level /\ chain[l] \in Seq(Key)  BY MapAssumption DEF TypeOK, Level
    <2>2. ASSUME NEW i \in 1 .. Len(chain[l])  PROVE chain[l][i] \notin dead
      <3> DEFINE k == chain[l][i]
      <3>1. k \in Key /\ Holds(chain[l], k)  BY <2>1, ElementOfSeq DEF Holds
      <3>2. scope[k] = l \/ l \in DOMAIN saved[k]  BY <3>1 DEF Chains
      <3>3. k \in dead => scope[k] = 0 /\ DOMAIN saved[k] = {}  BY <3>1, <1>4 DEF NoCopies
      <3>4. l # 0  OBVIOUS
      <3> HIDE DEF k
      <3>5. k \notin dead  BY <3>2, <3>3, <3>4
      <3> QED  BY <3>5 DEF k
    <2>3. Without(chain[l], dead) = chain[l]  BY <2>1, <2>2, WithoutNone
    <2> QED  BY <2>1, <2>3, <1>2
  <1>7. TypeOK'
    <2>1. chain' \in [Level -> Seq(Key)]
      <3>1. \A l \in Level : Without(chain[l], dead) \in Seq(Key)  BY WithoutType DEF TypeOK
      <3> QED  BY <3>1, <1>2
    <2>2. \A k \in Key : \A l \in DOMAIN saved'[k] : l \in Level /\ saved'[k][l] \in Version
      <3> TAKE k \in Key
      <3>1. CASE k \in dead
        <4>1. DOMAIN saved'[k] = {}  BY <3>1, <1>2 DEF NoCopies
        <4> QED  BY <4>1
      <3>2. CASE k \notin dead
        <4>1. saved'[k] = saved[k]  BY <3>2, <1>2
        <4> QED  BY <4>1 DEF TypeOK
      <3> QED  BY <3>1, <3>2
    <2>3. garbage' \in Seq(Key)  BY <1>1
    <2>4. DOMAIN saved' = Key  BY <1>2
    <2> QED  BY <2>1, <2>2, <2>3, <2>4, <1>1, <1>2 DEF TypeOK
  <1>8. Linked'
    <2>1. PICK L \in Seq(Key) : LinkedAs(L)  BY DEF Linked
    <2>2. \A i \in 1 .. Len(L) : L[i] \in Key /\ L[i] \notin dead
      BY <2>1, <1>4, ElementOfSeq DEF LinkedAs
    <2>3. \A i \in 1 .. Len(L) : d_next'[L[i]] = d_next[L[i]] /\ d_prev'[L[i]] = d_prev[L[i]]
      BY <2>2, <1>2
    <2>4. LinkedAs(L)'  BY <2>1, <2>3, <1>1 DEF LinkedAs
    <2> QED  BY <2>4 DEF Linked
  <1>9. Versions'
    <2> SUFFICES ASSUME NEW k \in Key  PROVE VersionOK(k)'  BY DEF Versions
    <2>1. ToSet(garbage)' = {}  BY <1>1 DEF ToSet
    <2>2. CASE k \in dead
      <3>1. scope'[k] = -1 /\ saved'[k] = NoCopies /\ DOMAIN saved'[k] = {} /\ k \notin d_map'
        BY <2>2, <1>1, <1>2, <1>4 DEF NoCopies, None
      <3>2. -1 <= level /\ ~(-1 > 0)  BY <1>3
      <3> QED  BY <3>1, <3>2, <2>1, <1>1 DEF VersionOK, None
    <2>3. CASE k \notin dead
      <3>1. scope'[k] = scope[k] /\ saved'[k] = saved[k] /\ data'[k] = data[k]
        BY <2>3, <1>2
      <3>2. VersionOK(k)  BY DEF Versions
      <3> QED  BY <3>1, <3>2, <2>1, <2>3, <1>1, <1>5 DEF VersionOK, dead
    <2> QED  BY <2>2, <2>3
  <1>10. Chains'
    <2> SUFFICES ASSUME NEW l \in 1 .. MaxLevel
                 PROVE  /\ Once(chain'[l])
                        /\ \A k \in Key : scope'[k] = l \/ l \in DOMAIN saved'[k] <=> Holds(chain'[l], k)
      BY DEF Chains
    <2>1. chain'[l] = chain[l] /\ l # 0 /\ l # -1  BY <1>6
    <2>2. Once(chain[l])
          /\ \A k \in Key : scope[k] = l \/ l \in DOMAIN saved[k] <=> Holds(chain[l], k)
      BY DEF Chains
    <2> SUFFICES ASSUME NEW k \in Key
                 PROVE  scope'[k] = l \/ l \in DOMAIN saved'[k] <=> Holds(chain'[l], k)
      BY <2>1, <2>2
    <2>3. CASE k \in dead
      <3>1. scope'[k] = -1 /\ DOMAIN saved'[k] = {}  BY <2>3, <1>2 DEF NoCopies, None
      <3>2. scope[k] = 0 /\ DOMAIN saved[k] = {}  BY <2>3, <1>4 DEF NoCopies
      <3> QED  BY <3>1, <3>2, <2>1, <2>2
    <2>4. CASE k \notin dead
      <3>1. scope'[k] = scope[k] /\ saved'[k] = saved[k]  BY <2>4, <1>2
      <3> QED  BY <3>1, <2>1, <2>2
    <2> QED  BY <2>3, <2>4
  <1>11. Stage'  BY <1>1 DEF Stage
  <1> QED  BY <1>7, <1>8, <1>9, <1>10, <1>11

LEMMA StutterPreserves ==
    ASSUME IInv, UNCHANGED vars
    PROVE  IInv'
  <1>1. UNCHANGED <<level, chain, scope, saved, garbage, popping, links, d_map, data>>
    BY DEF vars, context
  <1>2. Linked'  BY <1>1, SameLinks DEF IInv
  <1>3. TypeOK'  BY <1>1 DEF IInv, TypeOK, links
  <1>4. Versions'  BY <1>1 DEF IInv, Versions, VersionOK, ToSet
  <1>5. Chains' /\ Stage'  BY <1>1 DEF IInv, Chains, Stage
  <1> QED  BY <1>2, <1>3, <1>4, <1>5 DEF IInv

LEMMA IInvHolds == Spec => []IInv
  <1>1. IInv /\ [Next]_vars => IInv'
    <2> SUFFICES ASSUME IInv, [Next]_vars  PROVE IInv'  OBVIOUS
    <2>1. ASSUME NEW k \in Key, NEW d \in DataOf[k], Insert(k, d)  PROVE IInv'
      BY <2>1, InsertPreserves
    <2>2. ASSUME NEW k \in Key, NEW d \in DataOf[k], Update(k, d)  PROVE IInv'
      BY <2>2, UpdatePreserves
    <2>3. CASE clear  BY <2>3, ClearPreserves
    <2>4. CASE ContextPush \/ ContextPop  BY <2>4, PushPopPreserve
    <2>5. CASE RestoreNext  BY <2>5, RestoreNextPreserves
    <2>6. CASE DeleteGarbage  BY <2>6, DeleteGarbagePreserves
    <2>7. CASE UNCHANGED vars  BY <2>7, StutterPreserves
    <2> QED  BY <2>1, <2>2, <2>3, <2>4, <2>5, <2>6, <2>7 DEF Next
  <1> QED  BY <1>1, InitEstablishes, PTL DEF Spec

-----------------------------------------------------------------------------
(* The table and the insertion-order list agree at every moment, in the    *)
(* middle of Context::pop too: iterating visits each key of the table      *)
(* once, and the list is circular and doubly linked.                       *)
THEOREM MapListMatchesTable == Spec => []ListMatchesTable
  <1>1. IInv => ListMatchesTable
    <2> SUFFICES ASSUME IInv  PROVE ListMatchesTable  OBVIOUS
    <2>1. PICK L \in Seq(Key) : LinkedAs(L)  BY DEF IInv, Linked
    <2> DEFINE n == Len(L)
    <2>2. /\ n \in Nat /\ DOMAIN L = 1 .. n /\ \A i \in 1 .. n : L[i] \in Key
          /\ d_map = {L[i] : i \in 1 .. n}
          /\ \A i \in 1 .. n : /\ d_next[L[i]] = L[IF i = n THEN 1 ELSE i + 1]
                               /\ d_prev[L[i]] = L[IF i = 1 THEN n ELSE i - 1]
      BY <2>1, LenProperties, ElementOfSeq DEF LinkedAs
    <2>3. Iteration = L  BY <2>1, IterationIsList
    <2>4. ToSet(Iteration) = d_map
      <3>1. ToSet(L) = d_map  BY <2>2 DEF ToSet
      <3> QED  BY <3>1, <2>3
    <2>5. Len(Iteration) = Cardinality(d_map)
      <3>1. Cardinality({L[i] : i \in 1 .. Len(L)}) = Len(L)
        BY <2>1, LengthIsCardinality DEF LinkedAs
      <3> QED  BY <3>1, <2>2, <2>3
    <2>6. ASSUME NEW k \in d_map  PROVE d_next[d_prev[k]] = k /\ d_prev[d_next[k]] = k
      <3>1. PICK i \in 1 .. n : k = L[i]  BY <2>2
      <3> HIDE DEF n
      <3> DEFINE b == IF i = 1 THEN n ELSE i - 1
                 a == IF i = n THEN 1 ELSE i + 1
      <3>2. /\ a \in 1 .. n /\ b \in 1 .. n
            /\ (IF b = n THEN 1 ELSE b + 1) = i /\ (IF a = 1 THEN n ELSE a - 1) = i
        BY <2>2
      <3>3. d_prev[k] = L[b] /\ d_next[k] = L[a]  BY <3>1, <2>2
      <3> HIDE DEF a, b
      <3> QED  BY <3>1, <3>2, <3>3, <2>2
    <2> QED  BY <2>4, <2>5, <2>6 DEF ListMatchesTable, IInv
  <1> QED  BY <1>1, IInvHolds, PTL

(* An element that a pop has put on d_garbage is out of the table and out  *)
(* of the list, and has nothing left to restore when it is deleted.        *)
THEOREM MapGarbageUnreachable == Spec => []GarbageUnreachable
  <1>1. IInv => GarbageUnreachable
    <2> SUFFICES ASSUME IInv, NEW i \in DOMAIN garbage
                 PROVE  /\ garbage[i] \notin d_map
                        /\ scope[garbage[i]] = 0 /\ saved[garbage[i]] = NoCopies
                        /\ \A k \in d_map : d_next[k] # garbage[i] /\ d_prev[k] # garbage[i]
      BY DEF GarbageUnreachable
    <2> DEFINE g == garbage[i]
    <2>1. g \in Key /\ g \in ToSet(garbage)
      <3>1. garbage \in Seq(Key)  BY DEF IInv, TypeOK
      <3> QED  BY <3>1, LenProperties, ElementOfSeq DEF ToSet
    <2>2. g \notin d_map /\ scope[g] = 0 /\ saved[g] = NoCopies
      BY <2>1 DEF IInv, Versions, VersionOK
    <2>3. PICK L \in Seq(Key) : LinkedAs(L)  BY DEF IInv, Linked
    <2>4. ASSUME NEW k \in d_map  PROVE d_next[k] \in d_map /\ d_prev[k] \in d_map
      <3>1. PICK j \in 1 .. Len(L) : k = L[j]  BY <2>3 DEF LinkedAs
      <3>2. Len(L) \in Nat  BY LenProperties
      <3>3. /\ (IF j = Len(L) THEN 1 ELSE j + 1) \in 1 .. Len(L)
            /\ (IF j = 1 THEN Len(L) ELSE j - 1) \in 1 .. Len(L)
        BY <3>2
      <3> QED  BY <3>1, <3>3, <2>3 DEF LinkedAs
    <2> HIDE DEF g
    <2>5. g \notin d_map /\ scope[g] = 0 /\ saved[g] = NoCopies
          /\ \A k \in d_map : d_next[k] # g /\ d_prev[k] # g
      BY <2>2, <2>4
    <2> QED  BY <2>5 DEF g
  <1> QED  BY <1>1, IInvHolds, PTL

-----------------------------------------------------------------------------
(* The map behaves as a stack of snapshots.                                *)

(* What the version numbers in D have for the scope at l.                  *)
Seen(D, l) == CHOOSE j \in D : j <= l /\ \A i \in D : i <= l => i <= j

LEMMA SeenIs ==
    ASSUME NEW D, D \subseteq Nat, NEW l \in Nat, NEW j \in D, j <= l,
           \A i \in D : i <= l => i <= j
    PROVE  Seen(D, l) = j
  <1> DEFINE c == Seen(D, l)
  <1>1. c \in D /\ c <= l /\ \A i \in D : i <= l => i <= c  BY DEF Seen
  <1> HIDE DEF c
  <1>2. c <= j /\ j <= c /\ c \in Nat /\ j \in Nat  BY <1>1
  <1>3. c = j  BY <1>2
  <1> QED  BY <1>3 DEF c

(* With a copy in the bottom scope there is one.                           *)
LEMMA SomeSeen ==
    ASSUME NEW D, D \subseteq Nat, 0 \in D, NEW l \in Nat
    PROVE  \E j \in D : j <= l /\ \A i \in D : i <= l => i <= j
  <1> DEFINE S == {i \in D : i <= l}
  <1>1. S \subseteq 0 .. l /\ 0 \in S
    <2>1. \A i \in S : i \in 0 .. l  OBVIOUS
    <2>2. 0 <= l  OBVIOUS
    <2> QED  BY <2>1, <2>2
  <1> HIDE DEF S
  <1>2. PICK g \in S : \A k \in S : k <= g  BY <1>1, GreatestElement
  <1> QED  BY <1>2 DEF S

LEMMA VersionIs ==
    /\ \A k, l : VersionAt(k, l) = IF scope[k] <= l THEN [data |-> data[k], inMap |-> TRUE]
                                   ELSE saved[k][Seen(DOMAIN saved[k], l)]
    /\ \A k, l : VersionAt(k, l)' = IF scope'[k] <= l THEN [data |-> data'[k], inMap |-> TRUE]
                                    ELSE saved'[k][Seen(DOMAIN saved'[k], l)]
  BY DEF VersionAt, Seen

(* What a list of keys with these versions looks like.                     *)
Elements(L) == {L[i] : i \in 1 .. Len(L)}
Listed(L, v) ==
    LET keys == Without(L, {k \in Elements(L) : ~v[k].inMap})
    IN  [i \in DOMAIN keys |-> <<keys[i], v[keys[i]].data>>]

LEMMA MapIsListed ==
    \A L \in Seq(Key) : LinkedAs(L) =>
        \A l : MapAt(l) = Listed(L, [k \in Key |-> VersionAt(k, l)])
  <1> SUFFICES ASSUME NEW L \in Seq(Key), LinkedAs(L), NEW l
               PROVE  MapAt(l) = Listed(L, [k \in Key |-> VersionAt(k, l)])
    OBVIOUS
  <1> DEFINE v == [k \in Key |-> VersionAt(k, l)]
             H == {k \in d_map : ~VersionAt(k, l).inMap}
             keys == Without(L, H)
             m == [i \in DOMAIN keys |-> <<keys[i], VersionAt(keys[i], l).data>>]
  <1>1. Iteration = L  BY IterationIsList
  <1>2. d_map = Elements(L) /\ d_map \subseteq Key
    <2>1. \A i \in 1 .. Len(L) : L[i] \in Key  BY ElementOfSeq
    <2> QED  BY <2>1 DEF LinkedAs, Elements
  <1>3. MapAt(l) = m
    <2>1. MapAt(l) = CHOOSE x \in {m} : TRUE
      <3>1. MapAt(l) = CHOOSE x \in {[i \in DOMAIN Without(q, H) |->
                                        <<Without(q, H)[i], VersionAt(Without(q, H)[i], l).data>>]
                                          : q \in {Iteration}} : TRUE
        BY DEF MapAt
      <3> HIDE DEF H
      <3>2. {[i \in DOMAIN Without(q, H) |->
                <<Without(q, H)[i], VersionAt(Without(q, H)[i], l).data>>] : q \in {Iteration}} = {m}
        BY <1>1
      <3> QED  BY <3>1, <3>2
    <2> HIDE DEF m
    <2> QED  BY <2>1
  <1>4. H = {k \in Elements(L) : ~v[k].inMap}  BY <1>2
  <1>5. keys \in Seq(Key)  BY WithoutType
  <1>6. \A i \in DOMAIN keys : VersionAt(keys[i], l) = v[keys[i]]
    <2> HIDE DEF keys
    <2>1. \A i \in DOMAIN keys : keys[i] \in Key  BY <1>5
    <2> QED  BY <2>1
  <1> HIDE DEF v, H
  <1>7. Listed(L, v) = [i \in DOMAIN keys |-> <<keys[i], v[keys[i]].data>>]
    BY <1>4 DEF Listed
  <1>8. Listed(L, v) = m  BY <1>6, <1>7
  <1> QED  BY <1>3, <1>8 DEF v

LEMMA NextMapIsListed ==
    (\A L \in Seq(Key) : LinkedAs(L) =>
        \A l : MapAt(l) = Listed(L, [k \in Key |-> VersionAt(k, l)]))'
  BY MapIsListed, PTL

(* The list without an element that is not to be seen anyhow.              *)
LEMMA WithoutHidden ==
    ASSUME NEW K, NEW L \in Seq(K), NEW i \in 1 .. Len(L), NEW M \in Seq(K),
           M = Removed(L, i), NEW S, NEW T, L[i] \in S,
           \A j \in 1 .. Len(M) : M[j] \in T <=> M[j] \in S
    PROVE  Without(L, S) = Without(M, T)
  <1> DEFINE n == Len(L)
             to(j) == IF j < i THEN j ELSE j - 1
  <1>1. n \in Nat \ {0} /\ i \in 1 .. n  BY LenProperties
  <1>2. Len(M) = n - 1 /\ \A j \in 1 .. n - 1 : M[j] = L[IF j < i THEN j ELSE j + 1]
    <2>1. DOMAIN M = 1 .. n - 1  BY DEF Removed
    <2>2. Len(M) \in Nat /\ DOMAIN M = 1 .. Len(M)  BY LenProperties
    <2> HIDE DEF n
    <2>3. Len(M) = n - 1
      <3>1. \A a, b \in Nat : 1 .. a = 1 .. b => a = b
        <4> SUFFICES ASSUME NEW a \in Nat, NEW b \in Nat, 1 .. a = 1 .. b  PROVE a = b  OBVIOUS
        <4>1. (a = 0 \/ a \in 1 .. b) /\ (b = 0 \/ b \in 1 .. a)  OBVIOUS
        <4>2. a <= b /\ b <= a  BY <4>1
        <4> QED  BY <4>2
      <3> QED  BY <2>1, <2>2, <3>1, <1>1
    <2>4. \A j \in 1 .. n - 1 : M[j] = L[IF j < i THEN j ELSE j + 1]  BY DEF Removed, n
    <2> QED  BY <2>3, <2>4
  <1>3. PICK f \in [0 .. n -> Seq(K)] : Keeps(f, L, S, n) /\ Without(L, S) = f[n]
    BY WithoutKeeps
  <1>4. PICK g \in [0 .. n - 1 -> Seq(K)] : Keeps(g, M, T, n - 1) /\ Without(M, T) = g[n - 1]
    <2>1. \E g \in [0 .. Len(M) -> Seq(K)] : Keeps(g, M, T, Len(M)) /\ Without(M, T) = g[Len(M)]
      BY WithoutKeeps
    <2> QED  BY <2>1, <1>2
  <1> HIDE DEF n
  <1> DEFINE E == {j \in 0 .. n : f[j] = g[to(j)]}
  <1>5. 0 \in E  BY <1>1, <1>3, <1>4 DEF Keeps
  <1>6. ASSUME NEW j \in 1 .. n, j - 1 \in E  PROVE j \in E
    <2>1. f[j - 1] = g[to(j - 1)]  BY <1>6
    <2>2. f[j] = IF L[j] \in S THEN f[j - 1] ELSE Append(f[j - 1], L[j])  BY <1>3 DEF Keeps
    <2>3. CASE j = i
      <3>1. to(j) = j - 1 /\ to(j - 1) = j - 1  BY <2>3, <1>1
      <3> QED  BY <3>1, <2>1, <2>2, <2>3
    <2>4. CASE j # i
      <3>1. to(j) \in 1 .. n - 1 /\ to(j - 1) = to(j) - 1
            /\ (IF to(j) < i THEN to(j) ELSE to(j) + 1) = j
        BY <2>4, <1>1
      <3> HIDE DEF to
      <3>2. M[to(j)] = L[j]  BY <3>1, <1>2
      <3>3. L[j] \in T <=> L[j] \in S  BY <3>1, <3>2, <1>2
      <3>4. g[to(j)] = IF L[j] \in T THEN g[to(j) - 1] ELSE Append(g[to(j) - 1], L[j])
        BY <3>1, <3>2, <1>4 DEF Keeps
      <3>5. f[j] = g[to(j)]  BY <3>1, <3>3, <3>4, <2>1, <2>2
      <3> QED  BY <3>5
    <2> QED  BY <2>3, <2>4
  <1> HIDE DEF E
  <1>7. n \in E
    <2>1. 0 .. n \subseteq E  BY <1>1, <1>5, <1>6, UpTo
    <2> QED  BY <2>1, <1>1
  <1>8. to(n) = n - 1  BY <1>1
  <1> QED  BY <1>3, <1>4, <1>7, <1>8 DEF E

(* The map looks the same with the same list and versions,                 *)
LEMMA ListedSame ==
    ASSUME NEW L \in Seq(Key), NEW v, NEW w, \A k \in Elements(L) : v[k] = w[k]
    PROVE  Listed(L, v) = Listed(L, w)
  <1> DEFINE H == {k \in Elements(L) : ~v[k].inMap}
             keys == Without(L, H)
  <1>1. H = {k \in Elements(L) : ~w[k].inMap}  OBVIOUS
  <1>2. L \in Seq(Elements(L))
    <2>1. \A i \in 1 .. Len(L) : L[i] \in Elements(L)  BY DEF Elements
    <2> QED  BY <2>1, LenProperties, SeqDef
  <1>3. keys \in Seq(Elements(L))  BY <1>2, WithoutType
  <1> HIDE DEF keys
  <1>4. \A i \in DOMAIN keys : v[keys[i]] = w[keys[i]]  BY <1>3
  <1>5. Listed(L, v) = [i \in DOMAIN keys |-> <<keys[i], v[keys[i]].data>>]
    BY DEF Listed, keys
  <1>6. Listed(L, w) = [i \in DOMAIN keys |-> <<keys[i], w[keys[i]].data>>]
    BY <1>1, Zenon DEF Listed, keys
  <1> QED  BY <1>4, <1>5, <1>6

(* and without an element that is not in the map there.                    *)
LEMMA ListedRemoved ==
    ASSUME NEW L \in Seq(Key), NEW i \in 1 .. Len(L), Once(L), NEW M \in Seq(Key),
           M = Removed(L, i), NEW v, NEW w, ~v[L[i]].inMap,
           \A k \in Elements(M) : v[k] = w[k]
    PROVE  Listed(L, v) = Listed(M, w)
  <1> DEFINE S == {k \in Elements(L) : ~v[k].inMap}
             T == {k \in Elements(M) : ~v[k].inMap}
  <1>1. L[i] \in S  BY DEF Elements
  <1>2. \A j \in 1 .. Len(M) : M[j] \in Elements(M) /\ M[j] \in Elements(L)
    <2> SUFFICES ASSUME NEW j \in 1 .. Len(M)  PROVE M[j] \in Elements(M) /\ M[j] \in Elements(L)
      OBVIOUS
    <2>1. DOMAIN M = 1 .. Len(L) - 1 /\ DOMAIN M = 1 .. Len(M) /\ Len(L) \in Nat
      BY LenProperties DEF Removed
    <2>2. j \in 1 .. Len(L) - 1 /\ M[j] = L[IF j < i THEN j ELSE j + 1]  BY <2>1 DEF Removed
    <2>3. (IF j < i THEN j ELSE j + 1) \in 1 .. Len(L)  BY <2>1, <2>2
    <2> QED  BY <2>2, <2>3 DEF Elements
  <1>3. \A j \in 1 .. Len(M) : M[j] \in T <=> M[j] \in S  BY <1>2
  <1> HIDE DEF S, T
  <1>4. Without(L, S) = Without(M, T)  BY <1>1, <1>3, WithoutHidden
  <1>5. Listed(L, v) = Listed(M, v)  BY <1>4 DEF Listed, S, T
  <1> QED  BY <1>5, ListedSame

(* The scope at l sees what it saw if the versions it sees are the same,   *)
LEMMA SameMapAt ==
    ASSUME NEW L \in Seq(Key), LinkedAs(L), LinkedAs(L)', NEW l,
           \A k \in d_map : VersionAt(k, l)' = VersionAt(k, l)
    PROVE  MapAt(l)' = MapAt(l)
  <1> DEFINE v == [k \in Key |-> VersionAt(k, l)]
             w == [k \in Key |-> VersionAt(k, l)']
  <1>1. MapAt(l) = Listed(L, v)  BY MapIsListed
  <1>2. MapAt(l)' = Listed(L, w)  BY NextMapIsListed
  <1>3. \A k \in Elements(L) : k \in d_map /\ k \in Key
    <2>1. \A i \in 1 .. Len(L) : L[i] \in Key  BY ElementOfSeq
    <2> QED  BY <2>1 DEF LinkedAs, Elements
  <1>4. \A k \in Elements(L) : v[k] = w[k]  BY <1>3
  <1> HIDE DEF v, w
  <1> QED  BY <1>1, <1>2, <1>4, ListedSame

(* or differ only in an element that it does not see.                      *)
LEMMA SameMapBut ==
    ASSUME NEW L \in Seq(Key), LinkedAs(L), NEW i \in 1 .. Len(L), Removed(L, i) \in Seq(Key),
           LinkedAs(Removed(L, i))', NEW l, ~VersionAt(L[i], l).inMap,
           \A k \in d_map' : VersionAt(k, l)' = VersionAt(k, l)
    PROVE  MapAt(l)' = MapAt(l)
  <1> DEFINE v == [k \in Key |-> VersionAt(k, l)]
             w == [k \in Key |-> VersionAt(k, l)']
             M == Removed(L, i)
  <1>1. MapAt(l) = Listed(L, v)  BY MapIsListed
  <1>2. MapAt(l)' = Listed(M, w)  BY NextMapIsListed
  <1>3. \A k \in Elements(M) : k \in d_map' /\ k \in Key
    <2> HIDE DEF M
    <2>1. \A j \in 1 .. Len(M) : M[j] \in Key  BY ElementOfSeq DEF M
    <2> QED  BY <2>1 DEF LinkedAs, Elements, M
  <1>4. \A k \in Elements(M) : v[k] = w[k]  BY <1>3
  <1>5. L[i] \in Key /\ Once(L)  BY ElementOfSeq DEF LinkedAs, Once
  <1>6. ~v[L[i]].inMap  BY <1>5
  <1> HIDE DEF v, w
  <1>7. M \in Seq(Key) /\ M = Removed(L, i)  OBVIOUS
  <1> HIDE DEF M
  <1> QED  BY <1>1, <1>2, <1>4, <1>5, <1>6, <1>7, ListedRemoved

LEMMA SameMapPlus ==
    ASSUME NEW L \in Seq(Key), LinkedAs(L), NEW k \in Key, k \notin d_map,
           Append(L, k) \in Seq(Key), LinkedAs(Append(L, k))',
           NEW l, ~(VersionAt(k, l)').inMap,
           \A x \in d_map : VersionAt(x, l)' = VersionAt(x, l)
    PROVE  MapAt(l)' = MapAt(l)
  <1> DEFINE v == [x \in Key |-> VersionAt(x, l)]
             w == [x \in Key |-> VersionAt(x, l)']
             M == Append(L, k)
             n == Len(L)
  <1>1. MapAt(l) = Listed(L, v)  BY MapIsListed
  <1>2. MapAt(l)' = Listed(M, w)  BY NextMapIsListed
  <1>3. \A x \in Elements(L) : x \in d_map /\ x \in Key
    <2>1. \A j \in 1 .. Len(L) : L[j] \in Key  BY ElementOfSeq
    <2> QED  BY <2>1 DEF LinkedAs, Elements
  <1>4. \A x \in Elements(L) : w[x] = v[x]  BY <1>3
  <1>5. /\ M \in Seq(Key) /\ Len(M) = n + 1 /\ M[n + 1] = k /\ n \in Nat
        /\ \A j \in 1 .. n : M[j] = L[j]
    BY LenProperties, AppendProperties
  <1>6. ~w[k].inMap  OBVIOUS
  <1>7. Once(M)  BY DEF LinkedAs, Once
  <1> HIDE DEF v, w, M
  <1>8. L = Removed(M, n + 1)
    <2>1. \A j \in 1 .. n : L[j] = M[IF j < n + 1 THEN j ELSE j + 1]  BY <1>5
    <2>2. Removed(M, n + 1) = [j \in 1 .. n |-> M[IF j < n + 1 THEN j ELSE j + 1]]
      <3>1. Len(M) - 1 = n  BY <1>5
      <3> QED  BY <3>1 DEF Removed
    <2>3. L = [j \in 1 .. n |-> L[j]]  BY LenProperties
    <2> QED  BY <2>1, <2>2, <2>3
  <1>9. n + 1 \in 1 .. Len(M)  BY <1>5
  <1> QED  BY <1>1, <1>2, <1>4, <1>5, <1>6, <1>7, <1>8, <1>9, ListedRemoved

-----------------------------------------------------------------------------
(* What each action does to the versions that the scopes see.              *)

(* What IInv says of the copies of an element.                             *)
LEMMA CopiesOf ==
    ASSUME IInv, NEW k \in Key
    PROVE  /\ level \in Nat /\ scope[k] \in Int /\ DOMAIN saved[k] \subseteq Nat
           /\ \A j \in DOMAIN saved[k] : j < scope[k]
           /\ scope[k] > 0 => 0 \in DOMAIN saved[k]
           /\ ~popping => scope[k] <= level
           /\ scope[k] <= level + 1
  <1>1. /\ level \in Level /\ scope[k] \in Level \cup {None}
        /\ \A l \in DOMAIN saved[k] : l \in Level
    BY DEF IInv, TypeOK
  <1>2. Level \subseteq Nat /\ None \in Int  BY MapAssumption DEF Level, None
  <1>3. level \in Nat /\ scope[k] \in Int /\ DOMAIN saved[k] \subseteq Nat
    <2>1. level \in Nat /\ \A l \in DOMAIN saved[k] : l \in Nat  BY <1>1, <1>2
    <2>2. CASE scope[k] = None  BY <2>1, <2>2, <1>2
    <2>3. CASE scope[k] \in Level
      <3>1. scope[k] \in Nat  BY <2>3, <1>2
      <3> QED  BY <3>1, <2>1
    <2> QED  BY <2>2, <2>3, <1>1
  <1>4. VersionOK(k)  BY DEF IInv, Versions
  <1>5. scope[k] <= level \/ (popping /\ scope[k] = level + 1)  BY <1>4 DEF VersionOK
  <1> QED  BY <1>3, <1>4, <1>5 DEF VersionOK

(* set() leaves a copy behind: the enclosing scopes see what they saw.     *)
LEMMA UpdateKeeps ==
    ASSUME IInv, NEW k \in Key, NEW d \in DataOf[k], Update(k, d),
           NEW l \in 0 .. level - 1, NEW x \in Key
    PROVE  VersionAt(x, l)' = VersionAt(x, l)
  <1> DEFINE D == DOMAIN saved[k]
             c == scope[k]
  <1>1. /\ DOMAIN saved = Key /\ scope \in [Key -> Level \cup {None}]
        /\ data \in [Key -> Data \cup {Nil}]
    BY DEF IInv, TypeOK
  <1>2. /\ level \in Nat /\ c \in Int /\ D \subseteq Nat /\ c <= level
        /\ (\A j \in D : j < c) /\ (c > 0 => 0 \in D)
    BY CopiesOf DEF Update
  <1>3. l \in Nat /\ l < level  BY <1>2
  <1>4. data' = [data EXCEPT ![k] = d]  BY DEF Update
  <1>5. CASE c = level
    <2>1. scope' = scope /\ saved' = saved  BY <1>5 DEF Update
    <2>2. CASE x = k
      <3>1. ~(scope[x] <= l)  BY <2>2, <1>2, <1>3, <1>5
      <3> QED  BY <3>1, <2>1, VersionIs
    <2>3. CASE x # k
      <3>1. data'[x] = data[x]  BY <2>3, <1>1, <1>4
      <3> QED  BY <3>1, <2>1, VersionIs
    <2> QED  BY <2>2, <2>3
  <1>6. CASE c # level
    <2> DEFINE copy == [scope |-> c, data |-> data[k], inMap |-> TRUE]
               E == [j \in D \cup {c} |-> IF j = c THEN [data |-> data[k], inMap |-> TRUE]
                                          ELSE saved[k][j]]
    <2>1. scope' = [scope EXCEPT ![k] = level] /\ saved' = WithCopy(k, copy)
      BY <1>6 DEF Update
    <2>2. saved' = [saved EXCEPT ![k] = E]  BY <2>1 DEF WithCopy
    <2>3. CASE x # k
      <3>1. data'[x] = data[x] /\ scope'[x] = scope[x]  BY <2>3, <2>1, <1>1, <1>4
      <3>2. saved'[x] = saved[x]
        <4> HIDE DEF E
        <4> QED  BY <2>2, <2>3, <1>1
      <3> QED  BY <3>1, <3>2, VersionIs
    <2>4. CASE x = k
      <3>1. scope'[k] = level /\ saved'[k] = E
        <4> HIDE DEF E
        <4> QED  BY <2>1, <2>2, <1>1
      <3>2. ~(scope'[k] <= l)  BY <3>1, <1>2, <1>3
      <3>3. VersionAt(k, l)' = E[Seen(DOMAIN E, l)]  BY <3>1, <3>2, VersionIs
      <3>4. DOMAIN E = D \cup {c}  OBVIOUS
      <3>5. k \in d_map  BY DEF Update
      <3>6. c \in Nat
        <4>1. c >= 0  BY <3>5 DEF IInv, Versions, VersionOK
        <4> QED  BY <4>1, <1>2
      <3>7. CASE c <= l
        <4>1. Seen(D \cup {c}, l) = c
          <5>1. \A i \in D \cup {c} : i <= l => i <= c  BY <1>2, <3>6
          <5>2. D \cup {c} \subseteq Nat /\ c \in D \cup {c}  BY <1>2, <3>6
          <5> HIDE DEF D, c
          <5> QED  BY <5>1, <5>2, <3>7, <1>3, SeenIs
        <4>2. E[c] = [data |-> data[k], inMap |-> TRUE]  OBVIOUS
        <4>3. VersionAt(k, l) = [data |-> data[k], inMap |-> TRUE]  BY <3>7, VersionIs
        <4> QED  BY <4>1, <4>2, <4>3, <3>3, <3>4, <2>4
      <3>8. CASE ~(c <= l)
        <4>1. c > 0  BY <3>6, <3>8, <1>3
        <4>2. PICK j \in D : j <= l /\ \A i \in D : i <= l => i <= j
          <5> HIDE DEF D
          <5> QED  BY <4>1, <1>2, <1>3, SomeSeen
        <4>3. Seen(D, l) = j
          <5> HIDE DEF D
          <5> QED  BY <4>2, <1>2, <1>3, SeenIs
        <4>4. Seen(D \cup {c}, l) = j
          <5>1. \A i \in D \cup {c} : i <= l => i <= j  BY <4>2, <3>8
          <5>2. D \cup {c} \subseteq Nat /\ j \in D \cup {c}  BY <1>2, <3>6
          <5> HIDE DEF D, c
          <5> QED  BY <5>1, <5>2, <4>2, <1>3, SeenIs
        <4>5. j # c  BY <4>2, <3>8
        <4>6. E[j] = saved[k][j]  BY <4>5
        <4>7. VersionAt(k, l) = saved[k][j]  BY <4>3, <3>8, VersionIs
        <4> QED  BY <4>4, <4>6, <4>7, <3>3, <3>4, <2>4
      <3> QED  BY <3>7, <3>8
    <2> QED  BY <2>3, <2>4
  <1> QED  BY <1>5, <1>6

(* A new element is seen by the top scope only.                            *)
LEMMA InsertKeeps ==
    ASSUME IInv, NEW k \in Key, NEW d \in DataOf[k], Insert(k, d), NEW l \in 0 .. level - 1
    PROVE  /\ \A x \in Key : x # k => VersionAt(x, l)' = VersionAt(x, l)
           /\ ~(VersionAt(k, l)').inMap
  <1> DEFINE D == DOMAIN saved[k]
             E == [j \in D \cup {0} |-> IF j = 0 THEN [data |-> d, inMap |-> FALSE]
                                        ELSE saved[k][j]]
  <1>1. /\ DOMAIN saved = Key /\ scope \in [Key -> Level \cup {None}]
        /\ data \in [Key -> Data \cup {Nil}]
    BY DEF IInv, TypeOK
  <1>2. level \in Nat  BY CopiesOf
  <1>3. l \in Nat /\ l < level /\ level # 0  BY <1>2
  <1>4. /\ data' = [data EXCEPT ![k] = d] /\ scope' = [scope EXCEPT ![k] = level]
        /\ saved' = WithCopy(k, FirstCopy(d))
    BY <1>3 DEF Insert
  <1>5. saved' = [saved EXCEPT ![k] = E]  BY <1>4 DEF WithCopy, FirstCopy
  <1>6. D = {}
    <2>1. k \notin d_map  BY DEF Insert
    <2>2. saved[k] = NoCopies  BY <2>1 DEF IInv, Versions, VersionOK
    <2> QED  BY <2>2 DEF NoCopies
  <1>7. DOMAIN E = {0} /\ E[0] = [data |-> d, inMap |-> FALSE]  BY <1>6
  <1> HIDE DEF E
  <1>8. saved'[k] = E /\ scope'[k] = level  BY <1>1, <1>4, <1>5
  <1>9. Seen({0}, l) = 0
    <2>1. 0 <= l /\ \A i \in {0} : i <= l => i <= 0  BY <1>3
    <2> QED  BY <2>1, <1>3, SeenIs
  <1>10. ~(scope'[k] <= l)  BY <1>8, <1>2, <1>3
  <1>11. VersionAt(k, l)' = [data |-> d, inMap |-> FALSE]  BY <1>7, <1>8, <1>9, <1>10, VersionIs
  <1>12. ASSUME NEW x \in Key, x # k  PROVE VersionAt(x, l)' = VersionAt(x, l)
    <2>1. saved'[x] = saved[x] /\ scope'[x] = scope[x] /\ data'[x] = data[x]
      BY <1>1, <1>4, <1>5, <1>12
    <2> QED  BY <2>1, VersionIs
  <1> QED  BY <1>11, <1>12

(* restore() changes nothing that the scopes that are left see: the        *)
(* element had the version of the copy for them already.                   *)
LEMMA RestoreKeeps ==
    ASSUME IInv, RestoreNext, NEW l \in 0 .. level, NEW k, k = Head(chain[level + 1])
    PROVE  /\ \A x \in Key : x # k => VersionAt(x, l)' = VersionAt(x, l)
           /\ saved[k][NewestCopy(k)].inMap => VersionAt(k, l)' = VersionAt(k, l)
           /\ ~saved[k][NewestCopy(k)].inMap => ~VersionAt(k, l).inMap
  <1> DEFINE m == NewestCopy(k)
             D == DOMAIN saved[k]
             E == [j \in D \ {m} |-> saved[k][j]]
  <1>1. /\ DOMAIN saved = Key /\ scope \in [Key -> Level \cup {None}]
        /\ data \in [Key -> Data \cup {Nil}]
    BY DEF IInv, TypeOK
  <1>2. /\ k \in Key /\ k \in d_map /\ scope[k] = level + 1 /\ m \in D /\ 0 \in D
        /\ (\A j \in D : j <= m) /\ (~saved[k][m].inMap => D = {0} /\ m = 0)
    BY RestoredElement DEF RestoreNext
  <1>3. /\ scope' = [scope EXCEPT ![k] = m] /\ saved' = [saved EXCEPT ![k] = E]
        /\ (saved[k][m].inMap => data' = [data EXCEPT ![k] = saved[k][m].data])
        /\ (~saved[k][m].inMap => data' = data)
    BY DEF RestoreNext
  <1>4. level \in Nat /\ D \subseteq Nat  BY <1>2, CopiesOf
  <1>5. l \in Nat /\ ~(scope[k] <= l)  BY <1>2, <1>4
  <1>6. VersionAt(k, l) = saved[k][Seen(D, l)]  BY <1>5, VersionIs
  <1>7. DOMAIN E = D \ {m} /\ \A j \in D \ {m} : E[j] = saved[k][j]  OBVIOUS
  <1> HIDE DEF E, m
  <1>8. saved'[k] = E /\ scope'[k] = m  BY <1>1, <1>2, <1>3
  <1>9. ASSUME NEW x \in Key, x # k  PROVE VersionAt(x, l)' = VersionAt(x, l)
    <2>1. saved'[x] = saved[x] /\ scope'[x] = scope[x] /\ data'[x] = data[x]
      BY <1>1, <1>2, <1>3, <1>9
    <2> QED  BY <2>1, VersionIs
  <1>10. ASSUME saved[k][m].inMap  PROVE VersionAt(k, l)' = VersionAt(k, l)
    <2>1. data'[k] = saved[k][m].data  BY <1>1, <1>2, <1>3, <1>10
    <2>2. CASE m <= l
      <3>1. Seen(D, l) = m
        <4>1. \A i \in D : i <= l => i <= m  BY <1>2
        <4> HIDE DEF D
        <4> QED  BY <4>1, <2>2, <1>2, <1>4, <1>5, SeenIs
      <3>2. saved[k][m] \in Version  BY <1>2 DEF IInv, TypeOK
      <3>3. saved[k][m] = [data |-> saved[k][m].data, inMap |-> TRUE]
        BY <3>2, <1>10 DEF Version
      <3>4. VersionAt(k, l)' = [data |-> data'[k], inMap |-> TRUE]  BY <2>2, <1>8, VersionIs
      <3> QED  BY <3>1, <3>3, <3>4, <2>1, <1>6
    <2>3. CASE ~(m <= l)
      <3>1. PICK j \in D : j <= l /\ \A i \in D : i <= l => i <= j
        <4> HIDE DEF D
        <4> QED  BY <1>2, <1>4, <1>5, SomeSeen
      <3>2. Seen(D, l) = j
        <4> HIDE DEF D
        <4> QED  BY <3>1, <1>4, <1>5, SeenIs
      <3>3. j \in D \ {m}  BY <3>1, <2>3
      <3>4. Seen(D \ {m}, l) = j
        <4>1. D \ {m} \subseteq Nat /\ \A i \in D \ {m} : i <= l => i <= j  BY <3>1, <1>4
        <4> HIDE DEF D
        <4> QED  BY <4>1, <3>1, <3>3, <1>5, SeenIs
      <3>5. VersionAt(k, l)' = E[Seen(D \ {m}, l)]  BY <2>3, <1>7, <1>8, VersionIs
      <3> QED  BY <3>2, <3>3, <3>4, <3>5, <1>6, <1>7
    <2> QED  BY <2>2, <2>3
  <1>11. ASSUME ~saved[k][m].inMap  PROVE ~VersionAt(k, l).inMap
    <2>1. D = {0} /\ m = 0  BY <1>2, <1>11
    <2>2. 0 <= l /\ \A i \in {0} : i <= l => i <= 0  BY <1>5
    <2>3. Seen({0}, l) = 0  BY <2>2, <1>5, SeenIs
    <2>4. VersionAt(k, l) = saved[k][m]  BY <2>1, <2>3, <1>6
    <2> QED  BY <2>4, <1>11
  <1> QED  BY <1>9, <1>10, <1>11 DEF m

(* A map without elements is empty for every scope.                        *)
LEMMA EmptyListed ==
    /\ LinkedAs(<<>>) => \A l : MapAt(l) = <<>>
    /\ LinkedAs(<<>>)' => \A l : MapAt(l)' = <<>>
  <1>1. ASSUME NEW v  PROVE Listed(<<>>, v) = <<>>
    <2> DEFINE H == {k \in Elements(<<>>) : ~v[k].inMap}
               keys == Without(<<>>, H)
    <2>1. <<>> \in Seq(Key) /\ \A i \in 1 .. Len(<<>>) : <<>>[i] \notin H  OBVIOUS
    <2> HIDE DEF H
    <2>2. keys = <<>>  BY <2>1, WithoutNone
    <2>3. Listed(<<>>, v) = [i \in DOMAIN keys |-> <<keys[i], v[keys[i]].data>>]  BY DEF Listed, H
    <2> HIDE DEF keys
    <2> QED  BY <2>2, <2>3
  <1>2. <<>> \in Seq(Key)  OBVIOUS
  <1>3. LinkedAs(<<>>) => \A l : MapAt(l) = <<>>  BY <1>1, <1>2, MapIsListed
  <1>4. LinkedAs(<<>>)' => \A l : MapAt(l)' = <<>>  BY <1>1, <1>2, NextMapIsListed
  <1> QED  BY <1>3, <1>4

-----------------------------------------------------------------------------
(* Every action as a step of the stack of snapshots.                       *)

IsMap(f) == f = [x \in DOMAIN f |-> f[x]]

(* The stack of snapshots with one more.                                   *)
LEMMA OneMoreSnapshot ==
    ASSUME NEW n \in Nat, NEW s, NEW t, NEW e, IsMap(s), IsMap(t),
           DOMAIN s = 1 .. n, DOMAIN t = 1 .. n + 1,
           \A l \in 1 .. n : t[l] = s[l], t[n + 1] = e
    PROVE  t = Append(s, e)
  <1> DEFINE S == {s[l] : l \in 1 .. n} \cup {e}
  <1>1. s \in Seq(S) /\ Len(s) = n  BY DEF IsMap
  <1>2. t \in Seq(S) /\ Len(t) = n + 1  BY DEF IsMap
  <1> HIDE DEF S
  <1> QED  BY <1>1, <1>2

(* The stack of snapshots without its last one.                            *)
LEMMA OneSnapshotLess ==
    ASSUME NEW n \in Nat \ {0}, NEW s, NEW t, IsMap(s), IsMap(t),
           DOMAIN s = 1 .. n, DOMAIN t = 1 .. n - 1,
           \A l \in 1 .. n - 1 : t[l] = s[l]
    PROVE  s # <<>> /\ Len(s) = n /\ t = SubSeq(s, 1, n - 1)
  <1> DEFINE S == {s[l] : l \in 1 .. n}
  <1>1. s \in Seq(S) /\ Len(s) = n  BY DEF IsMap
  <1>2. t \in Seq(S) /\ Len(t) = n - 1  BY DEF IsMap
  <1> HIDE DEF S
  <1> QED  BY <1>1, <1>2

(* What the client reads next is the map of the top scope.                 *)
LEMMA TopMap == \A l : l = level' => MapAt(level)' = MapAt(l)'
  BY DEF MapAt, VersionAt

Cur == [p \in {"map"} |-> MapAt(level)]
Stk == [l \in 1 .. level |-> [p \in {"map"} |-> MapAt(l - 1)]]

LEMMA CurStk ==
    /\ IsMap(Cur) /\ IsMap(Cur') /\ DOMAIN Cur = {"map"} /\ DOMAIN Cur' = {"map"}
    /\ Cur["map"] = MapAt(level) /\ Cur'["map"] = MapAt(level)'
    /\ IsMap(Stk) /\ IsMap(Stk') /\ DOMAIN Stk = 1 .. level /\ DOMAIN Stk' = 1 .. level'
    /\ \A l \in 1 .. level : Stk[l] = [p \in {"map"} |-> MapAt(l - 1)]
    /\ \A l \in 1 .. level' : Stk'[l] = [p \in {"map"} |-> MapAt(l - 1)']
  <1>1. IsMap(Cur) /\ IsMap(Cur') /\ IsMap(Stk) /\ IsMap(Stk')  BY Zenon DEF IsMap, Cur, Stk
  <1>2. /\ DOMAIN Cur = {"map"} /\ DOMAIN Cur' = {"map"}
        /\ DOMAIN Stk = 1 .. level /\ DOMAIN Stk' = 1 .. level'
    BY Zenon DEF Cur, Stk
  <1>3. Cur["map"] = MapAt(level) /\ Cur'["map"] = MapAt(level)'  BY DEF Cur
  <1>4. \A l \in 1 .. level : Stk[l] = [p \in {"map"} |-> MapAt(l - 1)]  BY DEF Stk
  <1>5. \A l \in 1 .. level' : Stk'[l] = [p \in {"map"} |-> MapAt(l - 1)']  BY DEF Stk
  <1> QED  BY <1>1, <1>2, <1>3, <1>4, <1>5

(* The enclosing scopes see what they saw: the stack is the same.          *)
LEMMA SameStack ==
    ASSUME level \in Nat, level' = level,
           \A l \in 0 .. level - 1 : MapAt(l)' = MapAt(l)
    PROVE  Stk' = Stk
  <1>1. ASSUME NEW l \in 1 .. level  PROVE Stk'[l] = Stk[l]
    <2>1. l - 1 \in 0 .. level - 1  OBVIOUS
    <2>2. MapAt(l - 1)' = MapAt(l - 1)  BY <2>1
    <2>3. Stk[l] = [p \in {"map"} |-> MapAt(l - 1)]  BY CurStk
    <2>4. Stk'[l] = [p \in {"map"} |-> MapAt(l - 1)']  BY CurStk
    <2> QED  BY <2>2, <2>3, <2>4
  <1> QED  BY <1>1, CurStk DEF IsMap

(* A step that no enclosing scope can see changes the top scope, or        *)
(* nothing.                                                                *)
LEMMA IsWrite ==
    ASSUME level \in Nat, level' = level,
           \A l \in 0 .. level - 1 : MapAt(l)' = MapAt(l)
    PROVE  Snapshots!Next
  <1>1. Stk' = Stk  BY SameStack
  <1>2. Cur' = [Cur EXCEPT !["map"] = Cur'["map"]]  BY CurStk DEF IsMap
  <1> QED  BY <1>1, <1>2 DEF Snapshots!Next, Snapshots!Write, Cur, Stk

LEMMA Stutters ==
    ASSUME level \in Nat, level' = level,
           \A l \in 0 .. level : MapAt(l)' = MapAt(l)
    PROVE  UNCHANGED Snapshots!vars
  <1>1. \A l \in 0 .. level - 1 : MapAt(l)' = MapAt(l)  OBVIOUS
  <1>2. Stk' = Stk  BY <1>1, SameStack
  <1>3. PICK l : l = level  OBVIOUS
  <1>4. MapAt(l)' = MapAt(l)  BY <1>3
  <1>5. MapAt(level)' = MapAt(l)'  BY <1>3, TopMap
  <1>6. MapAt(level) = MapAt(l)  BY <1>3
  <1>7. Cur' = Cur  BY <1>4, <1>5, <1>6, CurStk DEF IsMap
  <1> QED  BY <1>2, <1>7 DEF Snapshots!vars, Cur, Stk

LEMMA InitIsSnapshot == Init => Snapshots!Init
  <1> SUFFICES ASSUME Init  PROVE Snapshots!Init  OBVIOUS
  <1>1. PICK L \in Seq(Key) : LinkedAs(L)  BY InitEstablishes DEF IInv, Linked
  <1>2. L = <<>> /\ level = 0
    <2>1. level = 0 /\ d_map = {}  BY DEF Init
    <2>2. Len(L) = 0
      <3>1. \A i \in 1 .. Len(L) : L[i] \in d_map  BY <1>1 DEF LinkedAs
      <3>2. Len(L) \in Nat  BY LenProperties
      <3>3. Len(L) # 0 => 1 \in 1 .. Len(L)  BY <3>2
      <3> QED  BY <3>1, <3>3, <2>1
    <2> QED  BY <2>1, <2>2, EmptySeq
  <1>3. MapAt(level) = <<>>  BY <1>1, <1>2, EmptyListed
  <1>4. Cur = [p \in {"map"} |-> <<>>]  BY <1>3 DEF Cur
  <1>5. Stk = <<>>  BY <1>2 DEF Stk
  <1> QED  BY <1>4, <1>5 DEF Snapshots!Init, Cur, Stk

(* CDHashMap::insert, on a key in the map and on a new one.                *)
LEMMA UpdateIsWrite ==
    ASSUME IInv, NEW k \in Key, NEW d \in DataOf[k], Update(k, d)
    PROVE  Snapshots!Next
  <1>1. level \in Nat /\ level' = level  BY CopiesOf DEF Update
  <1>2. PICK L \in Seq(Key) : LinkedAs(L)  BY DEF IInv, Linked
  <1>3. LinkedAs(L)'  BY <1>2 DEF Update, LinkedAs, links
  <1>4. d_map \subseteq Key  BY DEF IInv, TypeOK
  <1>5. ASSUME NEW l \in 0 .. level - 1  PROVE MapAt(l)' = MapAt(l)
    <2>1. \A x \in d_map : VersionAt(x, l)' = VersionAt(x, l)  BY <1>4, UpdateKeeps
    <2> QED  BY <2>1, <1>2, <1>3, SameMapAt
  <1> QED  BY <1>1, <1>5, IsWrite

LEMMA InsertIsWrite ==
    ASSUME IInv, NEW k \in Key, NEW d \in DataOf[k], Insert(k, d)
    PROVE  Snapshots!Next
  <1>1. level \in Nat /\ level' = level  BY CopiesOf DEF Insert
  <1>2. PICK L \in Seq(Key) : LinkedAs(L)  BY DEF IInv, Linked
  <1>3. k \notin d_map /\ LinkLast(k) /\ d_map' = d_map \cup {k} /\ TypeOK  BY DEF IInv, Insert
  <1>4. Append(L, k) \in Seq(Key) /\ LinkedAs(Append(L, k))'  BY <1>2, <1>3, LinkLastLinks
  <1>5. d_map \subseteq Key  BY DEF IInv, TypeOK
  <1>6. ASSUME NEW l \in 0 .. level - 1  PROVE MapAt(l)' = MapAt(l)
    <2>1. /\ \A x \in Key : x # k => VersionAt(x, l)' = VersionAt(x, l)
          /\ ~(VersionAt(k, l)').inMap
      BY InsertKeeps
    <2>2. \A x \in d_map : VersionAt(x, l)' = VersionAt(x, l)  BY <2>1, <1>3, <1>5
    <2> QED  BY <2>1, <2>2, <1>2, <1>3, <1>4, SameMapPlus
  <1> QED  BY <1>1, <1>6, IsWrite

(* clear() empties the map for every scope.                                *)
LEMMA ClearForgets ==
    ASSUME IInv, clear
    PROVE  Snapshots!Next
  <1>1. level \in Nat /\ level' = level /\ d_map' = {} /\ d_first' = Nil
    BY DEF clear, IInv, TypeOK, Level
  <1>2. LinkedAs(<<>>)'
    <2>1. Len(<<>>) = 0 /\ 1 .. 0 = {}  OBVIOUS
    <2> QED  BY <2>1, <1>1 DEF LinkedAs
  <1>3. \A l : MapAt(l)' = <<>>  BY <1>2, EmptyListed
  <1>4. MapAt(level)' = <<>>
    <2>1. PICK l : l = level'  OBVIOUS
    <2> QED  BY <2>1, <1>3, TopMap
  <1> DEFINE B == [p \in {"map"} |-> <<>>]
  <1>5. Cur' = [Cur EXCEPT !["map"] = B["map"]]  BY <1>4, CurStk DEF IsMap
  <1>6. Len(Stk) = level
    <2> DEFINE S == {Stk[l] : l \in 1 .. level}
    <2>1. Stk \in Seq(S)  BY <1>1, CurStk DEF IsMap
    <2> HIDE DEF S
    <2> QED  BY <2>1, <1>1, CurStk
  <1>7. ASSUME NEW l \in 1 .. level  PROVE Stk'[l] = [Stk[l] EXCEPT !["map"] = B["map"]]
    <2>1. MapAt(l - 1)' = <<>>  BY <1>3
    <2>2. Stk'[l] = [p \in {"map"} |-> MapAt(l - 1)']  BY <1>1, CurStk
    <2>3. Stk[l] = [p \in {"map"} |-> MapAt(l - 1)]  BY CurStk
    <2> QED  BY <2>1, <2>2, <2>3
  <1>8. Stk' = [i \in 1 .. Len(Stk) |-> [Stk[i] EXCEPT !["map"] = B["map"]]]
    <2> HIDE DEF B
    <2> QED  BY <1>1, <1>6, <1>7, CurStk DEF IsMap
  <1> QED  BY <1>5, <1>8 DEF Snapshots!Next, Snapshots!Forget, Cur, Stk

(* Context::push takes a snapshot.                                         *)
LEMMA PushIsPush ==
    ASSUME IInv, ContextPush
    PROVE  Snapshots!Next
  <1>1. level \in Nat /\ level' = level + 1 /\ ~popping  BY DEF ContextPush, IInv, TypeOK, Level
  <1>2. scope' = scope /\ saved' = saved /\ data' = data  BY DEF ContextPush
  <1>3. PICK L \in Seq(Key) : LinkedAs(L)  BY DEF IInv, Linked
  <1>4. LinkedAs(L)'  BY <1>3 DEF ContextPush, LinkedAs, links
  <1>5. \A k, l : VersionAt(k, l)' = VersionAt(k, l)  BY <1>2, VersionIs
  <1>6. \A l : MapAt(l)' = MapAt(l)  BY <1>3, <1>4, <1>5, SameMapAt
  <1>7. MapAt(level)' = MapAt(level)
    <2>1. PICK l : l = level'  OBVIOUS
    <2>2. PICK m : m = level  OBVIOUS
    <2>3. MapAt(level)' = MapAt(l)  BY <2>1, <1>6, TopMap
    <2>4. MapAt(l) = MapAt(m)
      <3> DEFINE v == [k \in Key |-> VersionAt(k, l)]
                 w == [k \in Key |-> VersionAt(k, m)]
      <3>1. MapAt(l) = Listed(L, v) /\ MapAt(m) = Listed(L, w)  BY <1>3, MapIsListed
      <3>2. \A k \in Elements(L) : k \in Key
        <4>1. \A i \in 1 .. Len(L) : L[i] \in Key  BY ElementOfSeq
        <4> QED  BY <4>1 DEF Elements
      <3>3. ASSUME NEW k \in Key  PROVE VersionAt(k, l) = VersionAt(k, m)
        <4>1. scope[k] \in Int /\ scope[k] <= level  BY <1>1, CopiesOf
        <4>2. scope[k] <= l /\ scope[k] <= m  BY <4>1, <2>1, <2>2, <1>1
        <4> QED  BY <4>2, VersionIs
      <3>4. \A k \in Elements(L) : v[k] = w[k]  BY <3>2, <3>3
      <3> HIDE DEF v, w
      <3> QED  BY <3>1, <3>4, ListedSame
    <2> QED  BY <2>2, <2>3, <2>4
  <1>8. Cur' = Cur  BY <1>7, CurStk DEF IsMap
  <1>9. Stk' = Append(Stk, Cur)
    <2>1. \A l \in 1 .. level : Stk'[l] = Stk[l]
      <3> SUFFICES ASSUME NEW l \in 1 .. level  PROVE Stk'[l] = Stk[l]  OBVIOUS
      <3>1. l \in 1 .. level'  BY <1>1
      <3>2. Stk'[l] = [p \in {"map"} |-> MapAt(l - 1)']  BY <3>1, CurStk
      <3>3. Stk[l] = [p \in {"map"} |-> MapAt(l - 1)]  BY CurStk
      <3> QED  BY <3>2, <3>3, <1>6
    <2>2. Stk'[level + 1] = Cur
      <3>1. PICK l : l = level + 1  OBVIOUS
      <3>2. l \in 1 .. level' /\ l - 1 = level  BY <3>1, <1>1
      <3>3. Stk'[l] = [p \in {"map"} |-> MapAt(l - 1)']  BY <3>2, CurStk
      <3>4. MapAt(l - 1)' = MapAt(l - 1)  BY <1>6
      <3>5. MapAt(l - 1) = MapAt(level)  BY <3>2
      <3>6. Stk'[l] = [p \in {"map"} |-> MapAt(level)]  BY <3>3, <3>4, <3>5
      <3> QED  BY <3>1, <3>6 DEF Cur
    <2>3. DOMAIN Stk' = 1 .. level + 1  BY <1>1, CurStk
    <2> QED  BY <2>1, <2>2, <2>3, <1>1, CurStk, OneMoreSnapshot
  <1> QED  BY <1>8, <1>9 DEF Snapshots!Next, Snapshots!Push, Cur, Stk

(* Once the scope is off the list, the top scope is the one below.         *)
LEMMA PopIsPop ==
    ASSUME IInv, ContextPop
    PROVE  Snapshots!Next
  <1>1. level \in Nat \ {0} /\ level' = level - 1
    <2>1. level \in Nat /\ level > 0 /\ level' = level - 1  BY DEF ContextPop, IInv, TypeOK, Level
    <2> QED  BY <2>1
  <1>2. scope' = scope /\ saved' = saved /\ data' = data  BY DEF ContextPop
  <1>3. PICK L \in Seq(Key) : LinkedAs(L)  BY DEF IInv, Linked
  <1>4. LinkedAs(L)'  BY <1>3 DEF ContextPop, LinkedAs, links
  <1>5. \A k, l : VersionAt(k, l)' = VersionAt(k, l)  BY <1>2, VersionIs
  <1>6. \A l : MapAt(l)' = MapAt(l)  BY <1>3, <1>4, <1>5, SameMapAt
  <1>7. Cur' = Stk[level]
    <2>1. PICK l : l = level'  OBVIOUS
    <2>2. MapAt(level)' = MapAt(l)  BY <2>1, <1>6, TopMap
    <2>3. l = level - 1 /\ level \in 1 .. level  BY <2>1, <1>1
    <2>4. Stk[level] = [p \in {"map"} |-> MapAt(level - 1)]  BY <2>3, CurStk
    <2>5. MapAt(l) = MapAt(level - 1)  BY <2>3
    <2> QED  BY <2>2, <2>4, <2>5, CurStk DEF IsMap
  <1>8. Stk # <<>> /\ Len(Stk) = level /\ Stk' = SubSeq(Stk, 1, level - 1)
    <2>1. \A l \in 1 .. level - 1 : Stk'[l] = Stk[l]
      <3> SUFFICES ASSUME NEW l \in 1 .. level - 1  PROVE Stk'[l] = Stk[l]  OBVIOUS
      <3>1. l \in 1 .. level' /\ l \in 1 .. level  BY <1>1
      <3>2. Stk'[l] = [p \in {"map"} |-> MapAt(l - 1)']  BY <3>1, CurStk
      <3>3. Stk[l] = [p \in {"map"} |-> MapAt(l - 1)]  BY <3>1, CurStk
      <3> QED  BY <3>2, <3>3, <1>6
    <2>2. DOMAIN Stk' = 1 .. level - 1  BY <1>1, CurStk
    <2> QED  BY <2>1, <2>2, <1>1, CurStk, OneSnapshotLess
  <1> QED  BY <1>7, <1>8 DEF Snapshots!Next, Snapshots!Pop, Cur, Stk

(* The loops of ~Scope are not visible.                                    *)
LEMMA RestoreStutters ==
    ASSUME IInv, RestoreNext
    PROVE  UNCHANGED Snapshots!vars
  <1>1. PICK k : k = Head(chain[level + 1])  OBVIOUS
  <1>2. level \in Nat /\ level' = level  BY DEF RestoreNext, IInv, TypeOK, Level
  <1>3. k \in Key /\ k \in d_map /\ d_map \subseteq Key
    BY <1>1, RestoredElement DEF RestoreNext, IInv, TypeOK
  <1>4. PICK L \in Seq(Key) : LinkedAs(L)  BY DEF IInv, Linked
  <1> DEFINE in == saved[k][NewestCopy(k)].inMap
  <1>5. /\ in => d_map' = d_map /\ links' = links
        /\ ~in => d_map' = d_map \ {k} /\ UnlinkElement(k)
    BY <1>1 DEF RestoreNext
  <1>6. \A l \in 0 .. level : /\ \A x \in Key : x # k => VersionAt(x, l)' = VersionAt(x, l)
                              /\ in => VersionAt(k, l)' = VersionAt(k, l)
                              /\ ~in => ~VersionAt(k, l).inMap
    BY <1>1, RestoreKeeps
  <1> HIDE DEF in
  <1>7. ASSUME in, NEW l \in 0 .. level  PROVE MapAt(l)' = MapAt(l)
    <2>1. LinkedAs(L)'  BY <1>4, <1>5, <1>7 DEF LinkedAs, links
    <2>2. \A x \in d_map : VersionAt(x, l)' = VersionAt(x, l)  BY <1>3, <1>6, <1>7
    <2> QED  BY <2>1, <2>2, <1>4, SameMapAt
  <1>8. ASSUME ~in, NEW l \in 0 .. level  PROVE MapAt(l)' = MapAt(l)
    <2>1. TypeOK /\ d_map' = d_map \ {k} /\ UnlinkElement(k)  BY <1>5, <1>8 DEF IInv
    <2>2. PICK i \in 1 .. Len(L) : /\ L[i] = k
                                   /\ Removed(L, i) \in Seq(Key) /\ LinkedAs(Removed(L, i))'
      BY <2>1, <1>3, <1>4, UnlinkElementLinks
    <2>3. ~VersionAt(L[i], l).inMap  BY <2>2, <1>6, <1>8
    <2>4. \A x \in d_map' : VersionAt(x, l)' = VersionAt(x, l)  BY <2>1, <1>3, <1>6
    <2> QED  BY <2>2, <2>3, <2>4, <1>4, SameMapBut
  <1>9. \A l \in 0 .. level : MapAt(l)' = MapAt(l)  BY <1>7, <1>8
  <1> QED  BY <1>2, <1>9, Stutters

LEMMA GarbageStutters ==
    ASSUME IInv, DeleteGarbage
    PROVE  UNCHANGED Snapshots!vars
  <1> DEFINE dead == ToSet(garbage)
  <1>1. level \in Nat /\ level' = level  BY DEF DeleteGarbage, IInv, TypeOK, Level
  <1>2. /\ scope' = [k \in Key |-> IF k \in dead THEN None ELSE scope[k]]
        /\ saved' = [k \in Key |-> IF k \in dead THEN NoCopies ELSE saved[k]]
        /\ data' = [k \in Key |-> IF k \in dead THEN Nil ELSE data[k]]
        /\ d_next' = [k \in Key |-> IF k \in dead THEN Nil ELSE d_next[k]]
        /\ d_prev' = [k \in Key |-> IF k \in dead THEN Nil ELSE d_prev[k]]
        /\ d_map' = d_map /\ d_first' = d_first
    BY DEF DeleteGarbage
  <1> HIDE DEF dead
  <1>3. \A k \in d_map : k \in Key /\ k \notin dead  BY DEF dead, IInv, TypeOK, Versions, VersionOK
  <1>4. PICK L \in Seq(Key) : LinkedAs(L)  BY DEF IInv, Linked
  <1>5. LinkedAs(L)'
    <2>1. \A i \in 1 .. Len(L) : L[i] \in d_map  BY <1>4 DEF LinkedAs
    <2>2. \A i \in 1 .. Len(L) : d_next'[L[i]] = d_next[L[i]] /\ d_prev'[L[i]] = d_prev[L[i]]
      BY <2>1, <1>2, <1>3
    <2> QED  BY <2>2, <1>2, <1>4 DEF LinkedAs
  <1>6. ASSUME NEW l \in 0 .. level  PROVE MapAt(l)' = MapAt(l)
    <2>1. \A k \in d_map : scope'[k] = scope[k] /\ saved'[k] = saved[k] /\ data'[k] = data[k]
      BY <1>2, <1>3
    <2>2. \A k \in d_map : VersionAt(k, l)' = VersionAt(k, l)  BY <2>1, VersionIs
    <2> QED  BY <2>2, <1>4, <1>5, SameMapAt
  <1> QED  BY <1>1, <1>6, Stutters

LEMMA StepIsSnapshot == IInv /\ [Next]_vars => [Snapshots!Next]_(Snapshots!vars)
  <1> SUFFICES ASSUME IInv, [Next]_vars  PROVE [Snapshots!Next]_(Snapshots!vars)  OBVIOUS
  <1>1. ASSUME NEW k \in Key, NEW d \in DataOf[k], Insert(k, d)  PROVE Snapshots!Next
    BY <1>1, InsertIsWrite
  <1>2. ASSUME NEW k \in Key, NEW d \in DataOf[k], Update(k, d)  PROVE Snapshots!Next
    BY <1>2, UpdateIsWrite
  <1>3. CASE clear  BY <1>3, ClearForgets
  <1>4. CASE ContextPush  BY <1>4, PushIsPush
  <1>5. CASE ContextPop  BY <1>5, PopIsPop
  <1>6. CASE RestoreNext  BY <1>6, RestoreStutters
  <1>7. CASE DeleteGarbage  BY <1>7, GarbageStutters
  <1>8. CASE UNCHANGED vars
    <2>1. /\ level' = level /\ d_map' = d_map /\ links' = links
          /\ scope' = scope /\ saved' = saved /\ data' = data
      BY <1>8 DEF vars, context, links
    <2>2. PICK L \in Seq(Key) : LinkedAs(L)  BY DEF IInv, Linked
    <2>3. LinkedAs(L)'  BY <2>1, <2>2 DEF LinkedAs, links
    <2>4. \A k, l : VersionAt(k, l)' = VersionAt(k, l)  BY <2>1, VersionIs
    <2>5. \A l : MapAt(l)' = MapAt(l)  BY <2>2, <2>3, <2>4, SameMapAt
    <2>6. level \in Nat  BY DEF IInv, TypeOK, Level
    <2> QED  BY <2>1, <2>5, <2>6, Stutters
  <1> QED  BY <1>1, <1>2, <1>3, <1>4, <1>5, <1>6, <1>7, <1>8 DEF Next

(* The map behaves as a stack of snapshots of its contents in insertion    *)
(* order, for any keys, data and depth: nothing is copied on a push, and a *)
(* pop undoes insert, operator[] and set element by element, but no        *)
(* enclosing scope ever sees another map than it had when the next scope   *)
(* was pushed, not even between two turns of the loop of ~Scope; only      *)
(* clear() reaches the enclosing scopes (insert, clear, and the            *)
(* constructor, save and restore of CDOhash_map in cdhashmap.h).           *)
THEOREM MapRefinesSnapshots == Spec => BehavesAsSnapshots
  BY IInvHolds, InitIsSnapshot, StepIsSnapshot, PTL
  DEF Spec, BehavesAsSnapshots, Snapshots!Spec

=============================================================================
